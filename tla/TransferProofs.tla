--------------------------- MODULE TransferProofs ---------------------------
(***************************************************************************)
(* Theorems about Transfer: what is on the wire between a client, the      *)
(* server at its other end and the goroutines that share the client.       *)
(***************************************************************************)
EXTENDS Transfer, FiniteSetTheorems, FunctionTheorems, TLAPS

-----------------------------------------------------------------------------
(* Types *)

Verbs == {"STARTTLS", "CAPABILITY", "LOGIN", "ID", "COMPRESS", "SELECT", "UID FETCH",
          "APPEND", "LOGOUT", "DATA", "CRLF", "none"}
Kinds == {"GREETING", "+", "OK", "NO", "CAPABILITY", "UIDVALIDITY", "BYE", "BODY", "CHUNK"}
Phases == {"greeting", "starttls", "open", "capability", "login", "id", "compress",
           "ready", "failed"}
Causes == {"none", "lost", "kick"}
Outcomes == Outcome \union {"none"}

Lines == [verb : Verbs, tag : Nat, msg : Msg \union {None}, part : Int,
          sync : BOOLEAN, z : BOOLEAN]
Replies == [kind : Kinds, tag : Nat, msg : Msg \union {None}, part : Int, z : BOOLEAN]
Chunks == (Msg \union {None}) \X Int
Waiters == [tag : Nat, verb : Verbs]

Servers == [on : BOOLEAN, peer : BOOLEAN, hung : BOOLEAN, zip : BOOLEAN,
            cmd : Lines, got : Seq(Chunks)]
Clients == [phase : Phases, plus : BOOLEAN, sent : BOOLEAN, caps : {"none", "clear", "safe"},
            tls : BOOLEAN, zin : BOOLEAN, zout : BOOLEAN,
            closed : BOOLEAN, why : Causes, told : BOOLEAN,
            pend : SUBSET Waiters, result : Seq(Outcomes), fifo : Seq(Msg),
            cont : Nat, owed : Int, idle : Nat,
            reader : {"off", "line", "literal"}, to : Msg \union {None}, left : Int]
Handles == [size : Int, ch : Seq(Chunks), err : Causes, shut : BOOLEAN, failed : BOOLEAN]

WireTyped == up \in [Conn -> Seq(Lines)] /\ down \in [Conn -> Seq(Replies)]
ServersTyped == srv \in [Conn -> Servers]
ClientsTyped == cli \in [Conn -> Clients]
BodiesTyped == body \in [Msg -> Handles]
BoxTyped == box \in [Conn -> Seq([row : Msg \union {None}, body : Seq(Chunks)])]

\* The goroutine of the runner: with an item in hand, or not.
WorkerTyped ==
  /\ next \in 1..(Len(Rows) + 1)
  /\ fetchQ \in Seq(Msg)
  /\ item \in Msg \union {None}
  /\ pc \in {"size", "begin", "cont", "stream", "finish"} => item \in Msg
  /\ pendQ \in Seq([row : Msg, tag : Nat])
  /\ closing \in Seq(Conn)
  /\ pc = "logout" => closing # <<>>
  /\ drained \subseteq Msg
  /\ here \subseteq Msg

Typed == /\ WireTyped /\ ServersTyped /\ ClientsTyped /\ BodiesTyped /\ BoxTyped
         /\ WorkerTyped

-----------------------------------------------------------------------------
(* The invariants *)

\* Tags are given in order, from 1; what is part of a literal has tag 0.
Parts == {"DATA", "CRLF"}
UpTags(u, n) ==
  \A i \in DOMAIN u : IF u[i].verb \in Parts THEN u[i].tag = 0 ELSE u[i].tag \in 1..n
UpOrder(u) == \A i, j \in DOMAIN u : i < j /\ u[j].tag # 0 => u[i].tag < u[j].tag
DownTags(d, n) == \A i \in DOMAIN d : d[i].tag \in 0..n
WaitTags(ps, n) == \A p \in ps : p.tag \in 1..n
After(t, u) == \A i \in DOMAIN u : u[i].tag # 0 => t < u[i].tag
CmdTags(c, u, n) == c = NoLine \/ (c.verb = "APPEND" /\ c.tag \in 1..n /\ After(c.tag, u))
TagsFresh(k) ==
  /\ UpTags(up[k], LastTag(k)) /\ UpOrder(up[k])
  /\ DownTags(down[k], LastTag(k))
  /\ WaitTags(cli[k].pend, LastTag(k))
  /\ CmdTags(srv[k].cmd, up[k], LastTag(k))

\* The runner starts when both connections are open or have failed.
OpenFirst == pc # "open" => \A k \in Conn : cli[k].phase \in {"ready", "failed"}
Modest == {e \in Lines : e.verb \notin {"UID FETCH", "APPEND"}}
Bodiless == {e \in Replies : e.kind # "BODY"}
Quiet ==
  pc = "open" => \A k \in Conn :
    /\ cli[k].reader # "literal" /\ srv[k].cmd = NoLine
    /\ up[k] \in Seq(Modest) /\ down[k] \in Seq(Bodiless)

\* Both ends are there.
Alive(k) == srv[k].on /\ ~cli[k].closed

PeerKnows(k) == srv[k].on => (srv[k].peer <=> ~cli[k].closed)

Compressing(k) == cli[k].phase = "compress" /\ cli[k].sent
Result(k) == cli[k].result[LastTag(k)]
Coded(s, z) == \A i \in DOMAIN s : s[i].z = z
CompressWaits(k) == {p \in cli[k].pend : p.verb = "COMPRESS"}

\* COMPRESS is on its way, is answered, or its answer is read.
Asked(k) ==
  /\ Result(k) = "wait"
  /\ CompressWaits(k) = {[tag |-> LastTag(k), verb |-> "COMPRESS"]}
  /\ ~srv[k].zip /\ ~cli[k].zin
  /\ up[k] # <<>> /\ up[k][Len(up[k])].verb = "COMPRESS"
  /\ up[k][Len(up[k])].tag = LastTag(k)
  /\ \A i \in DOMAIN down[k] : down[k][i].tag # LastTag(k)
Told(k) ==
  /\ Result(k) = "wait"
  /\ CompressWaits(k) = {[tag |-> LastTag(k), verb |-> "COMPRESS"]}
  /\ ~cli[k].zin
  /\ up[k] = <<>> /\ down[k] # <<>>
  /\ down[k][Len(down[k])].kind = (IF srv[k].zip THEN "OK" ELSE "NO")
  /\ \A i \in DOMAIN down[k] : down[k][i].tag = LastTag(k) <=> i = Len(down[k])
Known(k) ==
  /\ Result(k) = (IF srv[k].zip THEN "OK" ELSE "NO")
  /\ CompressWaits(k) = {}
  /\ up[k] = <<>> /\ down[k] = <<>>
  /\ cli[k].zin = srv[k].zip

\* COMPRESS comes last: what is written after it waits for its answer.
CompressLast(u) == \A i \in DOMAIN u : u[i].verb = "COMPRESS" => i = Len(u)
Uncompressed(u) == \A i \in DOMAIN u : u[i].verb # "COMPRESS"
OkLast(d, ps) ==
  \A i \in DOMAIN d : d[i].kind = "OK" /\ (\E p \in ps : p.tag = d[i].tag) => i = Len(d)

Coding(k) ==
  /\ cli[k].zout => cli[k].phase = "ready"
  /\ srv[k].on => Coded(up[k], srv[k].zip) /\ CompressLast(up[k])
  /\ Coded(down[k], cli[k].zin) /\ OkLast(down[k], CompressWaits(k))
  /\ Alive(k) => IF Compressing(k) THEN ~cli[k].zout /\ (Asked(k) \/ Told(k) \/ Known(k))
                 ELSE /\ srv[k].zip = cli[k].zout /\ cli[k].zin = cli[k].zout
                      /\ CompressWaits(k) = {} /\ Uncompressed(up[k])

CodingInv == OpenFirst /\ Quiet /\ \A k \in Conn : TagsFresh(k) /\ PeerKnows(k) /\ Coding(k)

\* A tag of the destination that stands for the copy of m.
Stored(m) == \E i \in DOMAIN box[dst] : box[dst][i].row = m
Traced(m, t) ==
  /\ t \in 1..LastTag(dst)
  /\ \A i \in DOMAIN up[dst] : up[dst][i].tag = t => up[dst][i].verb = "APPEND" /\ up[dst][i].msg = m
  /\ srv[dst].cmd.tag = t => srv[dst].cmd.msg = m
  /\ \A i \in DOMAIN down[dst] : down[dst][i].kind = "OK" /\ down[dst][i].tag = t => Stored(m)
  /\ cli[dst].result[t] = "OK" => Stored(m)

Copying == {"cont", "stream", "finish"}
AckInv ==
  /\ AckedIsStored
  /\ \A i \in DOMAIN pendQ : Traced(pendQ[i].row, pendQ[i].tag)
  /\ pc \in Copying => Traced(item, LastTag(dst))

\* The pass has not been left; it has been, and the connection of the source closed.
Running == pc \notin {"close", "logout", "closed"}
Gone == ~Running /\ cli[src].closed

\* The bodies that nobody reads yet are those of the last rows that are fetched,
\* in order; the one that is being read comes before them.
HeardOut == \A k \in Conn : cli[k].closed => down[k] = <<>>
Front1 == next - Len(cli[src].fifo)
FifoInv ==
  /\ \A k \in Conn : cli[k].to # None => cli[k].reader = "literal"
  /\ cli[dst].fifo = <<>> /\ cli[dst].to = None
  /\ Front1 \in 1..next
  /\ \A i \in DOMAIN cli[src].fifo : /\ cli[src].fifo[i] = Rows[Front1 + i - 1]
                                     /\ ~Gone => ~body[cli[src].fifo[i]].shut
  /\ cli[src].to # None => /\ \E r \in 1..(Front1 - 1) : cli[src].to = Rows[r]
                           /\ ~(LateBuffer /\ Gone) => ~body[cli[src].to].shut

-----------------------------------------------------------------------------
(* What a step does to one connection, as far as commands and their answers *)
(* go: every step is one of a few moves on each connection.                *)

SameVoice(k) ==
  /\ cli'[k].phase = cli[k].phase /\ cli'[k].sent = cli[k].sent
  /\ cli'[k].zin = cli[k].zin /\ cli'[k].zout = cli[k].zout
  /\ cli'[k].closed = cli[k].closed /\ cli'[k].why = cli[k].why
  /\ cli'[k].pend = cli[k].pend /\ cli'[k].result = cli[k].result
SameServer(k) == srv'[k] = srv[k] /\ box'[k] = box[k]
SameWire(k) == up'[k] = up[k] /\ down'[k] = down[k] /\ SameServer(k)

Rests(k) == SameVoice(k) /\ SameWire(k)

\* A part of a literal.
Feeds(k) ==
  /\ k = dst /\ ~cli[k].closed /\ pc # "open"
  /\ SameVoice(k) /\ SameServer(k) /\ down'[k] = down[k]
  /\ \E e \in Lines : /\ e.verb \in Parts /\ e.tag = 0 /\ e.z = cli[k].zout
                      /\ up'[k] = Append(up[k], e)

\* A command.
Calls(k) ==
  /\ ~cli[k].closed
  /\ SameServer(k) /\ down'[k] = down[k]
  /\ \E e \in Lines :
       /\ e.tag = LastTag(k) + 1 /\ e.z = cli[k].zout
       /\ up'[k] = Append(up[k], e)
       /\ cli'[k].pend = cli[k].pend \union {[tag |-> LastTag(k) + 1, verb |-> e.verb]}
       /\ cli'[k].result = Append(cli[k].result, "wait")
       /\ cli'[k].phase = cli[k].phase
       /\ cli'[k].zin = cli[k].zin /\ cli'[k].zout = cli[k].zout
       /\ cli'[k].closed = cli[k].closed /\ cli'[k].why = cli[k].why
       /\ \/ /\ cli[k].phase \in Asking /\ e.verb = Verb(cli[k].phase)
             /\ ~cli[k].sent /\ cli'[k].sent
          \/ /\ pc # "open" /\ e.verb \in {"SELECT", "UID FETCH", "APPEND", "LOGOUT"}
             /\ k = src \/ pc' # pc
             /\ cli'[k].sent = cli[k].sent

\* A command that a closed connection refuses.
CallsInVain(k) ==
  /\ cli[k].closed /\ SameWire(k)
  /\ cli[k].phase \in Asking \union {"starttls"} \/ k = src \/ pc' # pc
  /\ cli'[k].pend = cli[k].pend /\ cli'[k].result = Append(cli[k].result, "void")
  /\ cli'[k].phase = cli[k].phase
  /\ cli'[k].zin = cli[k].zin /\ cli'[k].zout = cli[k].zout
  /\ cli'[k].closed = cli[k].closed /\ cli'[k].why = cli[k].why

\* STARTTLS, whose answer nobody waits for.
Greets(k) ==
  /\ ~cli[k].closed /\ cli[k].phase = "starttls"
  /\ SameServer(k) /\ down'[k] = down[k]
  /\ cli'[k].pend = cli[k].pend /\ cli'[k].result = Append(cli[k].result, "void")
  /\ cli'[k].phase = cli[k].phase
  /\ cli'[k].zin = cli[k].zin /\ cli'[k].zout = cli[k].zout
  /\ cli'[k].closed = cli[k].closed /\ cli'[k].why = cli[k].why
  /\ \E e \in Lines : /\ e.verb = "STARTTLS" /\ e.tag = LastTag(k) + 1 /\ e.z = cli[k].zout
                      /\ up'[k] = Append(up[k], e)

\* The opener before the reader runs.
Opens1(k) ==
  /\ cli[k].phase \in {"greeting", "starttls", "open"}
  /\ cli'[k].phase \in {"starttls", "open", "capability", "login", "failed"}
  /\ up'[k] = up[k] /\ SameServer(k)
  /\ \/ down'[k] = down[k]
     \/ down[k] # <<>> /\ down'[k] = Tail(down[k])
  /\ cli'[k].pend = cli[k].pend /\ cli'[k].result = cli[k].result
  /\ cli'[k].zin = cli[k].zin /\ cli'[k].zout = cli[k].zout
  /\ \/ cli'[k].closed = cli[k].closed
     \/ cli'[k].closed /\ (cli[k].closed \/ ~srv[k].on) /\ down[k] = <<>>

\* The opener takes the answer to a command.
Proceeds(k) ==
  /\ SameWire(k)
  /\ cli[k].phase \in Asking /\ cli[k].sent /\ Result(k) # "wait"
  /\ ~cli'[k].sent
  /\ cli'[k].phase \in {"login", "id", "compress", "ready", "failed"}
  /\ cli[k].phase = "compress" => cli'[k].phase = "ready"
  /\ cli'[k].zin = cli[k].zin
  /\ cli'[k].zout = (cli[k].zout \/ (cli[k].phase = "compress" /\ Result(k) = "OK"))
  /\ cli'[k].pend = cli[k].pend /\ cli'[k].result = cli[k].result
  /\ cli'[k].closed = cli[k].closed /\ cli'[k].why = cli[k].why

\* The reader takes something else than an answer, or an answer.
Hears(k) ==
  /\ down[k] # <<>> /\ down'[k] = Tail(down[k])
  /\ Head(down[k]).kind \in {"OK", "NO"} => cli[k].reader = "literal"
  /\ up'[k] = up[k] /\ SameServer(k) /\ SameVoice(k)
IsAnswered(k) ==
  LET e == Head(down[k])
  IN /\ down[k] # <<>> /\ down'[k] = Tail(down[k])
     /\ up'[k] = up[k] /\ SameServer(k)
     /\ e.kind \in {"OK", "NO"}
     /\ cli'[k].pend = {p \in cli[k].pend : p.tag # e.tag}
     /\ cli'[k].result = (IF \E p \in cli[k].pend : p.tag = e.tag
                          THEN [cli[k].result EXCEPT ![e.tag] = e.kind] ELSE cli[k].result)
     /\ cli'[k].zin = (cli[k].zin \/ (e.kind = "OK" /\ \E p \in CompressWaits(k) : p.tag = e.tag))
     /\ cli'[k].phase = cli[k].phase /\ cli'[k].sent = cli[k].sent
     /\ cli'[k].zout = cli[k].zout
     /\ cli'[k].closed = cli[k].closed /\ cli'[k].why = cli[k].why

\* The connection ends for the reader, is closed, or its waiters are told.
Finds(k) ==
  /\ SameWire(k) /\ cli'[k].closed /\ (cli[k].closed \/ ~srv[k].on) /\ down[k] = <<>>
  /\ cli'[k].phase = cli[k].phase /\ cli'[k].sent = cli[k].sent
  /\ cli'[k].zin = cli[k].zin /\ cli'[k].zout = cli[k].zout
  /\ cli'[k].pend = cli[k].pend /\ cli'[k].result = cli[k].result
Closes(k) ==
  /\ ~cli[k].closed /\ cli'[k].closed
  /\ srv'[k] = [srv[k] EXCEPT !.peer = FALSE] /\ box'[k] = box[k]
  /\ \E n \in 0..Len(up[k]) : up'[k] = SubSeq(up[k], 1, n)
  /\ \E n \in 0..Len(down[k]) : down'[k] = SubSeq(down[k], 1, n)
  /\ ~LateBuffer => down'[k] = <<>>
  /\ cli'[k].phase = cli[k].phase /\ cli'[k].sent = cli[k].sent
  /\ cli'[k].zin = cli[k].zin /\ cli'[k].zout = cli[k].zout
  /\ cli'[k].pend = cli[k].pend /\ cli'[k].result = cli[k].result
Tells(k) ==
  /\ cli[k].closed /\ SameWire(k)
  /\ cli'[k].pend = {} /\ cli'[k].result = Released(cli[k])
  /\ cli'[k].phase = cli[k].phase /\ cli'[k].sent = cli[k].sent
  /\ cli'[k].zin = cli[k].zin /\ cli'[k].zout = cli[k].zout
  /\ cli'[k].closed = cli[k].closed /\ cli'[k].why = cli[k].why

\* The server.
Serves(k) == /\ Serve(k) \/ Trouble(k)
             /\ SameVoice(k)

Move(k) ==
  \/ Rests(k) \/ Feeds(k) \/ Calls(k) \/ CallsInVain(k) \/ Greets(k) \/ Opens1(k)
  \/ Proceeds(k) \/ Hears(k) \/ IsAnswered(k) \/ Finds(k) \/ Closes(k) \/ Tells(k)
  \/ Serves(k)

-----------------------------------------------------------------------------
LEMMA Constants ==
  /\ Size \in [Msg -> Nat] /\ None \notin Msg
  /\ src \in Conn /\ dst \in Conn /\ src # dst /\ Conn = {src, dst}
  /\ Rows \in Seq(Msg) /\ Len(Rows) \in Nat
  /\ Baseline \in BOOLEAN /\ Literals \subseteq BOOLEAN
  BY MessageAssumption, TransferAssumption, ClientAssumption

LEMMA InitTyped == Init => Typed
<1> SUFFICES ASSUME Init
             PROVE  Typed
  OBVIOUS
<1> USE Constants
<1>1. WireTyped
  BY DEF Init, ServerInit, WireTyped, Lines, Replies, Reply, Kinds
<1>2. ServersTyped
  BY DEF Init, ServerInit, ServersTyped, Servers, Lines, NoLine, Line, Verbs
<1>3. ClientsTyped
  <2>1. PICK plus \in BOOLEAN : cli = [k \in Conn |-> NewClient(plus)]
    BY DEF Init, ClientInit
  <2>2. NewClient(plus) \in Clients
    BY DEF Clients, NewClient, Phases, Causes
  <2> QED
    BY <2>1, <2>2 DEF ClientsTyped
<1>4. BodiesTyped
  <2>1. NewHandle \in Handles
    BY DEF Handles, NewHandle, Causes
  <2> QED
    BY <2>1 DEF Init, ClientInit, BodiesTyped
<1>5. BoxTyped
  BY DEF Init, ServerInit, BoxTyped
<1>6. WorkerTyped
  BY DEF Init, ServerInit, WorkerTyped
<1> QED
  BY <1>1, <1>2, <1>3, <1>4, <1>5, <1>6 DEF Typed

\* A command joins the others, and the line is written.
LEMMA IssueTyped ==
  ASSUME NEW c \in Clients, NEW verb \in Verbs
  PROVE  Issue(c, verb) \in Clients
<1>1. Len(c.result) + 1 \in Nat
  BY DEF Clients
<1>2. [tag |-> Len(c.result) + 1, verb |-> verb] \in Waiters
  BY <1>1 DEF Waiters
<1> DEFINE p == c.pend \union {[tag |-> Len(c.result) + 1, verb |-> verb]}
<1>3. p \in SUBSET Waiters
  BY <1>2 DEF Clients
<1> HIDE DEF p
<1>4. \A r \in Seq(Outcomes) :
        /\ [c EXCEPT !.pend = p, !.result = r, !.idle = 0] \in Clients
        /\ [c EXCEPT !.result = r] \in Clients
  BY <1>3 DEF Clients
<1>5. Append(c.result, "wait") \in Seq(Outcomes) /\ Append(c.result, "void") \in Seq(Outcomes)
  BY DEF Clients, Outcomes, Outcome
<1> QED
  BY <1>4, <1>5 DEF Issue, p

LEMMA WriteTyped ==
  ASSUME WireTyped, NEW k \in Conn, NEW e \in Lines
  PROVE  Write(k, e) \in [Conn -> Seq(Lines)]
  BY DEF WireTyped, Write

LEMMA CommandTyped ==
  ASSUME Typed, NEW k \in Conn, NEW verb \in Verbs, NEW m \in Msg \union {None}
  PROVE  Command(k, verb, m) \in Lines /\ LastTag(k) \in Nat
  BY DEF Typed, ClientsTyped, Clients, Command, Lines, Line, LastTag

LEMMA ElementSet ==
  ASSUME NEW S, NEW s \in Seq(S), NEW i, NEW x \in S
  PROVE  [s EXCEPT ![i] = x] \in Seq(S) /\ Len([s EXCEPT ![i] = x]) = Len(s)
<1> DEFINE r == [s EXCEPT ![i] = x]
<1>0. s \in [1..Len(s) -> S] /\ Len(s) \in Nat
  OBVIOUS
<1>1. r \in [1..Len(s) -> S] /\ Len(s) \in Nat
  BY <1>0
<1>2. DOMAIN r = 1..Len(s)
  BY <1>1
<1> HIDE DEF r
<1>3. r \in Seq(S) /\ Len(r) = Len(s)
  BY <1>1, <1>2
<1> QED
  BY <1>3 DEF r

LEMMA SettleTyped ==
  ASSUME NEW c \in Clients, NEW tag \in Nat, NEW outcome \in Outcomes
  PROVE  Settle(c, tag, outcome) \in Clients
<1> DEFINE p == {w \in c.pend : w.tag # tag}
           r == [c.result EXCEPT ![tag] = outcome]
<1>a. c.pend \in SUBSET Waiters /\ c.result \in Seq(Outcomes)
  BY DEF Clients
<1>1. p \in SUBSET Waiters /\ r \in Seq(Outcomes)
  <2>1. r \in Seq(Outcomes)
    BY <1>a, ElementSet
  <2> QED
    BY <1>a, <2>1
<1> HIDE DEF p, r
<1>2. [c EXCEPT !.pend = p, !.result = r] \in Clients
  BY <1>1 DEF Clients
<1>3. Settle(c, tag, outcome) = c \/ Settle(c, tag, outcome) = [c EXCEPT !.pend = p, !.result = r]
  BY DEF Settle, Clients, p, r
<1> QED
  BY <1>2, <1>3

LEMMA ClosedTyped ==
  ASSUME NEW c \in Clients, NEW why \in Causes
  PROVE  Closed(c, why) \in Clients
<1>1. [c EXCEPT !.closed = TRUE, !.why = why, !.idle = 0] \in Clients
  BY Zenon DEF Clients
<1> QED
  BY <1>1 DEF Closed

\* The fields that a step of a goroutine sets together.
LEMMA FieldsTyped ==
  ASSUME NEW c \in Clients
  PROVE  /\ \A p \in Phases, h \in {"none", "clear", "safe"} : [c EXCEPT !.phase = p, !.caps = h] \in Clients
         /\ \A p \in Phases : [c EXCEPT !.reader = "line", !.phase = p] \in Clients
         /\ \A w \in Causes : [c EXCEPT !.phase = "failed", !.closed = TRUE, !.why = w] \in Clients
         /\ \A z \in BOOLEAN : [c EXCEPT !.zin = z] \in Clients
         /\ \A l \in Int : [c EXCEPT !.left = l, !.idle = 0] \in Clients
         /\ \A l \in Int, m \in Msg \union {None}, f \in Seq(Msg) :
              [c EXCEPT !.reader = "literal", !.left = l, !.to = m, !.fifo = f] \in Clients
<1>1. \A p \in Phases, h \in {"none", "clear", "safe"} : [c EXCEPT !.phase = p, !.caps = h] \in Clients
  BY Zenon DEF Clients
<1>2. \A p \in Phases : [c EXCEPT !.reader = "line", !.phase = p] \in Clients
  BY Zenon DEF Clients
<1>3. \A w \in Causes : [c EXCEPT !.phase = "failed", !.closed = TRUE, !.why = w] \in Clients
  BY Zenon DEF Clients, Phases
<1>4. \A z \in BOOLEAN : [c EXCEPT !.zin = z] \in Clients
  BY Zenon DEF Clients
<1>5. \A l \in Int : [c EXCEPT !.left = l, !.idle = 0] \in Clients
  BY Zenon DEF Clients
<1>6. \A l \in Int, m \in Msg \union {None}, f \in Seq(Msg) :
       [c EXCEPT !.reader = "literal", !.left = l, !.to = m, !.fifo = f] \in Clients
  BY Zenon DEF Clients
<1> QED
  BY <1>1, <1>2, <1>3, <1>4, <1>5, <1>6

LEMMA FailTyped ==
  ASSUME NEW b \in Handles, NEW why \in Causes
  PROVE  Fail(b, why) \in Handles
  BY DEF Fail, Handles

LEMMA TimeIs == Time => Pass(Timed) /\ UNCHANGED worker
  BY DEF Time

LEMMA SetClient ==
  ASSUME ClientsTyped, NEW k \in Conn, NEW c \in Clients, cli' = [cli EXCEPT ![k] = c]
  PROVE  /\ ClientsTyped'
         /\ cli'[k] = c
         /\ \A j \in Conn \ {k} : cli'[j] = cli[j]
  BY DEF ClientsTyped

LEMMA SetBody ==
  ASSUME BodiesTyped, NEW m \in Msg, NEW b \in Handles, body' = [body EXCEPT ![m] = b]
  PROVE  /\ BodiesTyped'
         /\ body'[m] = b
         /\ \A x \in Msg \ {m} : body'[x] = body[x]
  BY DEF BodiesTyped

LEMMA TailTyped ==
  ASSUME WireTyped, NEW k \in Conn
  PROVE  /\ down[k] # <<>> => /\ [down EXCEPT ![k] = Tail(@)] \in [Conn -> Seq(Replies)]
                              /\ NextResponse(k) \in Replies
         /\ up[k] # <<>> => /\ [up EXCEPT ![k] = Tail(@)] \in [Conn -> Seq(Lines)]
                            /\ Head(up[k]) \in Lines
  BY DEF WireTyped, NextResponse

\* What answers a line.
LEMMA AnswerTyped ==
  ASSUME ServersTyped, here \subseteq Msg, NEW k \in Conn, NEW e \in Lines
  PROVE  Answer(k, e) \in Seq(Replies)
<1> DEFINE z == srv[k].zip
           Ok == <<Reply("OK", e.tag, None, 0, z)>>
           Said(kind) == <<Reply(kind, 0, None, 0, z)>>
           Chs == [i \in 1..Size[e.msg] |-> Reply("CHUNK", 0, e.msg, i, z)]
<1>1. z \in BOOLEAN /\ e.tag \in Nat /\ e.msg \in Msg \union {None}
  BY DEF ServersTyped, Servers, Lines
<1>2. Ok \in Seq(Replies)
  BY <1>1 DEF Replies, Reply, Kinds
<1>3. \A kind \in Kinds : Said(kind) \in Seq(Replies)
  BY <1>1 DEF Replies, Reply
<1>4. e.msg \in Msg => Chs \in Seq(Replies) /\ <<Reply("BODY", 0, e.msg, Size[e.msg], z)>> \in Seq(Replies)
  <2> SUFFICES ASSUME e.msg \in Msg
               PROVE  Chs \in Seq(Replies) /\ <<Reply("BODY", 0, e.msg, Size[e.msg], z)>> \in Seq(Replies)
    OBVIOUS
  <2>1. Size[e.msg] \in Nat
    BY Constants
  <2>2. \A i \in 1..Size[e.msg] : Reply("CHUNK", 0, e.msg, i, z) \in Replies
    BY <1>1, <2>1 DEF Replies, Reply, Kinds
  <2>3. Reply("BODY", 0, e.msg, Size[e.msg], z) \in Replies
    BY <1>1, <2>1 DEF Replies, Reply, Kinds
  <2> QED
    BY <2>1, <2>2, <2>3
<1>5. \/ Answer(k, e) = Ok
      \/ Answer(k, e) = Said("CAPABILITY") \o Ok
      \/ Answer(k, e) = Said("UIDVALIDITY") \o Ok
      \/ Answer(k, e) = Said("BYE") \o Ok
      \/ e.msg \in here /\ Answer(k, e) = <<Reply("BODY", 0, e.msg, Size[e.msg], z)>> \o Chs \o Ok
  BY DEF Answer
<1> HIDE DEF z, Ok, Said, Chs
<1>6. Said("CAPABILITY") \in Seq(Replies) /\ Said("UIDVALIDITY") \in Seq(Replies)
      /\ Said("BYE") \in Seq(Replies)
  BY <1>3 DEF Kinds
<1>7. \A a, b \in Seq(Replies) : a \o b \in Seq(Replies)
  OBVIOUS
<1>8. CASE e.msg \in here /\ Answer(k, e) = <<Reply("BODY", 0, e.msg, Size[e.msg], z)>> \o Chs \o Ok
  <2>1. e.msg \in Msg
    BY <1>8
  <2>2. <<Reply("BODY", 0, e.msg, Size[e.msg], z)>> \o Chs \in Seq(Replies)
    BY <1>4, <1>7, <2>1
  <2> QED
    BY <1>2, <1>7, <1>8, <2>2
<1> QED
  BY <1>2, <1>5, <1>6, <1>7, <1>8

\* The opener: one step of one connection, which takes at most one response and
\* writes at most one command.
LEMMA OpenTyped ==
  ASSUME Typed, NEW k \in Conn, Open(k)
  PROVE  WireTyped' /\ ClientsTyped' /\ UNCHANGED <<srv, box, body, here>>
<1> USE Constants
<1>a. cli[k] \in Clients /\ WireTyped /\ ClientsTyped /\ cli \in [Conn -> Clients]
  BY DEF Typed, ClientsTyped
<1>b. \A c \in Clients : cli' = [cli EXCEPT ![k] = c] => ClientsTyped'
  BY <1>a, SetClient
<1>c. \A verb \in Verbs : Command(k, verb, None) \in Lines
  BY CommandTyped
<1>d. \A e \in Lines : Write(k, e) \in [Conn -> Seq(Lines)]
  BY <1>a, WriteTyped
<1>e. down[k] # <<>> => [down EXCEPT ![k] = Tail(@)] \in [Conn -> Seq(Replies)]
  BY <1>a, TailTyped
<1>1. CASE ReadGreeting(k)
  <2> DEFINE p == IF k \in Secure THEN "starttls" ELSE "open"
             h == Heard(cli[k], k)
             c == [cli[k] EXCEPT !.phase = p, !.caps = h]
  <2>0. p \in Phases /\ h \in {"none", "clear", "safe"}
    BY DEF Heard, Phases
  <2>2. cli' = [cli EXCEPT ![k] = c]
    BY <1>1, <1>a, Zenon DEF ReadGreeting
  <2> HIDE DEF p, h
  <2>1. c \in Clients
    BY <1>a, <2>0, FieldsTyped
  <2> HIDE DEF c
  <2> QED
    BY <1>1, <1>a, <1>b, <1>e, <2>1, <2>2 DEF ReadGreeting, Readable, WireTyped
<1>2. CASE Starttls(k)
  <2> DEFINE r == Append(cli[k].result, "void")
             c == [cli[k] EXCEPT !.sent = TRUE, !.result = r]
  <2>0. r \in Seq(Outcomes)
    BY <1>a DEF Clients, Outcomes, Outcome
  <2>2. cli' = [cli EXCEPT ![k] = c]
    BY <1>2, <1>a DEF Starttls
  <2> HIDE DEF r
  <2>1. c \in Clients
    BY <1>a, <2>0 DEF Clients
  <2>3. up' \in [Conn -> Seq(Lines)] /\ down' = down /\ UNCHANGED <<srv, box, body, here>>
    BY <1>2, <1>c, <1>d DEF Starttls, Verbs
  <2> HIDE DEF c
  <2> QED
    BY <1>a, <1>b, <2>1, <2>2, <2>3 DEF WireTyped
<1>3. CASE StarttlsDone(k)
  <2> DEFINE c == [cli[k] EXCEPT !.phase = "open", !.sent = FALSE, !.tls = TRUE, !.caps = "none"]
  <2>1. c \in Clients
    BY <1>a DEF Clients, Phases
  <2>2. cli' = [cli EXCEPT ![k] = c]
    BY <1>3, <1>a DEF StarttlsDone
  <2> HIDE DEF c
  <2> QED
    BY <1>3, <1>a, <1>b, <1>e, <2>1, <2>2 DEF StarttlsDone, Readable, WireTyped
<1>4. CASE StartReader(k)
  <2> DEFINE p == IF cli[k].caps = "none" THEN "capability" ELSE "login"
             c == [cli[k] EXCEPT !.reader = "line", !.phase = p]
  <2>0. p \in Phases
    BY DEF Phases
  <2>2. cli' = [cli EXCEPT ![k] = c]
    BY <1>4, <1>a, Zenon DEF StartReader
  <2> HIDE DEF p
  <2>1. c \in Clients
    BY <1>a, <2>0, FieldsTyped
  <2> HIDE DEF c
  <2> QED
    BY <1>4, <1>a, <1>b, <2>1, <2>2 DEF StartReader, WireTyped, peer
<1>5. CASE Ask(k)
  <2> DEFINE i == Issue(cli[k], Verb(cli[k].phase))
             c == [i EXCEPT !.sent = TRUE]
  <2>0. Verb(cli[k].phase) \in Verbs
    BY <1>5 DEF Ask, Asking, Verb, Verbs
  <2>1. i \in Clients
    BY <1>a, <2>0, IssueTyped
  <2>2. cli' = [cli EXCEPT ![k] = c]
    BY <1>5, <1>a DEF Ask
  <2>3. up' \in [Conn -> Seq(Lines)] /\ down' = down /\ UNCHANGED <<srv, box, body, here>>
    BY <1>5, <1>c, <1>d, <2>0 DEF Ask
  <2> HIDE DEF i
  <2>4. c \in Clients
    BY <2>1 DEF Clients
  <2> HIDE DEF c
  <2> QED
    BY <1>a, <1>b, <2>2, <2>3, <2>4 DEF WireTyped
<1>6. CASE Answered(k)
  <2> DEFINE r == cli[k].result[LastTag(k)]
             f == CASE cli[k].phase \in {"capability", "login"} /\ r # "OK" -> "failed"
                  [] cli[k].phase = "capability" -> "login"
                  [] cli[k].phase = "login" -> "id"
                  [] cli[k].phase = "id" -> IF Baseline THEN "ready" ELSE "compress"
                  [] cli[k].phase = "compress" -> "ready"
             z == cli[k].zout \/ Deflates(cli[k].phase, r)
             c == [cli[k] EXCEPT !.phase = f, !.sent = FALSE, !.zout = z]
  <2>0. f \in Phases /\ z \in BOOLEAN
    BY <1>6, <1>a DEF Answered, Asking, Phases, Deflates, Clients
  <2>4. cli' = [cli EXCEPT ![k].phase = f, ![k].sent = FALSE, ![k].zout = z]
    BY <1>6, <1>a DEF Answered
  <2>3. UNCHANGED <<up, down, srv, box, body, here>>
    BY <1>6 DEF Answered, peer
  <2> HIDE DEF f, z
  <2>2. cli' = [cli EXCEPT ![k] = c]
    BY <2>4, <1>a
  <2>1. c \in Clients
    BY <1>a, <2>0 DEF Clients
  <2> HIDE DEF c
  <2> QED
    BY <1>a, <1>b, <2>1, <2>2, <2>3 DEF WireTyped
<1>7. CASE OpenFails(k)
  <2> DEFINE w == IF cli[k].why = "none" THEN "lost" ELSE cli[k].why
             c == [cli[k] EXCEPT !.phase = "failed", !.closed = TRUE, !.why = w]
  <2>0. w \in Causes
    BY <1>a DEF Clients, Causes
  <2>2. cli' = [cli EXCEPT ![k] = c]
    BY <1>7, <1>a, Zenon DEF OpenFails
  <2> HIDE DEF w
  <2>1. c \in Clients
    BY <1>a, <2>0, FieldsTyped
  <2> HIDE DEF c
  <2> QED
    BY <1>7, <1>a, <1>b, <2>1, <2>2 DEF OpenFails, WireTyped, peer
<1> QED
  BY <1>1, <1>2, <1>3, <1>4, <1>5, <1>6, <1>7 DEF Open

\* Closing, from wherever it comes.
LEMMA AbortTyped ==
  ASSUME Typed, NEW k \in Conn, NEW why \in Causes, Abort(k, why)
  PROVE  WireTyped' /\ ClientsTyped' /\ ServersTyped'
<1>a. cli[k] \in Clients /\ WireTyped /\ ClientsTyped /\ ServersTyped
  BY DEF Typed, ClientsTyped
<1>1. CASE cli[k].closed
  BY <1>1, <1>a DEF Abort, WireTyped, ClientsTyped, ServersTyped
<1>2. CASE ~cli[k].closed
  <2>1. cli' = [cli EXCEPT ![k] = Closed(cli[k], why)] /\ Sever(k)
    BY <1>2, <1>a DEF Abort, ClientsTyped
  <2>2. Closed(cli[k], why) \in Clients
    BY <1>a, ClosedTyped
  <2>3. ClientsTyped'
    BY <1>a, <2>1, <2>2, SetClient
  <2>4. \A n \in Nat : n <= Len(up[k]) => SubSeq(up[k], 1, n) \in Seq(Lines)
    <3> SUFFICES ASSUME NEW n \in Nat, n <= Len(up[k]) PROVE SubSeq(up[k], 1, n) \in Seq(Lines)
      OBVIOUS
    <3>1. up[k] \in Seq(Lines)
      BY <1>a DEF WireTyped
    <3> QED
      BY <3>1
  <2>5. \A n \in Nat : n <= Len(down[k]) => SubSeq(down[k], 1, n) \in Seq(Replies)
    <3> SUFFICES ASSUME NEW n \in Nat, n <= Len(down[k]) PROVE SubSeq(down[k], 1, n) \in Seq(Replies)
      OBVIOUS
    <3>1. down[k] \in Seq(Replies)
      BY <1>a DEF WireTyped
    <3> QED
      BY <3>1
  <2>6. Len(up[k]) \in Nat /\ Len(down[k]) \in Nat
    BY <1>a DEF WireTyped
  <2>c. PICK n \in 0..(IF Appending(k) THEN Len(up[k]) ELSE 0) : up' = [up EXCEPT ![k] = SubSeq(@, 1, n)]
    BY <2>1 DEF Sever
  <2>7. n \in 0..Len(up[k])
    BY <2>6
  <2>d. PICK n2 \in 0..(IF LateBuffer THEN Len(down[k]) ELSE 0) : down' = [down EXCEPT ![k] = SubSeq(@, 1, n2)]
    BY <2>1 DEF Sever
  <2>8. n2 \in 0..Len(down[k])
    BY <2>6
  <2>9. WireTyped'
    BY <1>a, <2>4, <2>5, <2>c, <2>d, <2>7, <2>8 DEF WireTyped
  <2>10. ServersTyped'
    BY <1>a, <2>1 DEF Sever, ServersTyped, Servers
  <2> QED
    BY <2>3, <2>9, <2>10
<1> QED
  BY <1>1, <1>2

LEMMA RoutedTyped ==
  ASSUME NEW c \in Clients, NEW k \in Conn, NEW e \in Replies
  PROVE  Routed(c, k, e) \in Clients
<1>1. CASE e.kind = "+"
  BY <1>1 DEF Routed, Clients
<1>2. CASE e.kind \in {"OK", "NO"}
  <2> DEFINE s == Settle(c, e.tag, e.kind)
             z == s.zin \/ (e.kind = "OK" /\ "COMPRESS" \in VerbOf(c, e.tag))
  <2>0. e.tag \in Nat /\ e.kind \in Outcomes
    BY <1>2 DEF Replies, Outcomes, Outcome
  <2>1. s \in Clients
    BY <2>0, SettleTyped
  <2>2. Routed(c, k, e) = [s EXCEPT !.zin = z]
    BY <1>2 DEF Routed
  <2>3. z \in BOOLEAN
    BY <2>1 DEF Clients
  <2> HIDE DEF s, z
  <2>4. [s EXCEPT !.zin = z] \in Clients
    BY <2>1, <2>3, FieldsTyped, Zenon
  <2> QED
    BY <2>2, <2>4, Zenon
<1>3. CASE e.kind = "CAPABILITY"
  BY <1>3 DEF Routed, Clients, Heard
<1>4. CASE e.kind = "BODY"
  <2> DEFINE t == IF c.fifo = <<>> THEN None ELSE Head(c.fifo)
             f == IF c.fifo = <<>> THEN <<>> ELSE Tail(c.fifo)
  <2>1. c.fifo \in Seq(Msg) /\ e.part \in Int
    BY DEF Clients, Replies
  <2>2. t \in Msg \union {None} /\ f \in Seq(Msg)
    BY <2>1
  <2>3. Routed(c, k, e) = [c EXCEPT !.reader = "literal", !.left = e.part, !.to = t, !.fifo = f]
    BY <1>4 DEF Routed
  <2> HIDE DEF t, f
  <2>4. [c EXCEPT !.reader = "literal", !.left = e.part, !.to = t, !.fifo = f] \in Clients
    BY <2>1, <2>2, FieldsTyped, Zenon
  <2> QED
    BY <2>3, <2>4, Zenon
<1>5. CASE e.kind \notin {"+", "OK", "NO", "CAPABILITY", "BODY"}
  BY <1>5 DEF Routed
<1> QED
  BY <1>1, <1>2, <1>3, <1>4, <1>5

LEMMA ReaderTyped ==
  ASSUME Typed, NEW k \in Conn, Reader(k)
  PROVE  /\ WireTyped' /\ ClientsTyped' /\ BodiesTyped'
         /\ UNCHANGED <<srv, box, here>>
<1> USE Constants
<1>a. cli[k] \in Clients /\ WireTyped /\ ClientsTyped /\ cli \in [Conn -> Clients] /\ BodiesTyped
  BY DEF Typed, ClientsTyped
<1>b. \A c \in Clients : cli' = [cli EXCEPT ![k] = c] => ClientsTyped'
  BY <1>a, SetClient
<1>e. down[k] # <<>> => [down EXCEPT ![k] = Tail(@)] \in [Conn -> Seq(Replies)] /\ NextResponse(k) \in Replies
  BY <1>a, TailTyped
<1>f. \A m \in Msg : body[m] \in Handles
  BY <1>a DEF BodiesTyped
<1>g. cli[k].to \in Msg \union {None}
  BY <1>a DEF Clients
<1>1. CASE ReadResponse(k)
  <2> DEFINE e == NextResponse(k)
             a == [cli[k] EXCEPT !.idle = 0]
             c == Routed(a, k, e)
  <2>0. e \in Replies /\ e.part \in Int
    BY <1>1, <1>e DEF ReadResponse, Readable, Replies
  <2>1. a \in Clients
    BY <1>a DEF Clients
  <2>2. /\ cli' = [cli EXCEPT ![k] = c]
        /\ body' = IF e.kind = "BODY" /\ c.to # None
                   THEN [body EXCEPT ![c.to].size = e.part] ELSE body
        /\ down' = [down EXCEPT ![k] = Tail(@)]
        /\ down[k] # <<>>
        /\ UNCHANGED <<up, srv, box, here>>
    BY <1>1, <1>a DEF ReadResponse, Readable
  <2> HIDE DEF e, a
  <2>3. c \in Clients
    BY <2>0, <2>1, RoutedTyped
  <2> HIDE DEF c
  <2>4. BodiesTyped'
    <3>1. CASE ~(e.kind = "BODY" /\ c.to # None)
      BY <1>a, <2>2, <3>1 DEF BodiesTyped
    <3>2. CASE e.kind = "BODY" /\ c.to # None
      <4>1. c.to \in Msg
        BY <2>3, <3>2 DEF Clients
      <4>3. body' = [body EXCEPT ![c.to] = [body[c.to] EXCEPT !.size = e.part]]
        BY <1>a, <2>2, <3>2 DEF BodiesTyped
      <4>4. [body[c.to] EXCEPT !.size = e.part] \in Handles
        BY <1>f, <4>1, <2>0 DEF Handles
      <4> QED
        BY <1>a, <4>1, <4>3, <4>4, SetBody
    <3> QED
      BY <3>1, <3>2
  <2> QED
    BY <1>a, <1>b, <1>e, <2>2, <2>3, <2>4 DEF WireTyped
<1>2. CASE ReadChunk(k)
  <2> DEFINE l == cli[k].left - 1
             c == [cli[k] EXCEPT !.left = l, !.idle = 0]
             e == NextResponse(k)
  <2>0. l \in Int
    <3>1. cli[k].left \in Int
      BY <1>a DEF Clients
    <3> QED
      BY <3>1
  <2>2. /\ cli' = [cli EXCEPT ![k] = c]
        /\ body' = IF cli[k].to = None THEN body
                ELSE [body EXCEPT ![cli[k].to].ch = Append(@, <<e.msg, e.part>>)]
        /\ down' = [down EXCEPT ![k] = Tail(@)]
        /\ down[k] # <<>>
        /\ UNCHANGED <<up, srv, box, here>>
    BY <1>2, <1>a, Zenon DEF ReadChunk, Readable
  <2> HIDE DEF l
  <2>1. c \in Clients
    BY <1>a, <2>0, FieldsTyped
  <2>3. <<e.msg, e.part>> \in Chunks
    BY <1>e, <2>2 DEF Replies, Chunks
  <2> HIDE DEF c, e
  <2>4. BodiesTyped'
    <3>1. CASE cli[k].to = None
      BY <1>a, <2>2, <3>1 DEF BodiesTyped
    <3>2. CASE cli[k].to # None
      <4> DEFINE t == cli[k].to
                 x == Append(body[t].ch, <<e.msg, e.part>>)
      <4>1. t \in Msg /\ body[t].ch \in Seq(Chunks)
        BY <1>g, <1>f, <3>2 DEF Handles
      <4>2. x \in Seq(Chunks)
        BY <2>3, <4>1
      <4>3. body' = [body EXCEPT ![t] = [body[t] EXCEPT !.ch = x]]
        BY <1>a, <2>2, <3>2 DEF BodiesTyped
      <4> HIDE DEF t, x
      <4>4. [body[t] EXCEPT !.ch = x] \in Handles
        BY <1>f, <4>1, <4>2 DEF Handles
      <4> QED
        BY <1>a, <4>1, <4>3, <4>4, SetBody
    <3> QED
      BY <3>1, <3>2
  <2> QED
    BY <1>a, <1>b, <1>e, <2>1, <2>2, <2>4 DEF WireTyped
<1>3. CASE EndLiteral(k)
  <2> DEFINE c == [cli[k] EXCEPT !.reader = "line", !.to = None]
  <2>1. c \in Clients
    BY <1>a DEF Clients
  <2>2. /\ cli' = [cli EXCEPT ![k] = c]
        /\ body' = IF cli[k].to = None THEN body
                ELSE [body EXCEPT ![cli[k].to].shut = TRUE, ![cli[k].to].failed = TRUE]
        /\ UNCHANGED <<up, down, srv, box, here>>
    BY <1>3, <1>a DEF EndLiteral, peer
  <2> HIDE DEF c
  <2>4. BodiesTyped'
    <3>1. CASE cli[k].to = None
      BY <1>a, <2>2, <3>1 DEF BodiesTyped
    <3>2. CASE cli[k].to # None
      <4> DEFINE t == cli[k].to
      <4>1. t \in Msg
        BY <1>g, <3>2
      <4>3. body' = [body EXCEPT ![t] = [body[t] EXCEPT !.shut = TRUE, !.failed = TRUE]]
        BY <1>a, <2>2, <3>2 DEF BodiesTyped
      <4> HIDE DEF t
      <4>4. [body[t] EXCEPT !.shut = TRUE, !.failed = TRUE] \in Handles
        BY <1>f, <4>1 DEF Handles
      <4> QED
        BY <1>a, <4>1, <4>3, <4>4, SetBody
    <3> QED
      BY <3>1, <3>2
  <2> QED
    BY <1>a, <1>b, <2>1, <2>2, <2>4 DEF WireTyped
<1>4. CASE ReadEof(k)
  <2> DEFINE d == Closed(cli[k], "lost")
             c == [d EXCEPT !.reader = "off", !.to = None]
  <2>1. d \in Clients
    BY <1>a, ClosedTyped DEF Causes
  <2>2. /\ cli' = [cli EXCEPT ![k] = c]
        /\ body' = IF cli[k].to = None THEN body
                   ELSE [body EXCEPT ![cli[k].to] = Fail(@, "lost")]
        /\ UNCHANGED <<up, down, srv, box, here>>
    BY <1>4, <1>a DEF ReadEof, peer
  <2> HIDE DEF d
  <2>3. c \in Clients
    BY <2>1 DEF Clients
  <2> HIDE DEF c
  <2>4. BodiesTyped'
    <3>1. CASE cli[k].to = None
      BY <1>a, <2>2, <3>1 DEF BodiesTyped
    <3>2. CASE cli[k].to # None
      <4>1. cli[k].to \in Msg
        BY <1>g, <3>2
      <4>2. Fail(body[cli[k].to], "lost") \in Handles
        BY <1>f, <4>1, FailTyped DEF Causes
      <4>3. body' = [body EXCEPT ![cli[k].to] = Fail(body[cli[k].to], "lost")]
        BY <2>2, <3>2
      <4> QED
        BY <1>a, <4>1, <4>2, <4>3, SetBody
    <3> QED
      BY <3>1, <3>2
  <2> QED
    BY <1>a, <1>b, <2>2, <2>3, <2>4 DEF WireTyped
<1> QED
  BY <1>1, <1>2, <1>3, <1>4 DEF Reader

LEMMA TellTyped ==
  ASSUME Typed, NEW k \in Conn, TellWaiters(k)
  PROVE  ClientsTyped' /\ BodiesTyped' /\ UNCHANGED <<up, down, srv, box, here>>
<1>a. cli[k] \in Clients /\ ClientsTyped /\ cli \in [Conn -> Clients] /\ BodiesTyped
  BY DEF Typed, ClientsTyped
<1> DEFINE r == Released(cli[k])
           c == [cli[k] EXCEPT !.told = TRUE, !.pend = {}, !.fifo = <<>>, !.result = r]
<1>1. r \in Seq(Outcomes)
  <2>1. cli[k].result \in Seq(Outcomes) /\ cli[k].why \in Outcomes
    BY <1>a DEF Clients, Causes, Outcomes, Outcome
  <2>2. Len(cli[k].result) \in Nat /\ DOMAIN cli[k].result = 1..Len(cli[k].result)
        /\ \A t \in 1..Len(cli[k].result) : cli[k].result[t] \in Outcomes
    BY <2>1
  <2>3. r \in [1..Len(cli[k].result) -> Outcomes]
    BY <2>1, <2>2 DEF Released
  <2> QED
    BY <2>2, <2>3
<1>2. cli' = [cli EXCEPT ![k] = c]
  BY <1>a DEF TellWaiters
<1> HIDE DEF r
<1>b. {} \in SUBSET Waiters /\ <<>> \in Seq(Msg)
  OBVIOUS
<1>3. c \in Clients
  BY <1>a, <1>b, <1>1 DEF Clients
<1> HIDE DEF c
<1>4. \A m \in Msg : Fail(body[m], cli[k].why) \in Handles /\ body[m] \in Handles
  BY <1>a, FailTyped DEF Clients, BodiesTyped
<1>5. BodiesTyped'
  BY <1>4 DEF TellWaiters, BodiesTyped
<1> QED
  BY <1>a, <1>2, <1>3, <1>5, SetClient DEF TellWaiters, peer

LEMMA PassTyped ==
  ASSUME Typed, NEW w \in BOOLEAN, Pass(w)
  PROVE  ClientsTyped' /\ UNCHANGED <<up, down, srv, box, here, body>>
<1>1. \A k \in Conn : [cli[k] EXCEPT !.idle = IF Watched(k) /\ @ < 2 THEN @ + 1 ELSE @] \in Clients
  <2>1. \A c \in Clients : c.idle + 1 \in Nat /\ c.idle \in Nat
    BY DEF Clients
  <2>2. \A c \in Clients, i \in Nat : [c EXCEPT !.idle = i] \in Clients
    BY DEF Clients
  <2> QED
    BY <2>1, <2>2 DEF Typed, ClientsTyped
<1> QED
  BY <1>1 DEF Pass, ClientsTyped, peer

LEMMA SendTyped ==
  ASSUME Typed, NEW k \in Conn, NEW es \in Seq(Replies)
  PROVE  Send(k, es) \in [Conn -> Seq(Replies)]
  BY DEF Typed, WireTyped, Send

LEMMA SetServer ==
  ASSUME ServersTyped, NEW k \in Conn, NEW s \in Servers, srv' = [srv EXCEPT ![k] = s]
  PROVE  /\ ServersTyped'
         /\ srv'[k] = s
         /\ \A j \in Conn \ {k} : srv'[j] = srv[j]
  BY DEF ServersTyped

\* A server's goroutine: it reads one element, or the line breaks.
LEMMA ServerTyped ==
  ASSUME Typed, NEW k \in Conn, Server(k)
  PROVE  WireTyped' /\ ServersTyped' /\ BoxTyped' /\ UNCHANGED <<cli, body, here, worker>>
<1> USE Constants
<1>a. /\ srv[k] \in Servers /\ WireTyped /\ ServersTyped /\ srv \in [Conn -> Servers] /\ BoxTyped
      /\ here \subseteq Msg
  BY DEF Typed, ServersTyped, WorkerTyped
<1>b. \A s \in Servers : srv' = [srv EXCEPT ![k] = s] => ServersTyped'
  BY <1>a, SetServer
<1>c. \A es \in Seq(Replies) : Send(k, es) \in [Conn -> Seq(Replies)]
  BY SendTyped
<1>d. up[k] # <<>> => [up EXCEPT ![k] = Tail(@)] \in [Conn -> Seq(Lines)] /\ Head(up[k]) \in Lines
  BY <1>a, TailTyped
<1>e. srv[k].zip \in BOOLEAN /\ srv[k].cmd \in Lines /\ srv[k].got \in Seq(Chunks)
  BY <1>a DEF Servers
<1>f. \A tag \in Nat : /\ <<Reply("NO", tag, None, 0, srv[k].zip)>> \in Seq(Replies)
                       /\ <<Reply("+", tag, None, 0, srv[k].zip)>> \in Seq(Replies)
                       /\ \A n \in Nat : <<Reply("OK", tag, None, n, srv[k].zip)>> \in Seq(Replies)
  <2> SUFFICES ASSUME NEW tag \in Nat, NEW n \in Nat, NEW kind \in {"OK", "NO", "+"}
               PROVE  <<Reply(kind, tag, None, n, srv[k].zip)>> \in Seq(Replies)
    OBVIOUS
  <2>1. Reply(kind, tag, None, n, srv[k].zip) \in Replies
    BY <1>e DEF Replies, Reply, Kinds
  <2> QED
    BY <2>1
<1>g. UNCHANGED <<cli, body, worker>>
  BY DEF Server, client
<1>h. NoLine \in Lines /\ <<>> \in Seq(Chunks)
  BY DEF NoLine, Line, Lines, Verbs
<1>1. CASE ServeLine(k)
  <2> DEFINE e == Head(up[k])
             z == srv[k].zip \/ e.verb = "COMPRESS"
             o == e.verb # "LOGOUT"
             s == [srv[k] EXCEPT !.zip = z, !.on = o]
  <2>1. e \in Lines
    BY <1>1, <1>d DEF ServeLine, Reading
  <2>2. Answer(k, e) \in Seq(Replies)
    BY <1>a, <2>1, AnswerTyped
  <2>3. /\ srv' = [srv EXCEPT ![k] = s]
        /\ down' = Send(k, Answer(k, e))
        /\ up[k] # <<>> /\ up' = [up EXCEPT ![k] = Tail(@)]
        /\ UNCHANGED <<box, here>>
    BY <1>1, <1>a DEF ServeLine, Reading
  <2> HIDE DEF e
  <2>4. z \in BOOLEAN /\ o \in BOOLEAN
    BY <1>e
  <2> HIDE DEF z, o
  <2>5. s \in Servers
    BY <1>a, <2>4 DEF Servers
  <2> HIDE DEF s
  <2> QED
    BY <1>a, <1>b, <1>c, <1>d, <1>g, <2>2, <2>3, <2>5 DEF WireTyped, BoxTyped
<1>2. CASE ServeAppend(k)
  <2> DEFINE e == Head(up[k])
             s == [srv[k] EXCEPT !.cmd = e, !.got = <<>>]
             es == IF e.sync THEN <<Reply("+", 0, None, 0, srv[k].zip)>> ELSE <<>>
  <2>1. e \in Lines
    BY <1>2, <1>d DEF ServeAppend, Reading
  <2>2. es \in Seq(Replies)
    BY <1>f
  <2>3. /\ srv' = [srv EXCEPT ![k] = s]
        /\ down' = Send(k, es)
        /\ up[k] # <<>> /\ up' = [up EXCEPT ![k] = Tail(@)]
        /\ UNCHANGED <<box, here>>
    BY <1>2, <1>a DEF ServeAppend, Reading
  <2> HIDE DEF e, es
  <2>5. s \in Servers
    BY <1>a, <1>h, <2>1 DEF Servers
  <2> HIDE DEF s
  <2> QED
    BY <1>a, <1>b, <1>c, <1>d, <1>g, <2>2, <2>3, <2>5 DEF WireTyped, BoxTyped
<1>3. CASE ServeLiteral(k)
  <2> DEFINE e == Head(up[k])
             x == IF e.verb = "DATA" THEN <<e.msg, e.part>> ELSE Stray
             g == Append(srv[k].got, x)
             s == [srv[k] EXCEPT !.got = g]
  <2>1. e \in Lines
    BY <1>3, <1>d DEF ServeLiteral, Reading
  <2>2. x \in Chunks
    BY <2>1 DEF Lines, Chunks, Stray
  <2>3. /\ srv' = [srv EXCEPT ![k] = s] \/ srv' = srv
        /\ down' = down
        /\ up[k] # <<>> /\ up' = [up EXCEPT ![k] = Tail(@)]
        /\ UNCHANGED <<box, here>>
    BY <1>3, <1>a DEF ServeLiteral, Reading
  <2> HIDE DEF x
  <2>4. g \in Seq(Chunks)
    BY <1>e, <2>2
  <2> HIDE DEF g
  <2>5. s \in Servers
    BY <1>a, <2>4 DEF Servers
  <2> HIDE DEF s
  <2>6. ServersTyped'
    BY <1>a, <1>b, <2>3, <2>5 DEF ServersTyped
  <2> QED
    BY <1>a, <1>d, <1>g, <2>3, <2>6 DEF WireTyped, BoxTyped
<1>4. CASE ServeBody(k)
  <2> DEFINE b == Append(box[k], [row |-> srv[k].cmd.msg, body |-> srv[k].got])
             s == [srv[k] EXCEPT !.cmd = NoLine, !.got = <<>>]
             es == <<Reply("OK", srv[k].cmd.tag, None, Len(box'[k]), srv[k].zip)>>
  <2>1. box' = [box EXCEPT ![k] = b]
    BY <1>4 DEF ServeBody
  <2>2. b \in Seq([row : Msg \union {None}, body : Seq(Chunks)])
    <3>1. [row |-> srv[k].cmd.msg, body |-> srv[k].got] \in [row : Msg \union {None}, body : Seq(Chunks)]
      BY <1>e DEF Lines
    <3>2. box[k] \in Seq([row : Msg \union {None}, body : Seq(Chunks)])
      BY <1>a DEF BoxTyped
    <3> QED
      BY <3>1, <3>2
  <2> HIDE DEF b
  <2>3. BoxTyped' /\ Len(box'[k]) \in Nat
    <3>1. BoxTyped'
      BY <1>a, <2>1, <2>2 DEF BoxTyped
    <3>2. box'[k] = b
      BY <1>a, <2>1 DEF BoxTyped
    <3>3. Len(b) \in Nat
      BY <2>2
    <3> QED
      BY <3>1, <3>2, <3>3
  <2>4. srv[k].cmd.tag \in Nat
    BY <1>e DEF Lines
  <2>5. es \in Seq(Replies)
    BY <1>f, <2>3, <2>4
  <2>6. /\ srv' = [srv EXCEPT ![k] = s]
        /\ down' = Send(k, es)
        /\ up[k] # <<>> /\ up' = [up EXCEPT ![k] = Tail(@)]
        /\ here' = here
    BY <1>4, <1>a DEF ServeBody, Reading
  <2> HIDE DEF es
  <2>7. s \in Servers
    BY <1>a, <1>h DEF Servers
  <2> HIDE DEF s
  <2> QED
    BY <1>a, <1>b, <1>c, <1>d, <1>g, <2>3, <2>5, <2>6, <2>7 DEF WireTyped
<1>5. CASE RefuseLine(k)
  <2> DEFINE es == <<Reply("NO", Head(up[k]).tag, None, 0, srv[k].zip)>>
  <2>1. Head(up[k]).tag \in Nat
    BY <1>5, <1>d DEF RefuseLine, Reading, Lines
  <2>2. es \in Seq(Replies)
    BY <1>f, <2>1
  <2>3. /\ down' = Send(k, es)
        /\ up[k] # <<>> /\ up' = [up EXCEPT ![k] = Tail(@)]
        /\ UNCHANGED <<srv, box, here>>
    BY <1>5, <1>a DEF RefuseLine, Reading
  <2> HIDE DEF es
  <2> QED
    BY <1>a, <1>c, <1>d, <1>g, <2>2, <2>3 DEF WireTyped, ServersTyped, BoxTyped
<1>6. CASE RefuseBody(k)
  <2> DEFINE es == <<Reply("NO", srv[k].cmd.tag, None, 0, srv[k].zip)>>
             s == [srv[k] EXCEPT !.cmd = NoLine, !.got = <<>>]
  <2>1. srv[k].cmd.tag \in Nat
    BY <1>e DEF Lines
  <2>2. es \in Seq(Replies)
    BY <1>f, <2>1
  <2>3. /\ down' = Send(k, es)
        /\ up[k] # <<>> /\ up' = [up EXCEPT ![k] = Tail(@)]
        /\ srv' = [srv EXCEPT ![k] = s]
        /\ UNCHANGED <<box, here>>
    BY <1>6, <1>a DEF RefuseBody, Reading
  <2> HIDE DEF es
  <2>7. s \in Servers
    BY <1>a, <1>h DEF Servers
  <2> HIDE DEF s
  <2> QED
    BY <1>a, <1>b, <1>c, <1>d, <1>g, <2>2, <2>3, <2>7 DEF WireTyped, ServersTyped, BoxTyped
<1>7. CASE Cut(k)
  <2> DEFINE s == [srv[k] EXCEPT !.on = FALSE]
  <2>1. srv' = [srv EXCEPT ![k] = s] /\ UNCHANGED <<up, box, here>>
    BY <1>7, <1>a DEF Cut
  <2>2. PICK n \in 0..Len(down[k]) : down' = [down EXCEPT ![k] = SubSeq(@, 1, n)]
    BY <1>7 DEF Cut
  <2>3. down[k] \in Seq(Replies)
    BY <1>a DEF WireTyped
  <2>4. Len(down[k]) \in Nat
    BY <2>3
  <2>5. SubSeq(down[k], 1, n) \in Seq(Replies)
    BY <2>3, <2>4
  <2>7. s \in Servers
    BY <1>a DEF Servers
  <2> HIDE DEF s
  <2> QED
    BY <1>a, <1>b, <1>g, <2>1, <2>2, <2>5, <2>7 DEF WireTyped, BoxTyped
<1>8. CASE Stall(k)
  <2> DEFINE s == [srv[k] EXCEPT !.hung = TRUE]
  <2>1. srv' = [srv EXCEPT ![k] = s] /\ UNCHANGED <<up, down, box, here>>
    BY <1>8, <1>a DEF Stall
  <2>7. s \in Servers
    BY <1>a DEF Servers
  <2> HIDE DEF s
  <2> QED
    BY <1>a, <1>b, <1>g, <2>1, <2>7 DEF WireTyped, BoxTyped
<1> QED
  BY <1>1, <1>2, <1>3, <1>4, <1>5, <1>6, <1>7, <1>8 DEF Server, Serve, Trouble

LEMMA Frame ==
  ASSUME Typed
  PROVE  /\ UNCHANGED peer => WireTyped' /\ ServersTyped' /\ BoxTyped' /\ here' = here
         /\ UNCHANGED cli => ClientsTyped'
         /\ UNCHANGED body => BodiesTyped'
         /\ UNCHANGED <<worker, here>> => WorkerTyped'
  BY DEF Typed, WireTyped, ServersTyped, BoxTyped, ClientsTyped, BodiesTyped, WorkerTyped,
         peer, worker

LEMMA CmdNowaitTyped ==
  ASSUME Typed, NEW k \in Conn, NEW verb \in Verbs, CmdNowait(k, verb)
  PROVE  ClientsTyped' /\ up' \in [Conn -> Seq(Lines)]
<1>1. Command(k, verb, None) \in Lines
  BY CommandTyped
<1>2. Issue(cli[k], verb) \in Clients
  BY IssueTyped DEF Typed, ClientsTyped
<1>3. cli' = [cli EXCEPT ![k] = Issue(cli[k], verb)] /\ up' = Write(k, Command(k, verb, None))
  BY DEF CmdNowait
<1> QED
  BY <1>1, <1>2, <1>3, SetClient, WriteTyped DEF Typed

LEMMA BodyFetchTyped ==
  ASSUME Typed, NEW k \in Conn, NEW m \in Msg, BodyFetch(k, m)
  PROVE  ClientsTyped' /\ up' \in [Conn -> Seq(Lines)] /\ BodiesTyped'
<1>1. Command(k, "UID FETCH", m) \in Lines
  BY CommandTyped DEF Verbs
<1> DEFINE i == Issue(cli[k], "UID FETCH")
           f == Append(i.fifo, m)
           c == [i EXCEPT !.fifo = f]
<1>2. i \in Clients
  BY IssueTyped DEF Typed, ClientsTyped, Verbs
<1>3. cli' = [cli EXCEPT ![k] = c] /\ up' = Write(k, Command(k, "UID FETCH", m))
  BY DEF BodyFetch
<1> HIDE DEF i
<1>4. f \in Seq(Msg)
  <2>1. i.fifo \in Seq(Msg)
    BY <1>2 DEF Clients
  <2> QED
    BY <2>1
<1> HIDE DEF f
<1>5. c \in Clients
  BY <1>2, <1>4 DEF Clients
<1> HIDE DEF c
<1>6. NewHandle \in Handles
  BY DEF Handles, NewHandle, Causes
<1>7. Fail(NewHandle, cli[k].why) \in Handles
  BY <1>6, FailTyped DEF Typed, ClientsTyped, Clients
<1>8. BodiesTyped'
  BY <1>6, <1>7 DEF BodyFetch, Typed, BodiesTyped
<1> QED
  BY <1>1, <1>3, <1>5, <1>8, SetClient, WriteTyped DEF Typed

LEMMA AppendBeginTyped ==
  ASSUME Typed, NEW k \in Conn, NEW m \in Msg, NEW size \in Int, AppendBegin(k, m, size)
  PROVE  ClientsTyped' /\ up' \in [Conn -> Seq(Lines)]
<1>0. cli[k] \in Clients
  BY DEF Typed, ClientsTyped
<1>1. Line("APPEND", LastTag(k) + 1, m, size, ~NonSync(cli[k]), cli[k].zout) \in Lines
  <2>1. LastTag(k) + 1 \in Nat /\ cli[k].zout \in BOOLEAN
    BY <1>0 DEF LastTag, Clients
  <2>2. (~NonSync(cli[k])) \in BOOLEAN
    OBVIOUS
  <2> QED
    BY <2>1, <2>2 DEF Line, Lines, Verbs
<1> DEFINE i == Issue(cli[k], "APPEND")
           o == i.owed + 1
           c == [i EXCEPT !.owed = o]
<1>2. i \in Clients
  BY <1>0, IssueTyped DEF Verbs
<1>3. /\ cli' = [cli EXCEPT ![k] = i] \/ cli' = [cli EXCEPT ![k] = c]
      /\ up' = Write(k, Line("APPEND", LastTag(k) + 1, m, size, ~NonSync(cli[k]), cli[k].zout))
  BY DEF AppendBegin
<1>4. o \in Int
  BY <1>2 DEF Clients
<1> HIDE DEF i, o
<1>5. c \in Clients
  BY <1>2, <1>4 DEF Clients
<1> HIDE DEF c
<1> QED
  BY <1>1, <1>2, <1>3, <1>5, SetClient, WriteTyped DEF Typed

LEMMA OwedTyped ==
  ASSUME Typed, NEW k \in Conn, cli' = [cli EXCEPT ![k] = AppendDone(@)]
  PROVE  ClientsTyped'
<1> DEFINE o == cli[k].owed - 1
           c == [cli[k] EXCEPT !.owed = o]
<1>1. cli[k] \in Clients /\ cli' = [cli EXCEPT ![k] = c]
  BY DEF Typed, ClientsTyped, AppendDone
<1>2. o \in Int
  BY <1>1 DEF Clients
<1> HIDE DEF o
<1>3. c \in Clients
  BY <1>1, <1>2 DEF Clients
<1> HIDE DEF c
<1> QED
  BY <1>1, <1>3, SetClient DEF Typed

LEMMA WorkTyped ==
  ASSUME Typed, Work
  PROVE  Typed'
<1> USE Constants
<1>a. /\ WireTyped /\ ServersTyped /\ ClientsTyped /\ BodiesTyped /\ BoxTyped /\ WorkerTyped
      /\ cli \in [Conn -> Clients] /\ body \in [Msg -> Handles]
  BY DEF Typed, ClientsTyped, BodiesTyped
<1>b. /\ cli[src] \in Clients /\ cli[dst] \in Clients
      /\ \A m \in Msg : body[m] \in Handles
  BY <1>a
<1>c. <<src, dst>> \in Seq(Conn)
  OBVIOUS
<1>1. CASE Opened
  <2>1. WorkerTyped'
    BY <1>1, <1>a, <1>c DEF Opened, WorkerTyped, peer
  <2> QED
    BY <1>1, <2>1, Frame DEF Opened, Typed, client
<1>2. CASE Select
  <2>1. ClientsTyped' /\ up' \in [Conn -> Seq(Lines)]
    BY <1>2, CmdNowaitTyped DEF Select, Verbs
  <2>2. WorkerTyped'
    BY <1>2, <1>a DEF Select, WorkerTyped, rest
  <2> QED
    BY <1>2, <1>a, <2>1, <2>2 DEF Select, Typed, rest, WireTyped, ServersTyped, BodiesTyped, BoxTyped
<1>3. CASE Selected
  <2>1. WorkerTyped'
    BY <1>3, <1>a, <1>c DEF Selected, WorkerTyped, Leave, peer
  <2> QED
    BY <1>3, <2>1, Frame DEF Selected, Typed, client
<1>4. CASE StartMore
  <2>0. Rows[next] \in Msg /\ next \in 1..Len(Rows)
    BY <1>4, <1>a DEF StartMore, WantsMore, WorkerTyped
  <2>1. ClientsTyped' /\ up' \in [Conn -> Seq(Lines)] /\ BodiesTyped'
    BY <1>4, <2>0, BodyFetchTyped DEF StartMore
  <2>2. WorkerTyped'
    <3>1. next' \in 1..(Len(Rows) + 1) /\ fetchQ' \in Seq(Msg)
      BY <1>4, <2>0, <1>a DEF StartMore, WorkerTyped
    <3> QED
      BY <1>4, <1>a, <1>c, <3>1 DEF StartMore, WorkerTyped, Leave, rest
  <2> QED
    BY <1>4, <1>a, <2>1, <2>2 DEF StartMore, Typed, rest, WireTyped, ServersTyped, BodiesTyped, BoxTyped
<1>5. CASE Filled
  <2>1. WorkerTyped'
    <3>1. CASE item = None /\ fetchQ # <<>>
      <4>1. Head(fetchQ) \in Msg /\ Tail(fetchQ) \in Seq(Msg)
        BY <1>a, <3>1 DEF WorkerTyped
      <4> QED
        BY <1>5, <1>a, <3>1, <4>1 DEF Filled, WorkerTyped, peer
    <3>2. CASE ~(item = None /\ fetchQ # <<>>)
      BY <1>5, <1>a, <3>2 DEF Filled, WorkerTyped, peer
    <3> QED
      BY <3>1, <3>2
  <2> QED
    BY <1>5, <2>1, Frame DEF Filled, Typed
<1>6. CASE WaitSize
  <2>1. WorkerTyped'
    BY <1>6, <1>a, <1>c DEF WaitSize, WorkerTyped, Leave, peer
  <2> QED
    BY <1>6, <2>1, Frame DEF WaitSize, Typed, client
<1>7. CASE Begin
  <2>0. item \in Msg /\ body[item].size \in Int
    BY <1>7, <1>a, <1>b DEF Begin, WorkerTyped, Handles
  <2>1. ClientsTyped' /\ up' \in [Conn -> Seq(Lines)]
    BY <1>7, <2>0, AppendBeginTyped DEF Begin
  <2>2. WorkerTyped'
    BY <1>7, <1>a, <1>c, <2>0 DEF Begin, WorkerTyped, Leave, rest
  <2> QED
    BY <1>7, <1>a, <2>1, <2>2 DEF Begin, Typed, rest, WireTyped, ServersTyped, BodiesTyped, BoxTyped
<1>8. CASE Continue
  <2>0. item \in Msg
    BY <1>8, <1>a DEF Continue, WorkerTyped
  <2>1. ClientsTyped'
    <3>1. CASE cli' = [cli EXCEPT ![dst].cont = 0]
      <4>1. [cli[dst] EXCEPT !.cont = 0] \in Clients
        BY <1>b DEF Clients
      <4>2. cli' = [cli EXCEPT ![dst] = [cli[dst] EXCEPT !.cont = 0]]
        BY <1>a, <3>1
      <4> QED
        BY <1>a, <4>1, <4>2, SetClient
    <3>2. CASE cli' = [cli EXCEPT ![dst] = AppendDone(@)]
      BY <3>2, OwedTyped
    <3> QED
      BY <1>8, <3>1, <3>2 DEF Continue
  <2>2. WorkerTyped'
    BY <1>8, <1>a, <1>c, <2>0 DEF Continue, WorkerTyped, Leave, peer
  <2> QED
    BY <1>8, <2>1, <2>2, Frame DEF Continue, Typed
<1>9. CASE StreamChunk
  <2>0. item \in Msg
    BY <1>9, <1>a DEF StreamChunk, WorkerTyped
  <2> DEFINE h == Head(body[item].ch)
             t == Tail(body[item].ch)
  <2>1. h \in Chunks /\ t \in Seq(Chunks)
    BY <1>9, <1>b, <2>0 DEF StreamChunk, Handles
  <2>2. Data(h, cli[dst].zout) \in Lines
    BY <2>1, <1>b DEF Data, Line, Lines, Chunks, Verbs, Clients
  <2>3. up' = Write(dst, Data(h, cli[dst].zout))
    BY <1>9 DEF StreamChunk
  <2>4. body' = [body EXCEPT ![item] = [body[item] EXCEPT !.ch = t]]
    BY <1>9, <1>a DEF StreamChunk
  <2> HIDE DEF h, t
  <2>5. up' \in [Conn -> Seq(Lines)]
    BY <1>a, <2>2, <2>3, WriteTyped
  <2>6. [body[item] EXCEPT !.ch = t] \in Handles
    BY <1>b, <2>0, <2>1 DEF Handles
  <2>7. BodiesTyped'
    BY <1>a, <2>0, <2>4, <2>6, SetBody
  <2>8. ClientsTyped'
    <3>1. [cli[dst] EXCEPT !.idle = 0] \in Clients
      BY <1>b DEF Clients
    <3>2. cli' = [cli EXCEPT ![dst] = [cli[dst] EXCEPT !.idle = 0]]
      BY <1>9, <1>a DEF StreamChunk
    <3> QED
      BY <1>a, <3>1, <3>2, SetClient
  <2>9. WorkerTyped'
    BY <1>9, <1>a, <1>c, <2>0 DEF StreamChunk, WorkerTyped, Leave, rest
  <2> QED
    BY <1>9, <1>a, <2>5, <2>7, <2>8, <2>9 DEF StreamChunk, Typed, rest, WireTyped, ServersTyped, BoxTyped
<1>10. CASE StreamEnds
  <2>1. WorkerTyped'
    BY <1>10, <1>a, <1>c DEF StreamEnds, WorkerTyped, Leave, peer
  <2> QED
    BY <1>10, <2>1, Frame DEF StreamEnds, Typed, client
<1>11. CASE Finish
  <2>0. item \in Msg
    BY <1>11, <1>a DEF Finish, WorkerTyped
  <2>2. LineEnd(cli[dst].zout) \in Lines
    BY <1>b DEF LineEnd, Line, Lines, Verbs, Clients
  <2>3. up' \in [Conn -> Seq(Lines)]
    BY <1>11, <1>a, <2>2, WriteTyped DEF Finish
  <2>8. ClientsTyped'
    <3>1. [cli[dst] EXCEPT !.idle = 0] \in Clients
      BY <1>b DEF Clients
    <3>2. cli' = [cli EXCEPT ![dst] = [cli[dst] EXCEPT !.idle = 0]]
      BY <1>11, <1>a DEF Finish
    <3> QED
      BY <1>a, <3>1, <3>2, SetClient
  <2>9. pendQ' \in Seq([row : Msg, tag : Nat])
    <3>1. LastTag(dst) \in Nat
      BY <1>b DEF LastTag, Clients
    <3>2. Append(pendQ, [row |-> item, tag |-> LastTag(dst)]) \in Seq([row : Msg, tag : Nat])
      BY <1>a, <2>0, <3>1 DEF WorkerTyped
    <3> QED
      BY <1>11, <1>a, <3>2 DEF Finish, WorkerTyped
  <2>10. WorkerTyped'
    BY <1>11, <1>a, <1>c, <2>0, <2>9 DEF Finish, WorkerTyped, Leave, rest
  <2> QED
    BY <1>11, <1>a, <2>3, <2>8, <2>10 DEF Finish, Typed, rest, WireTyped, ServersTyped, BodiesTyped, BoxTyped
<1>12. CASE Room
  <2>1. WorkerTyped'
    BY <1>12, <1>a, <1>c DEF Room, WorkerTyped, Leave, peer
  <2> QED
    BY <1>12, <2>1, Frame DEF Room, Typed, client
<1>13. CASE SettleOne
  <2>1. pendQ' \in Seq([row : Msg, tag : Nat])
    <3>1. Len(pendQ) >= AppendWindow => pendQ # <<>>
      BY TransferAssumption, <1>a DEF WorkerTyped
    <3>2. pendQ # <<>> /\ pendQ' = Tail(pendQ)
      BY <1>13, <3>1 DEF SettleOne
    <3> QED
      BY <1>a, <3>2 DEF WorkerTyped
  <2>2. WorkerTyped'
    BY <1>13, <1>a, <1>c, <2>1 DEF SettleOne, WorkerTyped, Leave, peer
  <2>3. ClientsTyped'
    BY <1>13, OwedTyped DEF SettleOne
  <2> QED
    BY <1>13, <2>2, <2>3, Frame DEF SettleOne, Typed
<1>14. CASE ClosePair
  <2>1. closing # <<>> /\ Head(closing) \in Conn /\ Tail(closing) \in Seq(Conn)
    BY <1>14, <1>a DEF ClosePair, WorkerTyped
  <2>2. /\ UNCHANGED <<box, here, body>>
        /\ \/ pc' = "logout" /\ closing' = closing
           \/ pc' = "close" /\ closing' = Tail(closing)
        /\ UNCHANGED <<next, fetchQ, item, pendQ, drained>>
    BY <1>14 DEF ClosePair, rest
  <2>3. WorkerTyped'
    BY <1>a, <2>1, <2>2 DEF WorkerTyped
  <2>4. CASE graceful /\ ~cli[Head(closing)].closed
    <3>1. CmdNowait(Head(closing), "LOGOUT") /\ UNCHANGED <<down, srv>>
      BY <1>14, <2>4 DEF ClosePair
    <3>2. ClientsTyped' /\ up' \in [Conn -> Seq(Lines)]
      BY <2>1, <3>1, CmdNowaitTyped DEF Verbs
    <3> QED
      BY <1>a, <2>2, <2>3, <3>1, <3>2 DEF Typed, WireTyped, ServersTyped, BodiesTyped, BoxTyped
  <2>5. CASE ~(graceful /\ ~cli[Head(closing)].closed)
    <3>1. Abort(Head(closing), "lost")
      BY <1>14, <2>5 DEF ClosePair
    <3>2. WireTyped' /\ ClientsTyped' /\ ServersTyped'
      BY <2>1, <3>1, AbortTyped DEF Causes
    <3> QED
      BY <1>a, <2>2, <2>3, <3>2 DEF Typed, BodiesTyped, BoxTyped
  <2> QED
    BY <2>4, <2>5
<1>15. CASE LoggedOut
  <2>1. closing # <<>> /\ Head(closing) \in Conn /\ Tail(closing) \in Seq(Conn)
    BY <1>15, <1>a DEF LoggedOut, WorkerTyped
  <2>2. WorkerTyped'
    BY <1>15, <1>a, <2>1 DEF LoggedOut, WorkerTyped, rest
  <2>3. WireTyped' /\ ClientsTyped' /\ ServersTyped'
    BY <1>15, <2>1, AbortTyped DEF LoggedOut, Causes
  <2> QED
    BY <1>15, <1>a, <2>2, <2>3 DEF LoggedOut, rest, Typed, BodiesTyped, BoxTyped
<1>16. CASE Ended
  <2>1. WorkerTyped'
    BY <1>16, <1>a DEF Ended, WorkerTyped, peer
  <2> QED
    BY <1>16, <2>1, Frame DEF Ended, Typed, client
<1> QED
  BY <1>1, <1>2, <1>3, <1>4, <1>5, <1>6, <1>7, <1>8, <1>9, <1>10, <1>11, <1>12, <1>13, <1>14,
     <1>15, <1>16 DEF Work

\* Every step of the system keeps the types.
LEMMA TypedNext ==
  ASSUME Typed, [Next]_vars
  PROVE  Typed'
<1>a. /\ WireTyped /\ ServersTyped /\ ClientsTyped /\ BodiesTyped /\ BoxTyped /\ WorkerTyped
      /\ body \in [Msg -> Handles]
  BY DEF Typed, BodiesTyped
<1>1. CASE Work
  BY <1>1, WorkTyped
<1>2. ASSUME NEW m \in Msg, Drain(m)
      PROVE  Typed'
  <2>1. /\ body[m].ch # <<>> /\ body' = [body EXCEPT ![m] = [body[m] EXCEPT !.ch = Tail(body[m].ch)]]
        /\ UNCHANGED <<peer, cli, worker>>
    BY <1>2, <1>a DEF Drain
  <2>2. body[m] \in Handles /\ body[m].ch \in Seq(Chunks)
    BY <1>a DEF Handles
  <2>3. Tail(body[m].ch) \in Seq(Chunks)
    BY <2>1, <2>2
  <2>4. [body[m] EXCEPT !.ch = Tail(body[m].ch)] \in Handles
    BY <2>2, <2>3 DEF Handles
  <2>5. BodiesTyped'
    BY <1>a, <2>1, <2>4, SetBody
  <2> QED
    BY <2>1, <2>5, Frame DEF Typed, peer
<1>3. ASSUME NEW k \in Conn, Goroutines(k), UNCHANGED worker
      PROVE  Typed'
  <2>1. CASE Open(k)
    BY <2>1, <1>3, <1>a, OpenTyped, Frame DEF Typed, ServersTyped, BoxTyped, BodiesTyped
  <2>2. CASE Reader(k)
    BY <2>2, <1>3, <1>a, ReaderTyped, Frame DEF Typed, ServersTyped, BoxTyped
  <2>3. CASE TellWaiters(k)
    BY <2>3, <1>3, <1>a, TellTyped, Frame DEF Typed, WireTyped, ServersTyped, BoxTyped
  <2>4. CASE Watchdog(k) \/ KickOne(k)
    <3>1. \E why \in Causes : Abort(k, why)
      BY <2>4 DEF Watchdog, KickOne, Causes
    <3>2. UNCHANGED <<box, here, body>>
      BY <2>4 DEF Watchdog, KickOne
    <3> QED
      BY <3>1, <3>2, <1>3, <1>a, AbortTyped, Frame DEF Typed, BoxTyped
  <2> QED
    BY <1>3, <2>1, <2>2, <2>3, <2>4 DEF Goroutines, Opener
<1>4. CASE Time
  <2>1. Pass(Timed) /\ UNCHANGED worker /\ Timed \in BOOLEAN
    BY <1>4, TimeIs DEF Timed
  <2> QED
    BY <2>1, <1>a, PassTyped, Frame DEF Typed, WireTyped, ServersTyped, BoxTyped
<1>5. ASSUME NEW k \in Conn, Server(k)
      PROVE  Typed'
  BY <1>5, ServerTyped, Frame DEF Typed
<1>6. ASSUME NEW m \in Msg, Vanish(m), UNCHANGED <<client, worker>>
      PROVE  Typed'
  BY <1>6, <1>a, Frame DEF Vanish, Typed, WireTyped, ServersTyped, BoxTyped, WorkerTyped, client, worker
<1>7. CASE Kick /\ UNCHANGED worker
  BY <1>7, <1>a, Frame DEF Kick, Typed, WireTyped, ServersTyped, BoxTyped
<1>8. CASE UNCHANGED vars
  BY <1>8, Frame DEF Typed, vars, client, peer
<1> QED
  BY <1>1, <1>2, <1>3, <1>4, <1>5, <1>6, <1>7, <1>8 DEF Next, Process, Busy

LEMMA Local ==
  ASSUME Typed, NEW k \in Conn
  PROVE  /\ cli[k] \in Clients /\ srv[k] \in Servers
         /\ up[k] \in Seq(Lines) /\ down[k] \in Seq(Replies)
         /\ Len(up[k]) \in Nat /\ Len(down[k]) \in Nat
         /\ cli[k].result \in Seq(Outcomes) /\ LastTag(k) \in Nat
         /\ cli[k].pend \in SUBSET Waiters
         /\ cli[k].zin \in BOOLEAN /\ cli[k].zout \in BOOLEAN /\ cli[k].closed \in BOOLEAN
         /\ cli[k].sent \in BOOLEAN /\ cli[k].why \in Causes
         /\ srv[k].on \in BOOLEAN /\ srv[k].peer \in BOOLEAN /\ srv[k].zip \in BOOLEAN
         /\ srv[k].cmd \in Lines /\ srv[k].got \in Seq(Chunks)
  BY DEF Typed, ClientsTyped, ServersTyped, WireTyped, Clients, Servers, LastTag

\* A step that leaves a connection alone.
LEMMA RestMove ==
  ASSUME NEW k, cli'[k] = cli[k], up'[k] = up[k], down'[k] = down[k], srv'[k] = srv[k],
         box'[k] = box[k]
  PROVE  Rests(k)
  BY DEF Rests, SameVoice, SameWire, SameServer

\* A step of one connection, as the clients see it.
LEMMA OneClient ==
  ASSUME Typed, NEW k \in Conn, NEW c, cli' = [cli EXCEPT ![k] = c]
  PROVE  cli'[k] = c /\ \A j \in Conn \ {k} : cli'[j] = cli[j]
  BY DEF Typed, ClientsTyped

LEMMA OneWire ==
  ASSUME Typed, NEW k \in Conn
  PROVE  /\ \A e : /\ ~cli[k].closed => Write(k, e)[k] = Append(up[k], e)
                   /\ cli[k].closed => Write(k, e)[k] = up[k]
                   /\ \A j \in Conn \ {k} : Write(k, e)[j] = up[j]
         /\ \A s : /\ [down EXCEPT ![k] = s][k] = s /\ [up EXCEPT ![k] = s][k] = s
                   /\ \A j \in Conn \ {k} : [down EXCEPT ![k] = s][j] = down[j] /\ [up EXCEPT ![k] = s][j] = up[j]
  BY DEF Typed, WireTyped, Write

LEMMA OpenMoves ==
  ASSUME Typed, NEW k \in Conn, Open(k), NEW j \in Conn
  PROVE  Move(j)
<1>0. /\ UNCHANGED <<srv, box>>
      /\ cli[k] \in Clients /\ LastTag(k) \in Nat /\ WireTyped /\ cli \in [Conn -> Clients]
  BY OpenTyped, Local DEF Typed, ClientsTyped
<1>1. CASE ReadGreeting(k)
  <2>1. /\ down[k] # <<>> /\ down'[k] = Tail(down[k]) /\ up' = up
        /\ \A i \in Conn \ {k} : cli'[i] = cli[i] /\ down'[i] = down[i]
    BY <1>1, <1>0 DEF ReadGreeting, Readable, WireTyped
  <2>2. /\ cli[k].phase = "greeting" /\ cli'[k].phase \in {"starttls", "open"}
        /\ cli'[k].pend = cli[k].pend /\ cli'[k].result = cli[k].result
        /\ cli'[k].zin = cli[k].zin /\ cli'[k].zout = cli[k].zout /\ cli'[k].closed = cli[k].closed
    BY <1>1, <1>0 DEF ReadGreeting, Clients
  <2>3. CASE j = k
    BY <1>0, <2>1, <2>2, <2>3 DEF Move, Opens1, SameServer
  <2> QED
    BY <1>0, <2>1, <2>3, RestMove DEF Move
<1>2. CASE Starttls(k)
  <2> DEFINE e == Command(k, "STARTTLS", None)
  <2>1. /\ down' = down /\ up' = Write(k, e)
        /\ \A i \in Conn \ {k} : cli'[i] = cli[i]
    BY <1>2, <1>0 DEF Starttls
  <2>2. /\ cli[k].phase = "starttls" /\ cli'[k].phase = cli[k].phase
        /\ cli'[k].pend = cli[k].pend /\ cli'[k].result = Append(cli[k].result, "void")
        /\ cli'[k].zin = cli[k].zin /\ cli'[k].zout = cli[k].zout /\ cli'[k].closed = cli[k].closed
        /\ cli'[k].why = cli[k].why
    BY <1>2, <1>0 DEF Starttls, Clients
  <2>3. e \in Lines /\ e.verb = "STARTTLS" /\ e.tag = LastTag(k) + 1 /\ e.z = cli[k].zout
    BY CommandTyped DEF Command, Line, Verbs
  <2> HIDE DEF e
  <2>4. CASE j = k /\ cli[k].closed
    BY <1>0, <2>1, <2>2, <2>4, OneWire DEF Move, CallsInVain, SameWire, SameServer
  <2>5. CASE j = k /\ ~cli[k].closed
    BY <1>0, <2>1, <2>2, <2>3, <2>5, OneWire DEF Move, Greets, SameServer
  <2> QED
    BY <1>0, <2>1, <2>4, <2>5, OneWire, RestMove DEF Move
<1>3. CASE StarttlsDone(k)
  <2>1. /\ down[k] # <<>> /\ down'[k] = Tail(down[k]) /\ up' = up
        /\ \A i \in Conn \ {k} : cli'[i] = cli[i] /\ down'[i] = down[i]
    BY <1>3, <1>0 DEF StarttlsDone, Readable, WireTyped
  <2>2. /\ cli[k].phase = "starttls" /\ cli'[k].phase = "open"
        /\ cli'[k].pend = cli[k].pend /\ cli'[k].result = cli[k].result
        /\ cli'[k].zin = cli[k].zin /\ cli'[k].zout = cli[k].zout /\ cli'[k].closed = cli[k].closed
    BY <1>3, <1>0 DEF StarttlsDone, Clients
  <2>3. CASE j = k
    BY <1>0, <2>1, <2>2, <2>3 DEF Move, Opens1, SameServer
  <2> QED
    BY <1>0, <2>1, <2>3, RestMove DEF Move
<1>4. CASE StartReader(k)
  <2>1. UNCHANGED <<up, down>> /\ \A i \in Conn \ {k} : cli'[i] = cli[i]
    BY <1>4, <1>0 DEF StartReader, peer
  <2>2. /\ cli[k].phase = "open" /\ cli'[k].phase \in {"capability", "login"}
        /\ cli'[k].pend = cli[k].pend /\ cli'[k].result = cli[k].result
        /\ cli'[k].zin = cli[k].zin /\ cli'[k].zout = cli[k].zout /\ cli'[k].closed = cli[k].closed
    BY <1>4, <1>0 DEF StartReader, Clients
  <2>3. CASE j = k
    BY <1>0, <2>1, <2>2, <2>3 DEF Move, Opens1, SameServer
  <2> QED
    BY <1>0, <2>1, <2>3, RestMove DEF Move
<1>5. CASE Ask(k)
  <2> DEFINE v == Verb(cli[k].phase)
             e == Command(k, v, None)
             c == [Issue(cli[k], v) EXCEPT !.sent = TRUE]
  <2>0. v \in Verbs /\ cli[k].phase \in Asking /\ ~cli[k].sent
    BY <1>5 DEF Ask, Asking, Verb, Verbs
  <2>1. /\ down' = down /\ up' = Write(k, e) /\ cli' = [cli EXCEPT ![k] = c]
    BY <1>5, <1>0 DEF Ask
  <2>2. cli'[k] = c /\ \A i \in Conn \ {k} : cli'[i] = cli[i]
    BY <1>0, <2>1
  <2>3. e \in Lines /\ e.verb = v /\ e.tag = LastTag(k) + 1 /\ e.z = cli[k].zout
    BY <2>0, CommandTyped DEF Command, Line
  <2> HIDE DEF e, v
  <2>6. /\ c.phase = cli[k].phase /\ c.sent
        /\ c.zin = cli[k].zin /\ c.zout = cli[k].zout /\ c.closed = cli[k].closed
        /\ c.why = cli[k].why
        /\ cli[k].closed => c.pend = cli[k].pend /\ c.result = Append(cli[k].result, "void")
        /\ ~cli[k].closed => /\ c.pend = cli[k].pend \union {[tag |-> LastTag(k) + 1, verb |-> v]}
                             /\ c.result = Append(cli[k].result, "wait")
    BY <1>0 DEF Issue, Clients, LastTag
  <2> HIDE DEF c
  <2>4. CASE j = k /\ cli[k].closed
    BY <1>0, <2>0, <2>1, <2>2, <2>4, <2>6, OneWire DEF Move, CallsInVain, SameWire, SameServer
  <2>5. CASE j = k /\ ~cli[k].closed
    <3>1. e.verb = Verb(cli[k].phase)
      BY <2>3 DEF v
    <3>2. up'[k] = Append(up[k], e)
      BY <2>1, <2>5, OneWire
    <3>3. Calls(k)
      BY <1>0, <2>0, <2>1, <2>2, <2>3, <2>5, <2>6, <3>1, <3>2 DEF Calls, SameServer
    <3> QED
      BY <2>5, <3>3 DEF Move
  <2> QED
    BY <1>0, <2>1, <2>2, <2>4, <2>5, OneWire, RestMove DEF Move
<1>6. CASE Answered(k)
  <2>1. UNCHANGED <<up, down>> /\ \A i \in Conn \ {k} : cli'[i] = cli[i]
    BY <1>6, <1>0 DEF Answered, peer
  <2> DEFINE r == cli[k].result[LastTag(k)]
             f == CASE cli[k].phase \in {"capability", "login"} /\ r # "OK" -> "failed"
                  [] cli[k].phase = "capability" -> "login"
                  [] cli[k].phase = "login" -> "id"
                  [] cli[k].phase = "id" -> IF Baseline THEN "ready" ELSE "compress"
                  [] cli[k].phase = "compress" -> "ready"
             z == cli[k].zout \/ Deflates(cli[k].phase, r)
  <2>2. cli' = [cli EXCEPT ![k].phase = f, ![k].sent = FALSE, ![k].zout = z]
    BY <1>6 DEF Answered
  <2>3. cli[k].phase \in Asking /\ cli[k].sent /\ r # "wait"
    BY <1>6 DEF Answered
  <2>4. f \in {"login", "id", "compress", "ready", "failed"} /\ (cli[k].phase = "compress" => f = "ready")
    BY <2>3 DEF Asking
  <2>5. z = (cli[k].zout \/ (cli[k].phase = "compress" /\ r = "OK"))
    BY DEF Deflates
  <2> HIDE DEF f, z
  <2>6. /\ cli'[k].phase = f /\ ~cli'[k].sent /\ cli'[k].zout = z
        /\ cli'[k].pend = cli[k].pend /\ cli'[k].result = cli[k].result
        /\ cli'[k].zin = cli[k].zin /\ cli'[k].closed = cli[k].closed
        /\ cli'[k].why = cli[k].why
    BY <1>0, <2>2 DEF Clients
  <2>7. CASE j = k
    BY <1>0, <2>1, <2>3, <2>4, <2>5, <2>6, <2>7 DEF Move, Proceeds, SameWire, SameServer, Result
  <2> QED
    BY <1>0, <2>1, <2>7, RestMove DEF Move
<1>7. CASE OpenFails(k)
  <2>1. UNCHANGED <<up, down>> /\ \A i \in Conn \ {k} : cli'[i] = cli[i]
    BY <1>7, <1>0 DEF OpenFails, peer
  <2>2. /\ cli[k].phase \in {"greeting", "starttls"} /\ cli'[k].phase = "failed"
        /\ cli'[k].pend = cli[k].pend /\ cli'[k].result = cli[k].result
        /\ cli'[k].zin = cli[k].zin /\ cli'[k].zout = cli[k].zout
        /\ cli'[k].closed /\ (cli[k].closed \/ ~srv[k].on) /\ down[k] = <<>>
    BY <1>7, <1>0 DEF OpenFails, Clients, Eof
  <2>3. CASE j = k
    BY <1>0, <2>1, <2>2, <2>3 DEF Move, Opens1, SameServer
  <2> QED
    BY <1>0, <2>1, <2>3, RestMove DEF Move
<1> QED
  BY <1>1, <1>2, <1>3, <1>4, <1>5, <1>6, <1>7 DEF Open

\* What the answer e makes of the commands of c.
Takes(c, e, d) ==
  /\ d.phase = c.phase /\ d.sent = c.sent /\ d.zout = c.zout
  /\ d.closed = c.closed /\ d.why = c.why
  /\ e.kind \notin {"OK", "NO"} => d.zin = c.zin /\ d.pend = c.pend /\ d.result = c.result
  /\ e.kind \in {"OK", "NO"} =>
       /\ d.pend = {p \in c.pend : p.tag # e.tag}
       /\ d.result = (IF \E p \in c.pend : p.tag = e.tag
                      THEN [c.result EXCEPT ![e.tag] = e.kind] ELSE c.result)
       /\ d.zin = (c.zin \/ (e.kind = "OK" /\ \E p \in c.pend : p.verb = "COMPRESS" /\ p.tag = e.tag))

LEMMA RoutedVoice ==
  ASSUME NEW a \in Clients, NEW k, NEW e \in Replies
  PROVE  Takes(a, e, Routed(a, k, e))
<1>1. CASE e.kind \in {"OK", "NO"}
  <2> DEFINE s == Settle(a, e.tag, e.kind)
             z == s.zin \/ (e.kind = "OK" /\ "COMPRESS" \in VerbOf(a, e.tag))
  <2>1. Routed(a, k, e) = [s EXCEPT !.zin = z]
    BY <1>1 DEF Routed
  <2>2. s \in Clients
    BY <1>1, SettleTyped DEF Replies, Outcomes, Outcome
  <2>3. /\ s.phase = a.phase /\ s.sent = a.sent /\ s.zout = a.zout /\ s.zin = a.zin
        /\ s.closed = a.closed /\ s.why = a.why
        /\ s.pend = {p \in a.pend : p.tag # e.tag}
        /\ s.result = (IF \E p \in a.pend : p.tag = e.tag
                                THEN [a.result EXCEPT ![e.tag] = e.kind] ELSE a.result)
    <3>1. CASE \E p \in a.pend : p.tag = e.tag
      BY <3>1 DEF Settle, Clients
    <3>2. CASE ~\E p \in a.pend : p.tag = e.tag
      BY <3>2 DEF Settle, Clients
    <3> QED
      BY <3>1, <3>2
  <2>4. ("COMPRESS" \in VerbOf(a, e.tag)) <=> \E p \in a.pend : p.verb = "COMPRESS" /\ p.tag = e.tag
    BY DEF VerbOf
  <2>5. z = (a.zin \/ (e.kind = "OK" /\ \E p \in a.pend : p.verb = "COMPRESS" /\ p.tag = e.tag))
    BY <2>3, <2>4
  <2> HIDE DEF s, z
  <2> DEFINE c == Routed(a, k, e)
  <2>6. /\ c.phase = s.phase /\ c.sent = s.sent /\ c.zout = s.zout /\ c.closed = s.closed
        /\ c.why = s.why /\ c.pend = s.pend /\ c.result = s.result /\ c.zin = z
    BY <2>1, <2>2 DEF Clients
  <2> QED
    BY <1>1, <2>3, <2>5, <2>6 DEF Takes
<1>2. CASE e.kind \notin {"OK", "NO"}
  BY <1>2 DEF Routed, Clients, Takes
<1> QED
  BY <1>1, <1>2

LEMMA ReaderMoves ==
  ASSUME Typed, NEW k \in Conn, Reader(k), NEW j \in Conn
  PROVE  Move(j)
<1>0. /\ UNCHANGED <<srv, box, up>>
      /\ cli[k] \in Clients /\ LastTag(k) \in Nat /\ WireTyped /\ cli \in [Conn -> Clients]
  BY ReaderTyped, Local DEF Typed, ClientsTyped, Reader, ReadResponse, ReadChunk, EndLiteral, ReadEof, peer
<1>1. CASE ReadResponse(k)
  <2> DEFINE e == Head(down[k])
             a == [cli[k] EXCEPT !.idle = 0]
             c == Routed(a, k, e)
  <2>1. /\ down[k] # <<>> /\ down'[k] = Tail(down[k])
        /\ \A i \in Conn \ {k} : cli'[i] = cli[i] /\ down'[i] = down[i]
        /\ cli'[k] = c
    BY <1>1, <1>0 DEF ReadResponse, Readable, WireTyped, NextResponse
  <2>a. a \in Clients
    BY <1>0 DEF Clients
  <2>b. e \in Replies
    BY <1>0, <2>1, TailTyped DEF NextResponse
  <2>2. a \in Clients /\ e \in Replies
    BY <2>a, <2>b
  <2>3. /\ a.phase = cli[k].phase /\ a.sent = cli[k].sent
        /\ a.zin = cli[k].zin /\ a.zout = cli[k].zout
        /\ a.closed = cli[k].closed /\ a.why = cli[k].why
        /\ a.pend = cli[k].pend /\ a.result = cli[k].result
    BY <1>0 DEF Clients
  <2> HIDE DEF e, a
  <2>c. c = Routed(a, k, e)
    OBVIOUS
  <2> HIDE DEF c
  <2>4. Takes(a, e, c)
    BY <2>2, <2>c, RoutedVoice
  <2>5. (\E p \in CompressWaits(k) : p.tag = e.tag) <=> \E p \in cli[k].pend : p.verb = "COMPRESS" /\ p.tag = e.tag
    BY DEF CompressWaits
  <2>6. CASE j = k /\ e.kind \notin {"OK", "NO"}
    BY <1>0, <2>1, <2>3, <2>4, <2>6 DEF Move, Hears, SameVoice, SameServer, Takes, e
  <2>7. CASE j = k /\ e.kind \in {"OK", "NO"}
    <3>1. /\ cli'[k].pend = {p \in cli[k].pend : p.tag # e.tag}
          /\ cli'[k].result = (IF \E p \in cli[k].pend : p.tag = e.tag
                          THEN [cli[k].result EXCEPT ![e.tag] = e.kind] ELSE cli[k].result)
          /\ cli'[k].zin = (cli[k].zin \/ (e.kind = "OK" /\ \E p \in CompressWaits(k) : p.tag = e.tag))
          /\ cli'[k].phase = cli[k].phase /\ cli'[k].sent = cli[k].sent
          /\ cli'[k].zout = cli[k].zout
          /\ cli'[k].closed = cli[k].closed /\ cli'[k].why = cli[k].why
      BY <2>1, <2>3, <2>4, <2>5, <2>7 DEF Takes
    <3>2. IsAnswered(k)
      BY <1>0, <2>1, <2>7, <3>1 DEF IsAnswered, SameServer, e
    <3> QED
      BY <2>7, <3>2 DEF Move
  <2> QED
    BY <1>0, <2>1, <2>6, <2>7, RestMove DEF Move
<1>2. CASE ReadChunk(k)
  <2> DEFINE l == cli[k].left - 1
  <2>1. /\ down[k] # <<>> /\ down'[k] = Tail(down[k])
        /\ \A i \in Conn \ {k} : cli'[i] = cli[i] /\ down'[i] = down[i]
        /\ cli'[k] = [cli[k] EXCEPT !.left = l, !.idle = 0] /\ cli[k].reader = "literal"
    BY <1>2, <1>0 DEF ReadChunk, Readable, WireTyped
  <2> HIDE DEF l
  <2>2. SameVoice(k)
    BY <1>0, <2>1 DEF SameVoice, Clients
  <2>3. CASE j = k
    BY <1>0, <2>1, <2>2, <2>3 DEF Move, Hears, SameServer
  <2> QED
    BY <1>0, <2>1, <2>3, RestMove DEF Move
<1>3. CASE EndLiteral(k)
  <2>1. /\ down' = down
        /\ \A i \in Conn \ {k} : cli'[i] = cli[i]
        /\ cli'[k] = [cli[k] EXCEPT !.reader = "line", !.to = None]
    BY <1>3, <1>0 DEF EndLiteral, peer
  <2>2. SameVoice(k)
    BY <1>0, <2>1 DEF SameVoice, Clients
  <2>3. CASE j = k
    BY <1>0, <2>1, <2>2, <2>3 DEF Move, Rests, SameWire, SameServer
  <2> QED
    BY <1>0, <2>1, <2>3, RestMove DEF Move
<1>4. CASE ReadEof(k)
  <2> DEFINE d == Closed(cli[k], "lost")
  <2>1. /\ down' = down
        /\ \A i \in Conn \ {k} : cli'[i] = cli[i]
        /\ cli'[k] = [d EXCEPT !.reader = "off", !.to = None]
        /\ (cli[k].closed \/ ~srv[k].on) /\ down[k] = <<>>
    BY <1>4, <1>0 DEF ReadEof, peer, Eof
  <2>2. /\ d \in Clients /\ d.closed
        /\ d.phase = cli[k].phase /\ d.sent = cli[k].sent
        /\ d.zin = cli[k].zin /\ d.zout = cli[k].zout
        /\ d.pend = cli[k].pend /\ d.result = cli[k].result
    <3>1. d \in Clients
      BY <1>0, ClosedTyped DEF Causes
    <3>2. CASE cli[k].closed
      BY <3>1, <3>2 DEF Closed
    <3>3. CASE ~cli[k].closed
      BY <1>0, <3>1, <3>3 DEF Closed, Clients
    <3> QED
      BY <3>1, <3>2, <3>3
  <2> HIDE DEF d
  <2>3. /\ cli'[k].closed
        /\ cli'[k].phase = cli[k].phase /\ cli'[k].sent = cli[k].sent
        /\ cli'[k].zin = cli[k].zin /\ cli'[k].zout = cli[k].zout
        /\ cli'[k].pend = cli[k].pend /\ cli'[k].result = cli[k].result
    BY <2>1, <2>2 DEF Clients
  <2>4. CASE j = k
    BY <1>0, <2>1, <2>3, <2>4 DEF Move, Finds, SameWire, SameServer
  <2> QED
    BY <1>0, <2>1, <2>4, RestMove DEF Move
<1> QED
  BY <1>1, <1>2, <1>3, <1>4 DEF Reader

LEMMA TellMoves ==
  ASSUME Typed, NEW k \in Conn, TellWaiters(k), NEW j \in Conn
  PROVE  Move(j)
<1>0. /\ UNCHANGED <<srv, box, up, down>>
      /\ cli[k] \in Clients /\ cli \in [Conn -> Clients] /\ cli[k].closed
  BY Local DEF Typed, ClientsTyped, TellWaiters, peer
<1> DEFINE r == Released(cli[k])
<1>1. /\ \A i \in Conn \ {k} : cli'[i] = cli[i]
      /\ cli'[k] = [cli[k] EXCEPT !.told = TRUE, !.pend = {}, !.fifo = <<>>, !.result = r]
  BY <1>0 DEF TellWaiters
<1> HIDE DEF r
<1>2. /\ cli'[k].pend = {} /\ cli'[k].result = r
      /\ cli'[k].phase = cli[k].phase /\ cli'[k].sent = cli[k].sent
      /\ cli'[k].zin = cli[k].zin /\ cli'[k].zout = cli[k].zout
      /\ cli'[k].closed = cli[k].closed /\ cli'[k].why = cli[k].why
  <2>1. /\ cli[k] \in Clients
        /\ cli'[k] = [cli[k] EXCEPT !.told = TRUE, !.pend = {}, !.fifo = <<>>, !.result = r]
    BY <1>0, <1>1
  <2>2. cli'[k].pend = {} /\ cli'[k].result = r
    BY <2>1 DEF Clients
  <2>3. /\ cli'[k].phase = cli[k].phase /\ cli'[k].sent = cli[k].sent
        /\ cli'[k].zin = cli[k].zin /\ cli'[k].zout = cli[k].zout
        /\ cli'[k].closed = cli[k].closed /\ cli'[k].why = cli[k].why
    BY <2>1 DEF Clients
  <2> QED
    BY <2>2, <2>3
<1>3. CASE j = k
  BY <1>0, <1>2, <1>3 DEF Move, Tells, SameWire, SameServer, r
<1> QED
  BY <1>0, <1>1, <1>3, RestMove DEF Move

LEMMA AbortMoves ==
  ASSUME Typed, NEW k \in Conn, NEW why \in Causes, Abort(k, why), box' = box, NEW j \in Conn
  PROVE  Move(j)
<1>a. /\ cli[k] \in Clients /\ WireTyped /\ ServersTyped /\ cli \in [Conn -> Clients]
      /\ Len(up[k]) \in Nat /\ Len(down[k]) \in Nat
  BY Local DEF Typed, ClientsTyped
<1>1. CASE cli[k].closed
  BY <1>1, <1>a, RestMove DEF Abort, Move
<1>2. CASE ~cli[k].closed
  <2>1. cli' = [cli EXCEPT ![k] = Closed(cli[k], why)] /\ Sever(k)
    BY <1>2, <1>a DEF Abort
  <2>2. /\ \A i \in Conn \ {k} : cli'[i] = cli[i] /\ up'[i] = up[i] /\ down'[i] = down[i] /\ srv'[i] = srv[i]
        /\ srv'[k] = [srv[k] EXCEPT !.peer = FALSE]
        /\ cli'[k] = Closed(cli[k], why)
    BY <1>a, <2>1 DEF Sever, WireTyped, ServersTyped
  <2>3. /\ cli'[k].closed
        /\ cli'[k].phase = cli[k].phase /\ cli'[k].sent = cli[k].sent
        /\ cli'[k].zin = cli[k].zin /\ cli'[k].zout = cli[k].zout
        /\ cli'[k].pend = cli[k].pend /\ cli'[k].result = cli[k].result
    BY <1>a, <2>2 DEF Closed, Clients
  <2>4. PICK n \in 0..(IF Appending(k) THEN Len(up[k]) ELSE 0) : up' = [up EXCEPT ![k] = SubSeq(@, 1, n)]
    BY <2>1 DEF Sever
  <2>5. PICK n2 \in 0..(IF LateBuffer THEN Len(down[k]) ELSE 0) : down' = [down EXCEPT ![k] = SubSeq(@, 1, n2)]
    BY <2>1 DEF Sever
  <2>6. n \in 0..Len(up[k]) /\ n2 \in 0..Len(down[k]) /\ (~LateBuffer => n2 = 0)
    BY <1>a
  <2>7. up'[k] = SubSeq(up[k], 1, n) /\ down'[k] = SubSeq(down[k], 1, n2)
    BY <1>a, <2>4, <2>5 DEF WireTyped
  <2>8. ~LateBuffer => down'[k] = <<>>
    BY <2>6, <2>7
  <2>9. CASE j = k
    BY <1>2, <2>2, <2>3, <2>6, <2>7, <2>8, <2>9 DEF Move, Closes
  <2> QED
    BY <2>2, <2>9, RestMove DEF Move
<1> QED
  BY <1>1, <1>2

LEMMA ServerMoves ==
  ASSUME Typed, NEW k \in Conn, Server(k), NEW j \in Conn
  PROVE  Move(j)
<1>1. cli' = cli
  BY DEF Server, client
<1>2. \A i \in Conn \ {k} : up'[i] = up[i] /\ down'[i] = down[i] /\ srv'[i] = srv[i] /\ box'[i] = box[i]
  <2>1. Serve(k) \/ Trouble(k)
    BY DEF Server
  <2>2. \A es : \A i \in Conn \ {k} : Send(k, es)[i] = down[i]
    BY DEF Send, Typed, WireTyped
  <2>3. WireTyped /\ ServersTyped /\ BoxTyped
    BY DEF Typed
  <2> SUFFICES ASSUME NEW i \in Conn \ {k}
               PROVE  up'[i] = up[i] /\ down'[i] = down[i] /\ srv'[i] = srv[i] /\ box'[i] = box[i]
    OBVIOUS
  <2>4. CASE ServeLine(k)
    BY <2>2, <2>3, <2>4 DEF ServeLine, WireTyped, ServersTyped
  <2>5. CASE ServeAppend(k)
    BY <2>2, <2>3, <2>5 DEF ServeAppend, WireTyped, ServersTyped
  <2>6. CASE ServeLiteral(k)
    BY <2>2, <2>3, <2>6 DEF ServeLiteral, WireTyped, ServersTyped
  <2>7. CASE ServeBody(k)
    BY <2>2, <2>3, <2>7 DEF ServeBody, WireTyped, ServersTyped, BoxTyped
  <2>8. CASE RefuseLine(k)
    BY <2>2, <2>3, <2>8 DEF RefuseLine, WireTyped, ServersTyped
  <2>9. CASE RefuseBody(k)
    BY <2>2, <2>3, <2>9 DEF RefuseBody, WireTyped, ServersTyped
  <2>10. CASE Cut(k)
    BY <2>2, <2>3, <2>10 DEF Cut, WireTyped, ServersTyped
  <2>11. CASE Stall(k)
    BY <2>2, <2>3, <2>11 DEF Stall, WireTyped, ServersTyped
  <2> QED
    BY <2>1, <2>4, <2>5, <2>6, <2>7, <2>8, <2>9, <2>10, <2>11 DEF Serve, Trouble
<1>3. CASE j = k
  BY <1>1, <1>3 DEF Move, Serves, SameVoice, Server
<1> QED
  BY <1>1, <1>2, <1>3, RestMove DEF Move

\* The commands of the runner.
Called(k, verb, c) ==
  /\ c.phase = cli[k].phase /\ c.sent = cli[k].sent
  /\ c.zin = cli[k].zin /\ c.zout = cli[k].zout /\ c.closed = cli[k].closed
  /\ c.why = cli[k].why
  /\ cli[k].closed => c.pend = cli[k].pend /\ c.result = Append(cli[k].result, "void")
  /\ ~cli[k].closed => /\ c.pend = cli[k].pend \union {[tag |-> LastTag(k) + 1, verb |-> verb]}
                       /\ c.result = Append(cli[k].result, "wait")

LEMMA IssueCalled ==
  ASSUME Typed, NEW k \in Conn, NEW verb \in Verbs
  PROVE  Called(k, verb, Issue(cli[k], verb)) /\ Issue(cli[k], verb) \in Clients
<1>1. cli[k] \in Clients
  BY Local
<1>2. Issue(cli[k], verb) \in Clients
  BY <1>1, IssueTyped
<1> QED
  BY <1>1, <1>2 DEF Issue, Clients, LastTag, Called

LEMMA CallMoves ==
  ASSUME Typed, NEW k \in Conn, pc # "open", k = src \/ pc' # pc,
         NEW verb \in {"SELECT", "UID FETCH", "APPEND", "LOGOUT"}, NEW c, Called(k, verb, c),
         cli' = [cli EXCEPT ![k] = c],
         NEW e \in Lines, e.verb = verb, e.tag = LastTag(k) + 1, e.z = cli[k].zout,
         up' = Write(k, e), UNCHANGED <<down, srv, box>>, NEW j \in Conn
  PROVE  Move(j)
<1>1. cli'[k] = c /\ \A i \in Conn \ {k} : cli'[i] = cli[i]
  BY OneClient
<1>2. CASE j = k /\ cli[k].closed
  <2>1. up'[k] = up[k] /\ down'[k] = down[k] /\ SameServer(k)
    BY <1>2, OneWire DEF SameServer
  <2>2. CallsInVain(k)
    BY <1>1, <1>2, <2>1 DEF CallsInVain, SameWire, Called
  <2> QED
    BY <1>2, <2>2 DEF Move
<1>3. CASE j = k /\ ~cli[k].closed
  <2>1. up'[k] = Append(up[k], e)
    BY <1>3, OneWire
  <2>2. Calls(k)
    BY <1>1, <1>3, <2>1 DEF Calls, SameServer, Called
  <2> QED
    BY <1>3, <2>2 DEF Move
<1>4. CASE j # k
  <2>1. up'[j] = up[j]
    BY <1>4 DEF Write, Typed, WireTyped
  <2> QED
    BY <1>1, <1>4, <2>1, RestMove DEF Move
<1> QED
  BY <1>2, <1>3, <1>4

LEMMA CmdNowaitMoves ==
  ASSUME Typed, NEW k \in Conn, pc # "open", k = src \/ pc' # pc, NEW verb \in {"SELECT", "LOGOUT"}, CmdNowait(k, verb),
         UNCHANGED <<down, srv, box>>, NEW j \in Conn
  PROVE  Move(j)
<1> DEFINE e == Command(k, verb, None)
<1>1. e \in Lines /\ e.verb = verb /\ e.tag = LastTag(k) + 1 /\ e.z = cli[k].zout
  BY CommandTyped DEF Command, Line, Verbs
<1>2. Called(k, verb, Issue(cli[k], verb))
  BY IssueCalled DEF Verbs
<1>3. cli' = [cli EXCEPT ![k] = Issue(cli[k], verb)] /\ up' = Write(k, e)
  BY DEF CmdNowait
<1> HIDE DEF e
<1> QED
  BY <1>1, <1>2, <1>3, CallMoves

LEMMA BodyFetchMoves ==
  ASSUME Typed, NEW k \in Conn, pc # "open", k = src \/ pc' # pc, NEW m \in Msg, BodyFetch(k, m),
         UNCHANGED <<down, srv, box>>, NEW j \in Conn
  PROVE  Move(j)
<1> DEFINE e == Command(k, "UID FETCH", m)
           i == Issue(cli[k], "UID FETCH")
           f == Append(i.fifo, m)
           c == [i EXCEPT !.fifo = f]
<1>1. e \in Lines /\ e.verb = "UID FETCH" /\ e.tag = LastTag(k) + 1 /\ e.z = cli[k].zout
  BY CommandTyped DEF Command, Line, Verbs
<1>2. Called(k, "UID FETCH", i) /\ i \in Clients
  BY IssueCalled DEF Verbs
<1>3. cli' = [cli EXCEPT ![k] = c] /\ up' = Write(k, e)
  BY DEF BodyFetch
<1> HIDE DEF e, i, f
<1>4. Called(k, "UID FETCH", c)
  BY <1>2 DEF Called, Clients
<1> HIDE DEF c
<1> QED
  BY <1>1, <1>3, <1>4, CallMoves

LEMMA AppendBeginMoves ==
  ASSUME Typed, NEW k \in Conn, pc # "open", k = src \/ pc' # pc, NEW m \in Msg, NEW size \in Int, AppendBegin(k, m, size),
         UNCHANGED <<down, srv, box>>, NEW j \in Conn
  PROVE  Move(j)
<1> DEFINE s == ~NonSync(cli[k])
           e == Line("APPEND", LastTag(k) + 1, m, size, s, cli[k].zout)
           i == Issue(cli[k], "APPEND")
           o == i.owed + 1
           c == IF cli[k].closed THEN i ELSE [i EXCEPT !.owed = o]
<1>0. LastTag(k) + 1 \in Nat /\ cli[k].zout \in BOOLEAN /\ s \in BOOLEAN
  BY Local
<1>2. Called(k, "APPEND", i) /\ i \in Clients
  BY IssueCalled DEF Verbs
<1>3. cli' = [cli EXCEPT ![k] = c] /\ up' = Write(k, e)
  BY DEF AppendBegin
<1> HIDE DEF s, i, o
<1>1. e \in Lines /\ e.verb = "APPEND" /\ e.tag = LastTag(k) + 1 /\ e.z = cli[k].zout
  BY <1>0 DEF Line, Lines, Verbs
<1> HIDE DEF e
<1>4. Called(k, "APPEND", c)
  BY <1>2 DEF Called, Clients
<1> HIDE DEF c
<1> QED
  BY <1>1, <1>3, <1>4, CallMoves

LEMMA WriteMoves ==
  ASSUME Typed, pc # "open", NEW e \in Lines, e.verb \in Parts, e.tag = 0, e.z = cli[dst].zout,
         up' = Write(dst, e), cli' = [cli EXCEPT ![dst].idle = 0],
         UNCHANGED <<down, srv, box>>, NEW j \in Conn
  PROVE  Move(j)
<1> USE Constants
<1>1. /\ cli'[dst] = [cli[dst] EXCEPT !.idle = 0] /\ cli[dst] \in Clients
      /\ \A i \in Conn \ {dst} : cli'[i] = cli[i]
  BY DEF Typed, ClientsTyped
<1>2. SameVoice(dst)
  BY <1>1 DEF SameVoice, Clients
<1>3. CASE j = dst /\ cli[dst].closed
  BY <1>1, <1>2, <1>3, OneWire DEF Move, Rests, SameWire, SameServer
<1>4. CASE j = dst /\ ~cli[dst].closed
  <2>1. up'[dst] = Append(up[dst], e)
    BY <1>4, OneWire
  <2>2. Feeds(dst)
    BY <1>1, <1>2, <1>4, <2>1 DEF Feeds, SameServer
  <2> QED
    BY <1>4, <2>2 DEF Move
<1>5. CASE j # dst
  <2>1. up'[j] = up[j]
    BY <1>5, OneWire
  <2> QED
    BY <1>1, <1>5, <2>1, RestMove DEF Move
<1> QED
  BY <1>3, <1>4, <1>5

LEMMA OwedMoves ==
  ASSUME Typed, cli' = [cli EXCEPT ![dst] = AppendDone(@)] \/ cli' = [cli EXCEPT ![dst].cont = 0],
         UNCHANGED <<up, down, srv, box>>, NEW j \in Conn
  PROVE  Move(j)
<1> USE Constants
<1> DEFINE o == cli[dst].owed - 1
<1>1. /\ cli'[dst] = [cli[dst] EXCEPT !.cont = 0] \/ cli'[dst] = [cli[dst] EXCEPT !.owed = o]
      /\ cli[dst] \in Clients
      /\ \A i \in Conn \ {dst} : cli'[i] = cli[i]
  BY DEF Typed, ClientsTyped, AppendDone
<1> HIDE DEF o
<1>2. SameVoice(dst)
  <2>1. cli'[dst] = [cli[dst] EXCEPT !.cont = 0] => SameVoice(dst)
    BY <1>1 DEF SameVoice, Clients
  <2>2. cli'[dst] = [cli[dst] EXCEPT !.owed = o] => SameVoice(dst)
    BY <1>1 DEF SameVoice, Clients
  <2> QED
    BY <1>1, <2>1, <2>2
<1>3. CASE j = dst
  BY <1>2, <1>3 DEF Move, Rests, SameWire, SameServer
<1> QED
  BY <1>1, <1>3, RestMove DEF Move

LEMMA WorkMoves ==
  ASSUME Typed, Work, NEW j \in Conn
  PROVE  Move(j)
<1> USE Constants
<1>r. UNCHANGED <<cli, up, down, srv, box>> => Move(j)
  BY RestMove DEF Move
<1>1. CASE Opened
  BY <1>1, <1>r DEF Opened, peer, client
<1>2. CASE Select
  BY <1>2, CmdNowaitMoves DEF Select, rest
<1>3. CASE Selected
  BY <1>3, <1>r DEF Selected, peer, client
<1>4. CASE StartMore
  <2>0. Rows[next] \in Msg
    BY <1>4 DEF StartMore, WantsMore, Typed, WorkerTyped
  <2> QED
    BY <1>4, <2>0, BodyFetchMoves DEF StartMore, rest
<1>5. CASE Filled
  BY <1>5, <1>r DEF Filled, peer
<1>6. CASE WaitSize
  BY <1>6, <1>r DEF WaitSize, peer, client
<1>7. CASE Begin
  <2>0. item \in Msg /\ body[item].size \in Int
    BY <1>7 DEF Begin, Typed, WorkerTyped, BodiesTyped, Handles
  <2> QED
    BY <1>7, <2>0, AppendBeginMoves DEF Begin, Leave, rest
<1>8. CASE Continue
  BY <1>8, OwedMoves DEF Continue, peer
<1>9. CASE StreamChunk
  <2>0. item \in Msg
    BY <1>9 DEF StreamChunk, Typed, WorkerTyped
  <2> DEFINE h == Head(body[item].ch)
             e == Data(h, cli[dst].zout)
  <2>1. h \in Chunks
    BY <1>9, <2>0 DEF StreamChunk, Typed, BodiesTyped, Handles
  <2>2. e \in Lines /\ e.verb \in Parts /\ e.tag = 0 /\ e.z = cli[dst].zout
    BY <2>1, Local DEF Data, Line, Lines, Chunks, Verbs, Parts
  <2>3. up' = Write(dst, e) /\ cli' = [cli EXCEPT ![dst].idle = 0] /\ pc # "open"
        /\ UNCHANGED <<down, srv, box>>
    BY <1>9 DEF StreamChunk, rest
  <2> HIDE DEF e
  <2> QED
    BY <2>2, <2>3, WriteMoves
<1>10. CASE StreamEnds
  BY <1>10, <1>r DEF StreamEnds, peer, client
<1>11. CASE Finish
  <2> DEFINE e == LineEnd(cli[dst].zout)
  <2>1. cli[dst].zout \in BOOLEAN
    BY Local
  <2>2. e \in Lines /\ e.verb \in Parts /\ e.tag = 0 /\ e.z = cli[dst].zout
    BY <2>1 DEF LineEnd, Line, Lines, Verbs, Parts
  <2>3. up' = Write(dst, e) /\ cli' = [cli EXCEPT ![dst].idle = 0] /\ pc # "open"
        /\ UNCHANGED <<down, srv, box>>
    BY <1>11 DEF Finish, rest
  <2> HIDE DEF e
  <2> QED
    BY <2>2, <2>3, WriteMoves
<1>12. CASE Room
  BY <1>12, <1>r DEF Room, peer, client
<1>13. CASE SettleOne
  BY <1>13, OwedMoves DEF SettleOne, peer
<1>14. CASE ClosePair
  <2>1. closing # <<>> /\ Head(closing) \in Conn
    BY <1>14 DEF ClosePair, Typed, WorkerTyped
  <2>2. box' = box /\ pc # "open"
    BY <1>14 DEF ClosePair, rest
  <2>4. CASE graceful /\ ~cli[Head(closing)].closed
    BY <1>14, <2>1, <2>2, <2>4, CmdNowaitMoves DEF ClosePair
  <2>5. CASE ~(graceful /\ ~cli[Head(closing)].closed)
    BY <1>14, <2>1, <2>2, <2>5, AbortMoves DEF ClosePair, Causes
  <2> QED
    BY <2>4, <2>5
<1>15. CASE LoggedOut
  <2>1. closing # <<>> /\ Head(closing) \in Conn
    BY <1>15 DEF LoggedOut, Typed, WorkerTyped
  <2> QED
    BY <1>15, <2>1, AbortMoves DEF LoggedOut, rest, Causes
<1>16. CASE Ended
  BY <1>16, <1>r DEF Ended, peer, client
<1> QED
  BY <1>1, <1>2, <1>3, <1>4, <1>5, <1>6, <1>7, <1>8, <1>9, <1>10, <1>11, <1>12, <1>13, <1>14,
     <1>15, <1>16 DEF Work

\* Every step is a move of each connection, and while the runner has not started
\* it stays so until both connections are open or have failed.
LEMMA Moves ==
  ASSUME Typed, [Next]_vars, NEW j \in Conn
  PROVE  Move(j)
<1>r. UNCHANGED <<cli, up, down, srv, box>> => Move(j)
  BY RestMove DEF Move
<1>1. CASE Work
  BY <1>1, WorkMoves
<1>2. ASSUME NEW m \in Msg, Drain(m)
      PROVE  Move(j)
  BY <1>2, <1>r DEF Drain, peer
<1>3. ASSUME NEW k \in Conn, Goroutines(k), UNCHANGED worker
      PROVE  Move(j)
  <2>1. CASE Open(k)
    BY <2>1, OpenMoves
  <2>2. CASE Reader(k)
    BY <2>2, ReaderMoves
  <2>3. CASE TellWaiters(k)
    BY <2>3, TellMoves
  <2>4. CASE Watchdog(k) \/ KickOne(k)
    <3>1. \E why \in Causes : Abort(k, why)
      BY <2>4 DEF Watchdog, KickOne, Causes
    <3>2. box' = box
      BY <2>4 DEF Watchdog, KickOne
    <3> QED
      BY <3>1, <3>2, AbortMoves
  <2> QED
    BY <1>3, <2>1, <2>2, <2>3, <2>4 DEF Goroutines, Opener
<1>4. CASE Time
  <2> DEFINE i == IF Watched(j) /\ cli[j].idle < 2 THEN cli[j].idle + 1 ELSE cli[j].idle
  <2>1. cli'[j] = [cli[j] EXCEPT !.idle = i] /\ UNCHANGED <<up, down, srv, box>>
    BY <1>4, TimeIs DEF Pass, peer
  <2> HIDE DEF i
  <2>2. SameVoice(j)
    BY <2>1, Local DEF SameVoice, Clients
  <2> QED
    BY <2>1, <2>2 DEF Move, Rests, SameWire, SameServer
<1>5. ASSUME NEW k \in Conn, Server(k)
      PROVE  Move(j)
  BY <1>5, ServerMoves
<1>6. ASSUME NEW m \in Msg, Vanish(m), UNCHANGED <<client, worker>>
      PROVE  Move(j)
  BY <1>6, <1>r DEF Vanish, client
<1>7. CASE Kick /\ UNCHANGED worker
  BY <1>7, <1>r DEF Kick
<1>8. CASE UNCHANGED vars
  BY <1>8, <1>r DEF vars, client, peer
<1> QED
  BY <1>1, <1>2, <1>3, <1>4, <1>5, <1>6, <1>7, <1>8 DEF Next, Process, Busy

-----------------------------------------------------------------------------
(* Sequences *)

LEMMA SeqTail ==
  ASSUME NEW S, NEW s \in Seq(S), s # <<>>
  PROVE  /\ Tail(s) \in Seq(S) /\ Len(Tail(s)) = Len(s) - 1 /\ Len(s) \in Nat \ {0}
         /\ DOMAIN Tail(s) = 1..(Len(s) - 1)
         /\ \A i \in 1..(Len(s) - 1) : Tail(s)[i] = s[i + 1]
         /\ Head(s) = s[1] /\ s[1] \in S
  OBVIOUS

LEMMA SeqAppend ==
  ASSUME NEW S, NEW s \in Seq(S), NEW x \in S
  PROVE  /\ Append(s, x) \in Seq(S) /\ Len(Append(s, x)) = Len(s) + 1 /\ Len(s) \in Nat
         /\ DOMAIN Append(s, x) = 1..(Len(s) + 1)
         /\ \A i \in 1..Len(s) : Append(s, x)[i] = s[i]
         /\ Append(s, x)[Len(s) + 1] = x
         /\ Append(s, x) # <<>>
  OBVIOUS

LEMMA SeqPrefix ==
  ASSUME NEW S, NEW s \in Seq(S), NEW n \in 0..Len(s)
  PROVE  /\ SubSeq(s, 1, n) \in Seq(S) /\ Len(SubSeq(s, 1, n)) = n
         /\ DOMAIN SubSeq(s, 1, n) = 1..n
         /\ \A i \in 1..n : SubSeq(s, 1, n)[i] = s[i]
<1>1. Len(s) \in Nat
  OBVIOUS
<1> QED
  BY <1>1

LEMMA SeqCat ==
  ASSUME NEW S, NEW s \in Seq(S), NEW t \in Seq(S)
  PROVE  /\ s \o t \in Seq(S) /\ Len(s \o t) = Len(s) + Len(t) /\ Len(s) \in Nat /\ Len(t) \in Nat
         /\ DOMAIN (s \o t) = 1..(Len(s) + Len(t))
         /\ \A i \in 1..Len(s) : (s \o t)[i] = s[i]
         /\ \A i \in 1..Len(t) : (s \o t)[Len(s) + i] = t[i]
         /\ \A i \in (Len(s) + 1)..(Len(s) + Len(t)) : (s \o t)[i] = t[i - Len(s)]
  OBVIOUS

LEMMA SeqEither ==
  ASSUME NEW S, NEW s \in Seq(S), NEW t \in Seq(S), NEW i \in DOMAIN (s \o t)
  PROVE  \/ i \in 1..Len(s) /\ (s \o t)[i] = s[i]
         \/ i - Len(s) \in 1..Len(t) /\ (s \o t)[i] = t[i - Len(s)]
<1>1. Len(s) \in Nat /\ Len(t) \in Nat
  OBVIOUS
<1>2. i \in 1..(Len(s) + Len(t))
  BY SeqCat
<1>3. CASE i \in 1..Len(s)
  BY <1>3, SeqCat
<1>4. CASE i \in (Len(s) + 1)..(Len(s) + Len(t))
  BY <1>1, <1>4, SeqCat
<1> QED
  BY <1>1, <1>2, <1>3, <1>4

LEMMA SeqDomain ==
  ASSUME NEW S, NEW s \in Seq(S)
  PROVE  /\ Len(s) \in Nat /\ DOMAIN s = 1..Len(s) /\ \A i \in 1..Len(s) : s[i] \in S
         /\ s # <<>> <=> Len(s) >= 1
  OBVIOUS

-----------------------------------------------------------------------------
(* What a server's step does to its connection *)

Sends(k, es) == down'[k] = (IF srv[k].peer THEN down[k] \o es ELSE down[k])
Reads(k) == srv[k].on /\ up[k] # <<>> /\ up'[k] = Tail(up[k])
Keeps(k) == srv'[k].peer = srv[k].peer

Lined(k) ==
  LET e == Head(up[k])
  IN /\ Reads(k) /\ Keeps(k) /\ srv[k].cmd = NoLine /\ e.verb # "APPEND"
     /\ Sends(k, Answer(k, e)) /\ box'[k] = box[k]
     /\ srv'[k].zip = (srv[k].zip \/ e.verb = "COMPRESS")
     /\ srv'[k].on = (e.verb # "LOGOUT")
     /\ srv'[k].cmd = srv[k].cmd /\ srv'[k].got = srv[k].got
Refused(k) ==
  LET e == Head(up[k])
  IN /\ Reads(k) /\ srv[k].cmd = NoLine /\ e.verb \in {"LOGIN", "COMPRESS"}
     /\ Sends(k, <<Reply("NO", e.tag, None, 0, srv[k].zip)>>) /\ SameServer(k)
Begins(k) ==
  LET e == Head(up[k])
  IN /\ Reads(k) /\ Keeps(k) /\ srv[k].cmd = NoLine /\ e.verb = "APPEND"
     /\ \/ Sends(k, <<Reply("+", 0, None, 0, srv[k].zip)>>)
        \/ down'[k] = down[k]
     /\ box'[k] = box[k]
     /\ srv'[k].zip = srv[k].zip /\ srv'[k].on = srv[k].on
     /\ srv'[k].cmd = e /\ srv'[k].got = <<>>
Fills(k) ==
  LET e == Head(up[k])
  IN /\ Reads(k) /\ Keeps(k) /\ srv[k].cmd # NoLine /\ Missing(k) > 0
     /\ down'[k] = down[k] /\ box'[k] = box[k]
     /\ srv'[k].zip = srv[k].zip /\ srv'[k].on = srv[k].on /\ srv'[k].cmd = srv[k].cmd
     /\ \/ e.verb = "DATA" /\ srv'[k].got = Append(srv[k].got, <<e.msg, e.part>>)
        \/ e.verb # "DATA" /\ Missing(k) = 1 /\ srv'[k].got = Append(srv[k].got, Stray)
        \/ e.verb # "DATA" /\ srv'[k].got = srv[k].got
Stores(k) ==
  /\ Reads(k) /\ Keeps(k) /\ srv[k].cmd # NoLine /\ Missing(k) = 0
  /\ box'[k] = Append(box[k], [row |-> srv[k].cmd.msg, body |-> srv[k].got])
  /\ \E n \in Nat : Sends(k, <<Reply("OK", srv[k].cmd.tag, None, n, srv[k].zip)>>)
  /\ srv'[k].zip = srv[k].zip /\ srv'[k].on = srv[k].on
  /\ srv'[k].cmd = NoLine /\ srv'[k].got = <<>>
Rejects(k) ==
  /\ Reads(k) /\ Keeps(k) /\ srv[k].cmd # NoLine /\ Missing(k) = 0
  /\ box'[k] = box[k]
  /\ Sends(k, <<Reply("NO", srv[k].cmd.tag, None, 0, srv[k].zip)>>)
  /\ srv'[k].zip = srv[k].zip /\ srv'[k].on = srv[k].on
  /\ srv'[k].cmd = NoLine /\ srv'[k].got = <<>>
Breaks(k) ==
  /\ srv[k].on /\ ~srv'[k].on /\ Keeps(k) /\ box'[k] = box[k] /\ up'[k] = up[k]
  /\ srv'[k].zip = srv[k].zip /\ srv'[k].cmd = srv[k].cmd /\ srv'[k].got = srv[k].got
  /\ \E n \in 0..Len(down[k]) : down'[k] = SubSeq(down[k], 1, n)
Hangs(k) ==
  /\ up'[k] = up[k] /\ down'[k] = down[k] /\ box'[k] = box[k] /\ Keeps(k)
  /\ srv'[k].on = srv[k].on
  /\ srv'[k].zip = srv[k].zip /\ srv'[k].cmd = srv[k].cmd /\ srv'[k].got = srv[k].got

LEMMA ServerCases ==
  ASSUME Typed, NEW k \in Conn, Serve(k) \/ Trouble(k)
  PROVE  Lined(k) \/ Refused(k) \/ Begins(k) \/ Fills(k) \/ Stores(k) \/ Rejects(k) \/ Breaks(k) \/ Hangs(k)
<1>0. srv[k] \in Servers /\ WireTyped /\ ServersTyped /\ BoxTyped
  BY Local DEF Typed
<1>a. \A es : Send(k, es)[k] = IF srv[k].peer THEN down[k] \o es ELSE down[k]
  BY <1>0 DEF Send, WireTyped
<1>b. \A s : [srv EXCEPT ![k] = s][k] = s /\ [up EXCEPT ![k] = s][k] = s /\ [box EXCEPT ![k] = s][k] = s
             /\ [down EXCEPT ![k] = s][k] = s
  BY <1>0 DEF WireTyped, ServersTyped, BoxTyped
<1>c. \A z, o, c, g :
        /\ LET s == [srv[k] EXCEPT !.zip = z, !.on = o]
           IN s.zip = z /\ s.on = o /\ s.cmd = srv[k].cmd /\ s.got = srv[k].got /\ s.peer = srv[k].peer
        /\ LET s == [srv[k] EXCEPT !.cmd = c, !.got = g]
           IN s.zip = srv[k].zip /\ s.on = srv[k].on /\ s.cmd = c /\ s.got = g /\ s.peer = srv[k].peer
        /\ LET s == [srv[k] EXCEPT !.got = g]
           IN s.zip = srv[k].zip /\ s.on = srv[k].on /\ s.cmd = srv[k].cmd /\ s.got = g /\ s.peer = srv[k].peer
        /\ LET s == [srv[k] EXCEPT !.on = o]
           IN s.zip = srv[k].zip /\ s.on = o /\ s.cmd = srv[k].cmd /\ s.got = srv[k].got /\ s.peer = srv[k].peer
        /\ LET s == [srv[k] EXCEPT !.hung = o]
           IN s.zip = srv[k].zip /\ s.on = srv[k].on /\ s.cmd = srv[k].cmd /\ s.got = srv[k].got /\ s.peer = srv[k].peer
  BY <1>0 DEF Servers
<1>1. CASE ServeLine(k)
  <2> DEFINE e == Head(up[k])
             z == srv[k].zip \/ e.verb = "COMPRESS"
             o == e.verb # "LOGOUT"
  <2>1. srv' = [srv EXCEPT ![k] = [srv[k] EXCEPT !.zip = z, !.on = o]]
    BY <1>1, <1>0 DEF ServeLine, ServersTyped
  <2>2. /\ srv[k].on /\ up[k] # <<>> /\ srv[k].cmd = NoLine /\ e.verb # "APPEND"
        /\ down' = Send(k, Answer(k, e)) /\ up' = [up EXCEPT ![k] = Tail(up[k])] /\ box' = box
    BY <1>1 DEF ServeLine, Reading
  <2>3. /\ srv'[k].zip = z /\ srv'[k].on = o /\ srv'[k].cmd = srv[k].cmd /\ srv'[k].got = srv[k].got
        /\ srv'[k].peer = srv[k].peer
    BY <2>1, <1>b, <1>c
  <2>4. down'[k] = (IF srv[k].peer THEN down[k] \o Answer(k, e) ELSE down[k]) /\ up'[k] = Tail(up[k])
    BY <2>2, <1>a, <1>b
  <2> QED
    BY <2>2, <2>3, <2>4 DEF Lined, Reads, Keeps, Sends
<1>2. CASE RefuseLine(k)
  BY <1>2, <1>a, <1>b DEF RefuseLine, Reading, Refused, Reads, Sends, SameServer
<1>3. CASE ServeAppend(k)
  <2> DEFINE e == Head(up[k])
             es == IF e.sync THEN <<Reply("+", 0, None, 0, srv[k].zip)>> ELSE <<>>
  <2>1. srv' = [srv EXCEPT ![k] = [srv[k] EXCEPT !.cmd = e, !.got = <<>>]]
    BY <1>3, <1>0 DEF ServeAppend, ServersTyped
  <2>2. /\ srv[k].on /\ up[k] # <<>> /\ srv[k].cmd = NoLine /\ e.verb = "APPEND"
        /\ down' = Send(k, es) /\ up' = [up EXCEPT ![k] = Tail(up[k])] /\ box' = box
    BY <1>3 DEF ServeAppend, Reading
  <2>3. /\ srv'[k].zip = srv[k].zip /\ srv'[k].on = srv[k].on /\ srv'[k].cmd = e /\ srv'[k].got = <<>>
        /\ srv'[k].peer = srv[k].peer
    <3> HIDE DEF e
    <3> DEFINE s == [srv[k] EXCEPT !.cmd = e, !.got = <<>>]
    <3>1. srv'[k] = s
      BY <2>1, <1>b
    <3>2. s.zip = srv[k].zip /\ s.on = srv[k].on /\ s.cmd = e /\ s.got = <<>> /\ s.peer = srv[k].peer
      BY <1>0 DEF Servers
    <3> QED
      BY <3>1, <3>2
  <2>4. down'[k] = (IF srv[k].peer THEN down[k] \o es ELSE down[k]) /\ up'[k] = Tail(up[k])
    BY <2>2, <1>a, <1>b
  <2>5. down[k] \o <<>> = down[k]
    BY Local
  <2>6. \/ Sends(k, <<Reply("+", 0, None, 0, srv[k].zip)>>)
        \/ down'[k] = down[k]
    BY <2>4, <2>5 DEF Sends
  <2> QED
    BY <2>2, <2>3, <2>4, <2>6 DEF Begins, Reads, Keeps
<1>4. CASE ServeLiteral(k)
  <2> DEFINE e == Head(up[k])
             x == IF e.verb = "DATA" THEN <<e.msg, e.part>> ELSE Stray
             g == Append(srv[k].got, x)
  <2>1. /\ e.verb = "DATA" \/ Missing(k) = 1 => srv' = [srv EXCEPT ![k] = [srv[k] EXCEPT !.got = g]] \/ (srv' = srv /\ e.verb # "DATA")
        /\ ~(e.verb = "DATA" \/ Missing(k) = 1) => srv' = srv
    BY <1>4, <1>0 DEF ServeLiteral, ServersTyped
  <2>2. /\ srv[k].on /\ up[k] # <<>> /\ srv[k].cmd # NoLine /\ Missing(k) > 0
        /\ down' = down /\ up' = [up EXCEPT ![k] = Tail(up[k])] /\ box' = box
    BY <1>4 DEF ServeLiteral, Reading
  <2>4. up'[k] = Tail(up[k])
    BY <2>2, <1>b
  <2>5. CASE srv' = [srv EXCEPT ![k] = [srv[k] EXCEPT !.got = g]] /\ (e.verb = "DATA" \/ Missing(k) = 1)
    <3>1. /\ srv'[k].zip = srv[k].zip /\ srv'[k].on = srv[k].on /\ srv'[k].cmd = srv[k].cmd /\ srv'[k].got = g
          /\ srv'[k].peer = srv[k].peer
      <4> HIDE DEF g
      <4> DEFINE s == [srv[k] EXCEPT !.got = g]
      <4>1. srv'[k] = s
        BY <2>5, <1>b
      <4>2. s.zip = srv[k].zip /\ s.on = srv[k].on /\ s.cmd = srv[k].cmd /\ s.got = g /\ s.peer = srv[k].peer
        BY <1>0 DEF Servers
      <4> QED
        BY <4>1, <4>2
    <3> QED
      BY <2>2, <2>4, <2>5, <3>1 DEF Fills, Reads, Keeps
  <2>6. CASE srv' = srv /\ e.verb # "DATA"
    BY <2>2, <2>4, <2>6 DEF Fills, Reads, Keeps
  <2> QED
    BY <2>1, <2>5, <2>6
<1>5. CASE ServeBody(k)
  <2> DEFINE es == <<Reply("OK", srv[k].cmd.tag, None, Len(box'[k]), srv[k].zip)>>
             b == Append(box[k], [row |-> srv[k].cmd.msg, body |-> srv[k].got])
  <2>1. srv' = [srv EXCEPT ![k] = [srv[k] EXCEPT !.cmd = NoLine, !.got = <<>>]]
    BY <1>5, <1>0 DEF ServeBody, ServersTyped
  <2>2. /\ srv[k].on /\ up[k] # <<>> /\ srv[k].cmd # NoLine /\ Missing(k) = 0
        /\ down' = Send(k, es) /\ up' = [up EXCEPT ![k] = Tail(up[k])] /\ box' = [box EXCEPT ![k] = b]
    BY <1>5 DEF ServeBody, Reading
  <2>3. /\ srv'[k].zip = srv[k].zip /\ srv'[k].on = srv[k].on /\ srv'[k].cmd = NoLine /\ srv'[k].got = <<>>
        /\ srv'[k].peer = srv[k].peer
    BY <2>1, <1>b, <1>c
  <2>4. down'[k] = (IF srv[k].peer THEN down[k] \o es ELSE down[k]) /\ up'[k] = Tail(up[k]) /\ box'[k] = b
    BY <2>2, <1>a, <1>b
  <2>5. Len(box'[k]) \in Nat
    <3>1. [row |-> srv[k].cmd.msg, body |-> srv[k].got] \in [row : Msg \union {None}, body : Seq(Chunks)]
      BY <1>0 DEF Servers, Lines
    <3>2. b \in Seq([row : Msg \union {None}, body : Seq(Chunks)])
      <4>1. box[k] \in Seq([row : Msg \union {None}, body : Seq(Chunks)])
        BY <1>0 DEF BoxTyped
      <4> QED
        BY <3>1, <4>1
    <3>3. Len(b) \in Nat
      BY <3>2
    <3> QED
      BY <2>4, <3>3
  <2>6. \E n \in Nat : Sends(k, <<Reply("OK", srv[k].cmd.tag, None, n, srv[k].zip)>>)
    BY <2>4, <2>5 DEF Sends
  <2> QED
    BY <2>2, <2>3, <2>4, <2>6 DEF Stores, Reads, Keeps
<1>6. CASE RefuseBody(k)
  <2> DEFINE es == <<Reply("NO", srv[k].cmd.tag, None, 0, srv[k].zip)>>
  <2>1. srv' = [srv EXCEPT ![k] = [srv[k] EXCEPT !.cmd = NoLine, !.got = <<>>]]
    BY <1>6, <1>0 DEF RefuseBody, ServersTyped
  <2>2. /\ srv[k].on /\ up[k] # <<>> /\ srv[k].cmd # NoLine /\ Missing(k) = 0
        /\ down' = Send(k, es) /\ up' = [up EXCEPT ![k] = Tail(up[k])] /\ box' = box
    BY <1>6 DEF RefuseBody, Reading
  <2>3. /\ srv'[k].zip = srv[k].zip /\ srv'[k].on = srv[k].on /\ srv'[k].cmd = NoLine /\ srv'[k].got = <<>>
        /\ srv'[k].peer = srv[k].peer
    BY <2>1, <1>b, <1>c
  <2>4. down'[k] = (IF srv[k].peer THEN down[k] \o es ELSE down[k]) /\ up'[k] = Tail(up[k])
    BY <2>2, <1>a, <1>b
  <2> QED
    BY <2>2, <2>3, <2>4 DEF Rejects, Reads, Keeps, Sends
<1>7. CASE Cut(k)
  <2>1. srv' = [srv EXCEPT ![k] = [srv[k] EXCEPT !.on = FALSE]] /\ srv[k].on /\ UNCHANGED <<up, box>>
    BY <1>7, <1>0 DEF Cut, ServersTyped
  <2>2. PICK n \in 0..Len(down[k]) : down' = [down EXCEPT ![k] = SubSeq(down[k], 1, n)]
    BY <1>7 DEF Cut
  <2>3. down'[k] = SubSeq(down[k], 1, n)
    BY <2>2, <1>b
  <2>4. /\ srv'[k].zip = srv[k].zip /\ ~srv'[k].on /\ srv'[k].cmd = srv[k].cmd /\ srv'[k].got = srv[k].got
        /\ srv'[k].peer = srv[k].peer
    BY <2>1, <1>b, <1>c
  <2> QED
    BY <2>1, <2>2, <2>3, <2>4 DEF Breaks, Keeps
<1>8. CASE Stall(k)
  <2>1. srv' = [srv EXCEPT ![k] = [srv[k] EXCEPT !.hung = TRUE]] /\ UNCHANGED <<up, down, box>>
    BY <1>8, <1>0 DEF Stall, ServersTyped
  <2>4. /\ srv'[k].zip = srv[k].zip /\ srv'[k].on = srv[k].on /\ srv'[k].cmd = srv[k].cmd /\ srv'[k].got = srv[k].got
        /\ srv'[k].peer = srv[k].peer
    BY <2>1, <1>b, <1>c
  <2> QED
    BY <2>1, <2>4 DEF Hangs, Keeps
<1> QED
  BY <1>1, <1>2, <1>3, <1>4, <1>5, <1>6, <1>7, <1>8 DEF Serve, Trouble

Untagged(s, z) == \A i \in 1..Len(s) : s[i].tag = 0 /\ s[i].kind \notin {"OK", "NO"} /\ s[i].z = z
LEMMA UntaggedCat ==
  ASSUME NEW z, NEW s \in Seq(Replies), NEW t \in Seq(Replies), Untagged(s, z), Untagged(t, z)
  PROVE  s \o t \in Seq(Replies) /\ Untagged(s \o t, z)
<1>1. s \o t \in Seq(Replies) /\ DOMAIN (s \o t) = 1..Len(s \o t)
  BY SeqCat
<1>2. ASSUME NEW i \in 1..Len(s \o t)
      PROVE  (s \o t)[i].tag = 0 /\ (s \o t)[i].kind \notin {"OK", "NO"} /\ (s \o t)[i].z = z
  <2>1. \/ i \in 1..Len(s) /\ (s \o t)[i] = s[i]
        \/ i - Len(s) \in 1..Len(t) /\ (s \o t)[i] = t[i - Len(s)]
    BY <1>1, SeqEither
  <2> QED
    BY <2>1 DEF Untagged
<1> QED
  BY <1>1, <1>2 DEF Untagged

\* What a command is answered with: untagged data, and then OK.
LEMMA AnswerIs ==
  ASSUME Typed, NEW k \in Conn, NEW e \in Lines
  PROVE  LET a == Answer(k, e)
         IN /\ a \in Seq(Replies) /\ Len(a) \in Nat \ {0} /\ DOMAIN a = 1..Len(a)
            /\ a[Len(a)] = Reply("OK", e.tag, None, 0, srv[k].zip)
            /\ \A i \in 1..(Len(a) - 1) : a[i].tag = 0 /\ a[i].kind \notin {"OK", "NO"}
            /\ \A i \in 1..Len(a) : a[i].z = srv[k].zip
<1> DEFINE z == srv[k].zip
           ok == Reply("OK", e.tag, None, 0, z)
           Ok == <<ok>>
           Said(kind) == <<Reply(kind, 0, None, 0, z)>>
           Chs == [i \in 1..Size[e.msg] |-> Reply("CHUNK", 0, e.msg, i, z)]
           B == <<Reply("BODY", 0, e.msg, Size[e.msg], z)>>
<1>1. z \in BOOLEAN /\ e.tag \in Nat /\ e.msg \in Msg \union {None}
  BY Local DEF Lines
<1>2. ok \in Replies /\ ok.z = z
  BY <1>1 DEF Replies, Reply, Kinds
<1>3. \A kind \in Kinds \ {"OK", "NO"} : Said(kind) \in Seq(Replies) /\ Untagged(Said(kind), z)
  <2> SUFFICES ASSUME NEW kind \in Kinds \ {"OK", "NO"} PROVE Said(kind) \in Seq(Replies) /\ Untagged(Said(kind), z)
    OBVIOUS
  <2>1. Reply(kind, 0, None, 0, z) \in Replies
    BY <1>1 DEF Replies, Reply
  <2> QED
    BY <2>1 DEF Reply, Untagged
<1>4. e.msg \in Msg => B \o Chs \in Seq(Replies) /\ Untagged(B \o Chs, z)
  <2> SUFFICES ASSUME e.msg \in Msg
               PROVE  B \o Chs \in Seq(Replies) /\ Untagged(B \o Chs, z)
    OBVIOUS
  <2>1. Size[e.msg] \in Nat
    BY Constants
  <2>2. \A i \in 1..Size[e.msg] : Reply("CHUNK", 0, e.msg, i, z) \in Replies
    BY <1>1, <2>1 DEF Replies, Reply, Kinds
  <2>3. Reply("BODY", 0, e.msg, Size[e.msg], z) \in Replies
    BY <1>1, <2>1 DEF Replies, Reply, Kinds
  <2>4. B \in Seq(Replies) /\ Len(B) = 1 /\ Untagged(B, z)
    BY <2>3 DEF Reply, Untagged
  <2>5. Chs \in Seq(Replies) /\ Len(Chs) = Size[e.msg] /\ Untagged(Chs, z)
    BY <2>1, <2>2 DEF Reply, Untagged
  <2> HIDE DEF B, Chs
  <2> QED
    BY <2>4, <2>5, UntaggedCat
<1>5. \/ Answer(k, e) = Ok
      \/ \E s \in Seq(Replies) : Untagged(s, z) /\ Answer(k, e) = s \o Ok
  <2>1. \/ Answer(k, e) = Ok
        \/ Answer(k, e) = Said("CAPABILITY") \o Ok
        \/ Answer(k, e) = Said("UIDVALIDITY") \o Ok
        \/ Answer(k, e) = Said("BYE") \o Ok
        \/ e.msg \in here /\ Answer(k, e) = (B \o Chs) \o Ok
    BY DEF Answer
  <2>2. here \subseteq Msg
    BY DEF Typed, WorkerTyped
  <2> HIDE DEF Ok, Said, B, Chs
  <2>3. {"CAPABILITY", "UIDVALIDITY", "BYE"} \subseteq Kinds \ {"OK", "NO"}
    BY DEF Kinds
  <2> QED
    BY <1>3, <1>4, <2>1, <2>2, <2>3
<1> HIDE DEF ok
<1>6. CASE Answer(k, e) = Ok
  BY <1>2, <1>6 DEF ok
<1>7. ASSUME NEW s \in Seq(Replies), Untagged(s, z), Answer(k, e) = s \o Ok
      PROVE  /\ Answer(k, e) \in Seq(Replies) /\ Len(Answer(k, e)) = Len(s) + 1 /\ Len(s) \in Nat
             /\ Answer(k, e)[Len(s) + 1] = ok
             /\ \A i \in 1..Len(s) : Answer(k, e)[i] = s[i]
  BY <1>2, <1>7
<1>8. ASSUME NEW s \in Seq(Replies), Untagged(s, z), Answer(k, e) = s \o Ok
      PROVE  LET a == Answer(k, e)
         IN /\ a \in Seq(Replies) /\ Len(a) \in Nat \ {0} /\ DOMAIN a = 1..Len(a)
            /\ a[Len(a)] = ok
            /\ \A i \in 1..(Len(a) - 1) : a[i].tag = 0 /\ a[i].kind \notin {"OK", "NO"}
            /\ \A i \in 1..Len(a) : a[i].z = srv[k].zip
  <2> DEFINE a == Answer(k, e)
  <2>1. /\ a \in Seq(Replies) /\ Len(a) = Len(s) + 1 /\ Len(s) \in Nat /\ a[Len(s) + 1] = ok
        /\ \A i \in 1..Len(s) : a[i] = s[i]
    BY <1>7, <1>8
  <2>2. \A i \in 1..Len(s) : a[i].tag = 0 /\ a[i].kind \notin {"OK", "NO"} /\ a[i].z = z
    BY <1>8, <2>1 DEF Untagged
  <2> HIDE DEF a
  <2>3. \A i \in 1..Len(a) : i \in 1..Len(s) \/ i = Len(s) + 1
    BY <2>1
  <2>4. /\ Len(a) \in Nat \ {0} /\ DOMAIN a = 1..Len(a)
        /\ a[Len(a)] = ok
        /\ \A i \in 1..(Len(a) - 1) : a[i].tag = 0 /\ a[i].kind \notin {"OK", "NO"}
        /\ \A i \in 1..Len(a) : a[i].z = srv[k].zip
    BY <1>2, <2>1, <2>2, <2>3
  <2> QED
    BY <2>1, <2>4 DEF a
<1> QED
  BY <1>5, <1>6, <1>8 DEF ok

-----------------------------------------------------------------------------
(* What tags and codings become as a queue moves *)

LEMMA UpTail ==
  ASSUME NEW u \in Seq(Lines), u # <<>>, NEW n \in Nat, UpTags(u, n), UpOrder(u)
  PROVE  /\ UpTags(Tail(u), n) /\ UpOrder(Tail(u))
         /\ Head(u).tag # 0 => After(Head(u).tag, Tail(u))
         /\ Head(u).verb \notin Parts => Head(u).tag \in 1..n
<1>1. /\ DOMAIN Tail(u) = 1..(Len(u) - 1) /\ Len(u) \in Nat \ {0} /\ DOMAIN u = 1..Len(u)
      /\ \A i \in 1..(Len(u) - 1) : Tail(u)[i] = u[i + 1]
      /\ Head(u) = u[1]
  BY SeqTail
<1>2. UpTags(Tail(u), n)
  BY <1>1 DEF UpTags
<1>3. UpOrder(Tail(u))
  BY <1>1 DEF UpOrder
<1> QED
  BY <1>1, <1>2, <1>3 DEF UpTags, UpOrder, After

LEMMA UpAppend ==
  ASSUME NEW u \in Seq(Lines), NEW n \in Nat, UpTags(u, n), UpOrder(u), NEW e \in Lines
  PROVE  /\ e.verb \in Parts /\ e.tag = 0 => UpTags(Append(u, e), n) /\ UpOrder(Append(u, e))
         /\ e.verb \notin Parts /\ e.tag = n + 1 => UpTags(Append(u, e), n + 1) /\ UpOrder(Append(u, e))
<1> DEFINE v == Append(u, e)
<1>1. /\ Len(u) \in Nat /\ DOMAIN v = 1..(Len(u) + 1) /\ DOMAIN u = 1..Len(u)
      /\ \A i \in 1..Len(u) : v[i] = u[i]
      /\ v[Len(u) + 1] = e
  BY SeqAppend
<1> HIDE DEF v
<1>2. \A i \in 1..Len(u) : u[i].tag \in Nat /\ u[i].tag <= n
  BY <1>1 DEF UpTags, Lines
<1>3. CASE e.verb \in Parts /\ e.tag = 0
  BY <1>1, <1>3 DEF UpTags, UpOrder, v
<1>4. CASE e.verb \notin Parts /\ e.tag = n + 1
  <2>1. UpTags(v, n + 1)
    BY <1>1, <1>4 DEF UpTags
  <2>2. UpOrder(v)
    <3> SUFFICES ASSUME NEW i \in DOMAIN v, NEW j \in DOMAIN v, i < j, v[j].tag # 0
                 PROVE  v[i].tag < v[j].tag
      BY DEF UpOrder
    <3> QED
      BY <1>1, <1>2, <1>4 DEF UpOrder
  <2> QED
    BY <1>4, <2>1, <2>2 DEF v, Parts
<1> QED
  BY <1>3, <1>4

LEMMA UpPrefix ==
  ASSUME NEW u \in Seq(Lines), NEW n \in Nat, UpTags(u, n), UpOrder(u), NEW l \in 0..Len(u)
  PROVE  UpTags(SubSeq(u, 1, l), n) /\ UpOrder(SubSeq(u, 1, l))
<1>1. /\ DOMAIN SubSeq(u, 1, l) = 1..l /\ DOMAIN u = 1..Len(u) /\ Len(u) \in Nat
      /\ \A i \in 1..l : SubSeq(u, 1, l)[i] = u[i]
  BY SeqPrefix, SeqDomain
<1> QED
  BY <1>1 DEF UpTags, UpOrder

LEMMA CmdMoves ==
  ASSUME NEW c \in Lines, NEW u \in Seq(Lines), NEW n \in Nat, CmdTags(c, u, n)
  PROVE  /\ CmdTags(c, u, n + 1)
         /\ u # <<>> => CmdTags(c, Tail(u), n)
         /\ \A l \in 0..Len(u) : CmdTags(c, SubSeq(u, 1, l), n)
         /\ \A e \in Lines : e.tag = 0 => CmdTags(c, Append(u, e), n)
         /\ \A e \in Lines : e.tag = n + 1 => CmdTags(c, Append(u, e), n + 1)
<1>1. CmdTags(c, u, n + 1)
  BY DEF CmdTags
<1>2. u # <<>> => CmdTags(c, Tail(u), n)
  BY SeqTail, SeqDomain DEF CmdTags, After
<1>3. \A l \in 0..Len(u) : CmdTags(c, SubSeq(u, 1, l), n)
  <2> SUFFICES ASSUME NEW l \in 0..Len(u)
               PROVE  CmdTags(c, SubSeq(u, 1, l), n)
    OBVIOUS
  <2>1. /\ DOMAIN SubSeq(u, 1, l) = 1..l /\ DOMAIN u = 1..Len(u) /\ Len(u) \in Nat
        /\ \A i \in 1..l : SubSeq(u, 1, l)[i] = u[i]
    BY SeqPrefix, SeqDomain
  <2> QED
    BY <2>1 DEF CmdTags, After
<1>4. ASSUME NEW e \in Lines
      PROVE  /\ e.tag = 0 => CmdTags(c, Append(u, e), n)
             /\ e.tag = n + 1 => CmdTags(c, Append(u, e), n + 1)
  <2> DEFINE v == Append(u, e)
  <2>1. /\ Len(u) \in Nat /\ DOMAIN v = 1..(Len(u) + 1) /\ DOMAIN u = 1..Len(u)
        /\ \A i \in 1..Len(u) : v[i] = u[i]
        /\ v[Len(u) + 1] = e
    BY SeqAppend
  <2> HIDE DEF v
  <2>2. \A i \in DOMAIN v : (i \in DOMAIN u /\ v[i] = u[i]) \/ v[i] = e
    BY <2>1
  <2>3. CASE c = NoLine
    BY <2>3 DEF CmdTags
  <2>4. CASE c # NoLine
    <3>1. c.verb = "APPEND" /\ c.tag \in 1..n /\ After(c.tag, u)
      BY <2>4 DEF CmdTags
    <3>2. e.tag = 0 \/ e.tag = n + 1 => After(c.tag, v)
      BY <2>2, <3>1 DEF After
    <3> QED
      BY <3>1, <3>2 DEF CmdTags, v
  <2> QED
    BY <2>3, <2>4
<1> QED
  BY <1>1, <1>2, <1>3, <1>4

LEMMA DownMoves ==
  ASSUME NEW d \in Seq(Replies), NEW n \in Nat, DownTags(d, n)
  PROVE  /\ DownTags(d, n + 1)
         /\ d # <<>> => DownTags(Tail(d), n)
         /\ \A l \in 0..Len(d) : DownTags(SubSeq(d, 1, l), n)
         /\ \A a \in Seq(Replies) : DownTags(a, n) => DownTags(d \o a, n)
<1>1. DownTags(d, n + 1)
  BY DEF DownTags
<1>2. d # <<>> => DownTags(Tail(d), n)
  BY SeqTail, SeqDomain DEF DownTags
<1>3. \A l \in 0..Len(d) : DownTags(SubSeq(d, 1, l), n)
  <2> SUFFICES ASSUME NEW l \in 0..Len(d)
               PROVE  DownTags(SubSeq(d, 1, l), n)
    OBVIOUS
  <2>1. /\ DOMAIN SubSeq(d, 1, l) = 1..l /\ DOMAIN d = 1..Len(d) /\ Len(d) \in Nat
        /\ \A i \in 1..l : SubSeq(d, 1, l)[i] = d[i]
    BY SeqPrefix, SeqDomain
  <2> QED
    BY <2>1 DEF DownTags
<1>4. ASSUME NEW a \in Seq(Replies), DownTags(a, n)
      PROVE  DownTags(d \o a, n)
  <2>1. DOMAIN a = 1..Len(a) /\ DOMAIN d = 1..Len(d)
    OBVIOUS
  <2> SUFFICES ASSUME NEW i \in DOMAIN (d \o a)
               PROVE  (d \o a)[i].tag \in 0..n
    BY DEF DownTags
  <2>2. \/ i \in 1..Len(d) /\ (d \o a)[i] = d[i]
        \/ i - Len(d) \in 1..Len(a) /\ (d \o a)[i] = a[i - Len(d)]
    BY SeqEither
  <2> QED
    BY <1>4, <2>1, <2>2 DEF DownTags
<1> QED
  BY <1>1, <1>2, <1>3, <1>4

LEMMA Coding1 ==
  ASSUME NEW z
  PROVE  /\ \A S : \A s \in Seq(S) : s # <<>> /\ Coded(s, z) => Coded(Tail(s), z) /\ Head(s).z = z
         /\ \A S : \A s \in Seq(S) : \A l \in 0..Len(s) : Coded(s, z) => Coded(SubSeq(s, 1, l), z)
         /\ \A S : \A s \in Seq(S) : \A x \in S : Coded(s, z) /\ x.z = z => Coded(Append(s, x), z)
         /\ \A S : \A s, t \in Seq(S) : Coded(s, z) /\ Coded(t, z) => Coded(s \o t, z)
<1>1. ASSUME NEW S, NEW s \in Seq(S), s # <<>>, Coded(s, z)
      PROVE  Coded(Tail(s), z) /\ Head(s).z = z
  BY <1>1, SeqTail, SeqDomain DEF Coded
<1>2. ASSUME NEW S, NEW s \in Seq(S), NEW l \in 0..Len(s), Coded(s, z)
      PROVE  Coded(SubSeq(s, 1, l), z)
  <2>1. /\ DOMAIN SubSeq(s, 1, l) = 1..l /\ DOMAIN s = 1..Len(s) /\ Len(s) \in Nat
        /\ \A i \in 1..l : SubSeq(s, 1, l)[i] = s[i]
    BY SeqPrefix, SeqDomain
  <2> QED
    BY <1>2, <2>1 DEF Coded
<1>3. ASSUME NEW S, NEW s \in Seq(S), NEW x \in S, Coded(s, z), x.z = z
      PROVE  Coded(Append(s, x), z)
  <2> DEFINE v == Append(s, x)
  <2>1. /\ Len(s) \in Nat /\ DOMAIN v = 1..(Len(s) + 1) /\ DOMAIN s = 1..Len(s)
        /\ \A i \in 1..Len(s) : v[i] = s[i]
        /\ v[Len(s) + 1] = x
    BY SeqAppend
  <2> HIDE DEF v
  <2>2. Coded(v, z)
    BY <1>3, <2>1 DEF Coded
  <2> QED
    BY <2>2 DEF v
<1>4. ASSUME NEW S, NEW s \in Seq(S), NEW t \in Seq(S), Coded(s, z), Coded(t, z)
      PROVE  Coded(s \o t, z)
  <2>1. DOMAIN s = 1..Len(s) /\ DOMAIN t = 1..Len(t)
    OBVIOUS
  <2> SUFFICES ASSUME NEW i \in DOMAIN (s \o t)
               PROVE  (s \o t)[i].z = z
    BY DEF Coded
  <2>2. \/ i \in 1..Len(s) /\ (s \o t)[i] = s[i]
        \/ i - Len(s) \in 1..Len(t) /\ (s \o t)[i] = t[i - Len(s)]
    BY SeqEither
  <2> QED
    BY <1>4, <2>1, <2>2 DEF Coded
<1> QED
  BY <1>1, <1>2, <1>3, <1>4

LEMMA TailLast ==
  ASSUME NEW S, NEW s \in Seq(S), s # <<>>, Len(s) # 1
  PROVE  Tail(s) # <<>> /\ Tail(s)[Len(Tail(s))] = s[Len(s)]
<1>1. /\ Len(s) \in Nat \ {0} /\ Len(Tail(s)) = Len(s) - 1
      /\ \A i \in 1..(Len(s) - 1) : Tail(s)[i] = s[i + 1]
  BY SeqTail
<1>2. Len(s) - 1 \in 1..(Len(s) - 1) /\ (Len(s) - 1) + 1 = Len(s)
  BY <1>1
<1>3. Tail(s)[Len(s) - 1] = s[Len(s)]
  BY <1>1, <1>2
<1>4. Len(Tail(s)) # 0
  BY <1>1, <1>2
<1>5. Tail(s) # <<>>
  <2>1. Tail(s) \in Seq(S) /\ Len(Tail(s)) >= 1
    BY <1>1, <1>4, SeqTail
  <2> QED
    BY <2>1, SeqDomain
<1>6. Len(Tail(s)) = Len(s) - 1
  BY <1>1
<1> QED
  BY <1>3, <1>5, <1>6

LEMMA CodedUp ==
  ASSUME NEW u \in Seq(Lines), NEW z, Coded(u, z)
  PROVE  /\ u # <<>> => Coded(Tail(u), z) /\ Head(u).z = z
         /\ \A l \in 0..Len(u) : Coded(SubSeq(u, 1, l), z)
         /\ \A e \in Lines : e.z = z => Coded(Append(u, e), z)
<1>1. u # <<>> => Coded(Tail(u), z) /\ Head(u).z = z
  BY Coding1
<1>2. \A l \in 0..Len(u) : Coded(SubSeq(u, 1, l), z)
  BY Coding1
<1>3. \A e \in Lines : e.z = z => Coded(Append(u, e), z)
  BY Coding1
<1> QED
  BY <1>1, <1>2, <1>3

LEMMA CodedDown ==
  ASSUME NEW d \in Seq(Replies), NEW z, Coded(d, z)
  PROVE  /\ d # <<>> => Coded(Tail(d), z) /\ Head(d).z = z
         /\ \A l \in 0..Len(d) : Coded(SubSeq(d, 1, l), z)
         /\ \A a \in Seq(Replies) : Coded(a, z) => Coded(d \o a, z)
<1>1. d # <<>> => Coded(Tail(d), z) /\ Head(d).z = z
  BY Coding1
<1>2. \A l \in 0..Len(d) : Coded(SubSeq(d, 1, l), z)
  BY Coding1
<1>3. \A a \in Seq(Replies) : Coded(a, z) => Coded(d \o a, z)
  BY Coding1
<1> QED
  BY <1>1, <1>2, <1>3

-----------------------------------------------------------------------------
(* What the server answers, and the tags on a connection *)

\* What answers a line has its tag, or none.
LEMMA AnswerTags ==
  ASSUME Typed, NEW k \in Conn, NEW e \in Lines, NEW n \in Nat, e.tag \in 0..n
  PROVE  /\ Answer(k, e) \in Seq(Replies) /\ DownTags(Answer(k, e), n)
         /\ Coded(Answer(k, e), srv[k].zip)
<1> DEFINE a == Answer(k, e)
<1>1. /\ a \in Seq(Replies) /\ Len(a) \in Nat \ {0} /\ DOMAIN a = 1..Len(a)
      /\ a[Len(a)] = Reply("OK", e.tag, None, 0, srv[k].zip)
      /\ \A i \in 1..(Len(a) - 1) : a[i].tag = 0
      /\ \A i \in 1..Len(a) : a[i].z = srv[k].zip
  BY AnswerIs
<1> HIDE DEF a
<1>a. Len(a) \in Nat \ {0}
  BY <1>1
<1>2. \A i \in 1..Len(a) : i \in 1..(Len(a) - 1) \/ i = Len(a)
  BY <1>a
<1>3. a[Len(a)].tag = e.tag
  BY <1>1 DEF Reply
<1>4. DownTags(a, n)
  BY <1>1, <1>2, <1>3 DEF DownTags
<1>5. Coded(a, srv[k].zip)
  BY <1>1 DEF Coded
<1> QED
  BY <1>1, <1>4, <1>5 DEF a

LEMMA ReplyTags ==
  ASSUME Typed, NEW k \in Conn, NEW kind \in Kinds, NEW t \in Nat, NEW i \in Int, NEW n \in Nat, t \in 0..n
  PROVE  LET a == <<Reply(kind, t, None, i, srv[k].zip)>>
         IN a \in Seq(Replies) /\ DownTags(a, n) /\ Coded(a, srv[k].zip)
<1>1. Reply(kind, t, None, i, srv[k].zip) \in Replies
  BY Local DEF Reply, Replies
<1> QED
  BY <1>1 DEF DownTags, Coded, Reply

\* What a server's step does to the queues.
LEMMA ServedTags ==
  ASSUME Typed, Typed', NEW k \in Conn, TagsFresh(k), Serves(k)
  PROVE  TagsFresh(k)'
<1> DEFINE n == LastTag(k)
           u == up[k]
           e == Head(up[k])
<1>0. /\ up[k] \in Seq(Lines) /\ down[k] \in Seq(Replies) /\ n \in Nat /\ srv[k].cmd \in Lines
      /\ srv[k].zip \in BOOLEAN
  BY Local
<1>1. LastTag(k)' = n /\ cli'[k].pend = cli[k].pend
  BY DEF Serves, SameVoice, LastTag
<1>2. /\ UpTags(u, n) /\ UpOrder(u) /\ DownTags(down[k], n)
      /\ WaitTags(cli[k].pend, n)
      /\ CmdTags(srv[k].cmd, u, n)
  BY DEF TagsFresh
<1>3. SUFFICES /\ UpTags(up'[k], n) /\ UpOrder(up'[k])
               /\ DownTags(down'[k], n)
               /\ CmdTags(srv'[k].cmd, up'[k], n)
  BY <1>1, <1>2 DEF TagsFresh
<1>4. \A es \in Seq(Replies) : Sends(k, es) /\ DownTags(es, n) => DownTags(down'[k], n)
  BY <1>0, <1>2, DownMoves DEF Sends
<1>5. Reads(k) => /\ UpTags(up'[k], n) /\ UpOrder(up'[k]) /\ CmdTags(srv[k].cmd, up'[k], n)
                  /\ e \in Lines /\ e.tag \in 0..n
                  /\ e.verb \notin Parts => e.tag \in 1..n /\ After(e.tag, up'[k])
  <2> SUFFICES ASSUME Reads(k)
               PROVE  /\ UpTags(up'[k], n) /\ UpOrder(up'[k]) /\ CmdTags(srv[k].cmd, up'[k], n)
                      /\ e \in Lines /\ e.tag \in 0..n
                      /\ e.verb \notin Parts => e.tag \in 1..n /\ After(e.tag, up'[k])
    OBVIOUS
  <2>1. u # <<>> /\ up'[k] = Tail(u)
    BY DEF Reads
  <2>2. e = u[1] /\ e \in Lines /\ 1 \in DOMAIN u
    BY <1>0, <2>1
  <2>3. e.tag \in 0..n
    BY <1>0, <1>2, <2>2 DEF UpTags
  <2>4. /\ UpTags(Tail(u), n) /\ UpOrder(Tail(u))
        /\ e.tag # 0 => After(e.tag, Tail(u))
        /\ e.verb \notin Parts => e.tag \in 1..n
    BY <1>0, <1>2, <2>1, UpTail
  <2>5. CmdTags(srv[k].cmd, Tail(u), n)
    BY <1>0, <1>2, <2>1, CmdMoves
  <2> QED
    BY <2>1, <2>2, <2>3, <2>4, <2>5
<1>c. CmdTags(NoLine, up'[k], n)
  BY DEF CmdTags
<1>d. srv[k].cmd.tag \in 0..n
  BY <1>0, <1>2 DEF CmdTags, NoLine, Line
<1> HIDE DEF e, n, u
<1>6. CASE Lined(k)
  <2>1. Sends(k, Answer(k, e)) /\ Reads(k) /\ srv'[k].cmd = srv[k].cmd
    BY <1>6 DEF Lined, e
  <2> QED
    BY <1>0, <1>4, <1>5, <2>1, AnswerTags
<1>7. CASE Refused(k)
  <2>1. Sends(k, <<Reply("NO", e.tag, None, 0, srv[k].zip)>>) /\ Reads(k) /\ srv'[k].cmd = srv[k].cmd
    BY <1>7 DEF Refused, SameServer, e
  <2>2. LET a == <<Reply("NO", e.tag, None, 0, srv[k].zip)>> IN a \in Seq(Replies) /\ DownTags(a, n)
    <3>1. "NO" \in Kinds /\ e.tag \in Nat /\ e.tag \in 0..n
      BY <1>0, <1>5, <2>1 DEF Kinds
    <3> QED
      BY <1>0, <3>1, ReplyTags
  <2> QED
    BY <1>4, <1>5, <2>1, <2>2
<1>8. CASE Begins(k)
  <2>1. Reads(k) /\ srv'[k].cmd = e /\ e.verb = "APPEND"
    BY <1>8 DEF Begins, e
  <2>2. LET a == <<Reply("+", 0, None, 0, srv[k].zip)>> IN a \in Seq(Replies) /\ DownTags(a, n)
    BY <1>0, ReplyTags DEF Kinds
  <2>3. DownTags(down'[k], n)
    BY <1>2, <1>4, <1>8, <2>2 DEF Begins
  <2>4. CmdTags(e, up'[k], n)
    BY <1>5, <2>1 DEF CmdTags, Parts
  <2> QED
    BY <1>5, <2>1, <2>3, <2>4
<1>9. CASE Fills(k)
  BY <1>2, <1>5, <1>9 DEF Fills
<1>10. CASE Stores(k)
  <2>1. Reads(k) /\ srv'[k].cmd = NoLine
    BY <1>10 DEF Stores
  <2>2. PICK i \in Nat : Sends(k, <<Reply("OK", srv[k].cmd.tag, None, i, srv[k].zip)>>)
    BY <1>10 DEF Stores
  <2>3. LET a == <<Reply("OK", srv[k].cmd.tag, None, i, srv[k].zip)>> IN a \in Seq(Replies) /\ DownTags(a, n)
    <3> DEFINE t == srv[k].cmd.tag
    <3>1. "OK" \in Kinds /\ t \in Nat /\ i \in Int /\ t \in 0..n /\ n \in Nat
      BY <1>0, <1>d DEF Kinds
    <3> HIDE DEF t
    <3>2. LET a == <<Reply("OK", t, None, i, srv[k].zip)>> IN a \in Seq(Replies) /\ DownTags(a, n)
      BY <3>1, ReplyTags
    <3> QED
      BY <3>2 DEF t
  <2> QED
    BY <1>4, <1>5, <1>c, <2>1, <2>2, <2>3
<1>11. CASE Rejects(k)
  <2>1. Reads(k) /\ srv'[k].cmd = NoLine
    BY <1>11 DEF Rejects
  <2>2. Sends(k, <<Reply("NO", srv[k].cmd.tag, None, 0, srv[k].zip)>>)
    BY <1>11 DEF Rejects
  <2>3. LET a == <<Reply("NO", srv[k].cmd.tag, None, 0, srv[k].zip)>> IN a \in Seq(Replies) /\ DownTags(a, n)
    <3> DEFINE t == srv[k].cmd.tag
    <3>1. "NO" \in Kinds /\ t \in Nat /\ 0 \in Int /\ t \in 0..n /\ n \in Nat
      BY <1>0, <1>d DEF Kinds
    <3> HIDE DEF t
    <3>2. LET a == <<Reply("NO", t, None, 0, srv[k].zip)>> IN a \in Seq(Replies) /\ DownTags(a, n)
      BY <3>1, ReplyTags
    <3> QED
      BY <3>2 DEF t
  <2> QED
    BY <1>4, <1>5, <1>c, <2>1, <2>2, <2>3
<1>12. CASE Breaks(k)
  <2>1. PICK l \in 0..Len(down[k]) : down'[k] = SubSeq(down[k], 1, l)
    BY <1>12 DEF Breaks
  <2>2. DownTags(down'[k], n)
    BY <1>0, <1>2, <2>1, DownMoves
  <2> QED
    BY <1>2, <1>12, <2>2 DEF Breaks, u
<1>13. CASE Hangs(k)
  BY <1>2, <1>13 DEF Hangs, u
<1> QED
  BY <1>6, <1>7, <1>8, <1>9, <1>10, <1>11, <1>12, <1>13, ServerCases DEF Serves

\* Tags stay fresh, whatever happens on the connection.
LEMMA TagsStay ==
  ASSUME Typed, Typed', NEW k \in Conn, TagsFresh(k), Move(k)
  PROVE  TagsFresh(k)'
<1> DEFINE n == LastTag(k)
           n2 == Len(cli'[k].result)
           c == srv[k].cmd
<1>0. /\ up[k] \in Seq(Lines) /\ down[k] \in Seq(Replies) /\ n \in Nat /\ c \in Lines
      /\ cli[k].result \in Seq(Outcomes) /\ n = Len(cli[k].result) /\ cli[k].pend \in SUBSET Waiters
  BY Local DEF LastTag
<1>1. LastTag(k)' = n2
  BY DEF LastTag
<1>2. /\ UpTags(up[k], n) /\ UpOrder(up[k]) /\ DownTags(down[k], n)
      /\ WaitTags(cli[k].pend, n) /\ CmdTags(c, up[k], n)
  BY DEF TagsFresh
<1>3. SUFFICES /\ UpTags(up'[k], n2) /\ UpOrder(up'[k])
               /\ DownTags(down'[k], n2)
               /\ WaitTags(cli'[k].pend, n2)
               /\ CmdTags(srv'[k].cmd, up'[k], n2) 
  BY <1>1 DEF TagsFresh
<1>4. \A x \in Outcomes : Len(Append(cli[k].result, x)) = n + 1
  BY <1>0
<1>5. "wait" \in Outcomes /\ "void" \in Outcomes
  BY DEF Outcomes, Outcome
<1>6. WaitTags(cli[k].pend, n + 1) /\ UpTags(up[k], n + 1)
  BY <1>0, <1>2 DEF WaitTags, UpTags
<1>7. DownTags(down[k], n + 1) /\ CmdTags(c, up[k], n + 1) /\ (down[k] # <<>> => DownTags(Tail(down[k]), n))
  BY <1>0, <1>2, DownMoves, CmdMoves
<1> HIDE DEF n, c
<1>8. CASE Rests(k)
  BY <1>0, <1>2, <1>8 DEF Rests, SameVoice, SameWire, SameServer, c
<1>9. CASE Feeds(k)
  <2>1. PICK e \in Lines : e.verb \in Parts /\ e.tag = 0 /\ up'[k] = Append(up[k], e)
    BY <1>9 DEF Feeds
  <2>2. n2 = n /\ down'[k] = down[k] /\ cli'[k].pend = cli[k].pend /\ srv'[k].cmd = c
    BY <1>0, <1>9 DEF Feeds, SameVoice, SameServer, c
  <2>3. UpTags(up'[k], n) /\ UpOrder(up'[k]) /\ CmdTags(c, up'[k], n)
    BY <1>0, <1>2, <2>1, UpAppend, CmdMoves
  <2> QED
    BY <1>2, <2>2, <2>3
<1>10. CASE Calls(k)
  <2>1. PICK e \in Lines :
          /\ e.tag = n + 1 /\ up'[k] = Append(up[k], e)
          /\ cli'[k].pend = cli[k].pend \union {[tag |-> n + 1, verb |-> e.verb]}
          /\ cli'[k].result = Append(cli[k].result, "wait")
    BY <1>10 DEF Calls, n
  <2>2. n2 = n + 1 /\ down'[k] = down[k] /\ srv'[k].cmd = c
    BY <1>4, <1>5, <1>10, <2>1 DEF Calls, SameServer, c
  <2>3. e.verb \notin Parts
    <3>1. \E x \in Lines : /\ x.verb \notin Parts /\ up'[k] = Append(up[k], x)
      BY <1>10 DEF Calls, Asking, Verb, Parts
    <3>2. PICK x \in Lines : x.verb \notin Parts /\ Append(up[k], e) = Append(up[k], x)
      BY <2>1, <3>1
    <3>3. e = x
      BY <1>0, <3>2, SeqAppend
    <3> QED
      BY <3>2, <3>3
  <2>4. UpTags(up'[k], n + 1) /\ UpOrder(up'[k]) /\ CmdTags(c, up'[k], n + 1)
    BY <1>0, <1>2, <2>1, <2>3, UpAppend, CmdMoves
  <2>5. WaitTags(cli'[k].pend, n + 1)
    BY <1>0, <1>6, <2>1 DEF WaitTags
  <2> QED
    BY <1>7, <2>2, <2>4, <2>5
<1>11. CASE CallsInVain(k)
  <2>1. n2 = n + 1 /\ up'[k] = up[k] /\ down'[k] = down[k] /\ srv'[k].cmd = c /\ cli'[k].pend = cli[k].pend
    BY <1>4, <1>5, <1>11 DEF CallsInVain, SameWire, SameServer, c
  <2> QED
    BY <1>2, <1>6, <1>7, <2>1
<1>12. CASE Greets(k)
  <2>1. PICK e \in Lines : e.verb = "STARTTLS" /\ e.tag = n + 1 /\ up'[k] = Append(up[k], e)
    BY <1>12 DEF Greets, n
  <2>2. n2 = n + 1 /\ down'[k] = down[k] /\ srv'[k].cmd = c /\ cli'[k].pend = cli[k].pend
    BY <1>4, <1>5, <1>12 DEF Greets, SameServer, c
  <2>4. UpTags(up'[k], n + 1) /\ UpOrder(up'[k]) /\ CmdTags(c, up'[k], n + 1)
    BY <1>0, <1>2, <2>1, UpAppend, CmdMoves DEF Parts
  <2> QED
    BY <1>6, <1>7, <2>2, <2>4
<1>13. CASE Opens1(k)
  BY <1>0, <1>2, <1>7, <1>13 DEF Opens1, SameServer, c
<1>14. CASE Proceeds(k)
  BY <1>0, <1>2, <1>14 DEF Proceeds, SameWire, SameServer, c
<1>15. CASE Hears(k)
  BY <1>0, <1>2, <1>7, <1>15 DEF Hears, SameVoice, SameServer, c
<1>16. CASE IsAnswered(k)
  <2> DEFINE e == Head(down[k])
  <2>1. /\ down[k] # <<>> /\ down'[k] = Tail(down[k]) /\ up'[k] = up[k] /\ srv'[k].cmd = c
        /\ cli'[k].pend = {p \in cli[k].pend : p.tag # e.tag}
        /\ \/ cli'[k].result = [cli[k].result EXCEPT ![e.tag] = e.kind]
           \/ cli'[k].result = cli[k].result
        /\ e.kind \in {"OK", "NO"}
    BY <1>16 DEF IsAnswered, SameServer, c
  <2>2. n2 = n
    <3>1. e.kind \in Outcomes
      BY <2>1 DEF Outcomes, Outcome
    <3> QED
      BY <1>0, <2>1, <3>1, ElementSet
  <2> QED
    BY <1>2, <1>7, <2>1, <2>2 DEF WaitTags
<1>17. CASE Finds(k)
  BY <1>0, <1>2, <1>17 DEF Finds, SameWire, SameServer, c
<1>18. CASE Closes(k)
  <2>1. /\ srv'[k] = [srv[k] EXCEPT !.peer = FALSE] /\ srv[k] \in Servers
        /\ cli'[k].pend = cli[k].pend /\ n2 = n
    BY <1>0, <1>18, Local DEF Closes
  <2>2. srv'[k].cmd = c
    BY <2>1 DEF Servers, c
  <2>3. PICK l \in 0..Len(up[k]) : up'[k] = SubSeq(up[k], 1, l)
    BY <1>18 DEF Closes
  <2>4. PICK m \in 0..Len(down[k]) : down'[k] = SubSeq(down[k], 1, m)
    BY <1>18 DEF Closes
  <2>5. UpTags(up'[k], n) /\ UpOrder(up'[k]) /\ CmdTags(c, up'[k], n)
    BY <1>0, <1>2, <2>3, UpPrefix, CmdMoves
  <2>6. DownTags(down'[k], n)
    BY <1>0, <1>2, <2>4, DownMoves
  <2> QED
    BY <1>2, <2>1, <2>2, <2>5, <2>6
<1>19. CASE Tells(k)
  <2>1. /\ cli'[k].pend = {} /\ up'[k] = up[k] /\ down'[k] = down[k] /\ srv'[k].cmd = c
        /\ cli'[k].result = Released(cli[k])
    BY <1>19 DEF Tells, SameWire, SameServer, c
  <2>2. n2 = n
    <3>1. DOMAIN Released(cli[k]) = 1..n
      BY <1>0 DEF Released
    <3>2. cli'[k].result \in Seq(Outcomes)
      BY DEF Typed, ClientsTyped, Clients
    <3> QED
      BY <1>0, <2>1, <3>1, <3>2
  <2> QED
    BY <1>2, <2>1, <2>2 DEF WaitTags
<1>20. CASE Serves(k)
  BY <1>1, <1>20, ServedTags DEF TagsFresh
<1> QED
  BY <1>8, <1>9, <1>10, <1>11, <1>12, <1>13, <1>14, <1>15, <1>16, <1>17, <1>18, <1>19, <1>20 DEF Move

-----------------------------------------------------------------------------
(* Facts about a connection that no move disturbs *)

\* Each end knows that the other has closed the connection.
LEMMA PeerKnowsStays ==
  ASSUME Typed, Typed', NEW k \in Conn, PeerKnows(k), Move(k)
  PROVE  PeerKnows(k)'
<1>0. /\ srv[k] \in Servers /\ srv'[k] \in Servers /\ cli[k].closed \in BOOLEAN /\ cli'[k].closed \in BOOLEAN
  BY Local DEF Typed, ServersTyped, ClientsTyped, Clients
<1>1. CASE Closes(k)
  BY <1>0, <1>1 DEF Closes, PeerKnows, Servers
<1>2. CASE Serves(k)
  <2>1. cli'[k].closed = cli[k].closed
    BY <1>2 DEF Serves, SameVoice
  <2>2. (srv'[k].on => srv[k].on) /\ (srv'[k].peer = srv[k].peer)
    BY <1>2, ServerCases
       DEF Serves, Lined, Refused, Begins, Fills, Stores, Rejects, Breaks, Hangs, Keeps, Reads, SameServer
  <2> QED
    BY <2>1, <2>2 DEF PeerKnows
<1>3. CASE Opens1(k) \/ Finds(k)
  BY <1>0, <1>3 DEF Opens1, Finds, SameWire, SameServer, PeerKnows
<1> QED
  BY <1>1, <1>2, <1>3 DEF Move, PeerKnows, Rests, Feeds, Calls, CallsInVain, Greets, Proceeds, Hears, IsAnswered,
     Tells, SameVoice, SameWire, SameServer

\* A connection that is open, or has failed, stays so.
LEMMA PhaseStays ==
  ASSUME NEW k, cli[k].phase \in {"ready", "failed"}, Move(k)
  PROVE  cli'[k].phase = cli[k].phase
  BY DEF Move, Rests, Feeds, Calls, CallsInVain, Greets, Opens1, Proceeds, Hears, IsAnswered, Finds, Closes,
     Tells, Serves, SameVoice, Asking

\* The runner starts once.
LEMMA Starts ==
  ASSUME [Next]_vars
  PROVE  /\ pc # "open" => pc' # "open"
         /\ pc = "open" /\ pc' # "open" => \A k \in Conn : cli[k].phase \in {"ready", "failed"}
<1>1. CASE Work
  BY <1>1 DEF Work, Opened, Select, Selected, StartMore, Filled, WaitSize, Begin, Continue, StreamChunk,
     StreamEnds, Finish, Room, SettleOne, ClosePair, LoggedOut, Ended, Leave
<1>2. CASE pc' = pc
  BY <1>2
<1> QED
  BY <1>1, <1>2, TimeIs DEF Next, Process, Busy, Drain, Server, Vanish, Kick, vars, worker

LEMMA OpenFirstStays ==
  ASSUME Typed, OpenFirst, [Next]_vars
  PROVE  OpenFirst'
<1> SUFFICES ASSUME pc' # "open", NEW k \in Conn
             PROVE  cli'[k].phase \in {"ready", "failed"}
  BY DEF OpenFirst
<1>1. cli[k].phase \in {"ready", "failed"}
  BY Starts DEF OpenFirst
<1> QED
  BY <1>1, Moves, PhaseStays

-----------------------------------------------------------------------------
(* What a step does to the reader of a connection *)

SameReader(k) ==
  /\ cli'[k].reader = cli[k].reader /\ cli'[k].to = cli[k].to
  /\ cli'[k].left = cli[k].left /\ cli'[k].fifo = cli[k].fifo

LEMMA IssueReader ==
  ASSUME NEW c \in Clients, NEW verb \in Verbs
  PROVE  LET d == Issue(c, verb)
         IN d.reader = c.reader /\ d.to = c.to /\ d.left = c.left /\ d.fifo = c.fifo
  BY DEF Issue, Clients

\* A step changes one client, and not what its reader knows.
LEMMA OneReader ==
  ASSUME Typed, NEW k \in Conn, NEW c, cli' = [cli EXCEPT ![k] = c],
         c.reader = cli[k].reader, c.to = cli[k].to, c.left = cli[k].left, c.fifo = cli[k].fifo,
         NEW j \in Conn
  PROVE  SameReader(j)
  BY OneClient DEF SameReader

LEMMA CommandReader ==
  ASSUME Typed, NEW k \in Conn, NEW verb \in Verbs, CmdNowait(k, verb), NEW j \in Conn
  PROVE  SameReader(j)
<1> DEFINE c == Issue(cli[k], verb)
<1>1. c.reader = cli[k].reader /\ c.to = cli[k].to /\ c.left = cli[k].left /\ c.fifo = cli[k].fifo
  BY Local, IssueReader
<1>2. cli' = [cli EXCEPT ![k] = c]
  BY DEF CmdNowait
<1> HIDE DEF c
<1> QED
  BY <1>1, <1>2, OneReader

LEMMA AbortReader ==
  ASSUME Typed, NEW k \in Conn, NEW why \in Causes, Abort(k, why), NEW j \in Conn
  PROVE  SameReader(j)
<1> DEFINE c == Closed(cli[k], why)
<1>1. c.reader = cli[k].reader /\ c.to = cli[k].to /\ c.left = cli[k].left /\ c.fifo = cli[k].fifo
  BY Local DEF Closed, Clients
<1>2. cli' = cli \/ cli' = [cli EXCEPT ![k] = c]
  BY DEF Abort
<1> HIDE DEF c
<1>3. cli' = cli => SameReader(j)
  BY DEF SameReader
<1> QED
  BY <1>1, <1>2, <1>3, OneReader

LEMMA OpenReader ==
  ASSUME Typed, NEW k \in Conn, Open(k), ~StartReader(k), NEW j \in Conn
  PROVE  SameReader(j) /\ body' = body
<1>0. cli[k] \in Clients /\ cli \in [Conn -> Clients]
  BY Local DEF Typed, ClientsTyped
<1>1. body' = body
  BY DEF Open, ReadGreeting, Starttls, StarttlsDone, Ask, Answered, OpenFails
<1>2. ASSUME ReadGreeting(k) \/ Starttls(k) \/ StarttlsDone(k) \/ Answered(k) \/ OpenFails(k)
      PROVE  SameReader(j)
  <2>1. \A i \in Conn \ {k} : cli'[i] = cli[i]
    BY <1>0, <1>2 DEF ReadGreeting, Starttls, StarttlsDone, Answered, OpenFails
  <2>2. CASE ReadGreeting(k)
    BY <1>0, <2>1, <2>2 DEF ReadGreeting, SameReader, Clients
  <2>3. CASE Starttls(k)
    BY <1>0, <2>1, <2>3 DEF Starttls, SameReader, Clients
  <2>4. CASE StarttlsDone(k)
    BY <1>0, <2>1, <2>4 DEF StarttlsDone, SameReader, Clients
  <2>5. CASE Answered(k)
    <3>1. PICK f, z : cli' = [cli EXCEPT ![k].phase = f, ![k].sent = FALSE, ![k].zout = z]
      BY <2>5 DEF Answered
    <3> QED
      BY <1>0, <2>1, <3>1 DEF SameReader, Clients
  <2>6. CASE OpenFails(k)
    <3>1. PICK w : cli' = [cli EXCEPT ![k].phase = "failed", ![k].closed = TRUE, ![k].why = w]
      BY <2>6, <1>0 DEF OpenFails
    <3> QED
      BY <1>0, <2>1, <3>1 DEF SameReader, Clients
  <2> QED
    BY <1>2, <2>2, <2>3, <2>4, <2>5, <2>6
<1>3. CASE Ask(k)
  <2> DEFINE v == Verb(cli[k].phase)
             i == Issue(cli[k], v)
             c == [i EXCEPT !.sent = TRUE]
  <2>0. v \in Verbs
    BY <1>3 DEF Ask, Asking, Verb, Verbs
  <2>1. cli' = [cli EXCEPT ![k] = c]
    BY <1>0, <1>3 DEF Ask
  <2>2. i.reader = cli[k].reader /\ i.to = cli[k].to /\ i.left = cli[k].left /\ i.fifo = cli[k].fifo
        /\ i \in Clients
    BY <1>0, <2>0, IssueReader, IssueTyped
  <2> HIDE DEF v, i
  <2>3. c.reader = cli[k].reader /\ c.to = cli[k].to /\ c.left = cli[k].left /\ c.fifo = cli[k].fifo
    BY <2>2 DEF Clients
  <2> HIDE DEF c
  <2> QED
    BY <1>1, <2>1, <2>3, OneReader
<1> QED
  BY <1>1, <1>2, <1>3 DEF Open

LEMMA WorkReader ==
  ASSUME Typed, Work, ~StartMore, NEW j \in Conn
  PROVE  SameReader(j) /\ (~StreamChunk => body' = body)
<1> USE Constants
<1>0. ~StreamChunk => body' = body
  BY DEF Work, Opened, Select, Selected, Filled, WaitSize, Begin, Continue,
     StreamEnds, Finish, Room, SettleOne, ClosePair, LoggedOut, Ended, client
<1>1. cli' = cli => SameReader(j)
  BY DEF SameReader
<1>2. CASE Opened \/ Selected \/ Filled \/ WaitSize \/ StreamEnds \/ Room \/ Ended
  BY <1>1, <1>2 DEF Opened, Selected, Filled, WaitSize, StreamEnds, Room, Ended, client
<1>3. CASE Select
  BY <1>3, CommandReader DEF Select, Verbs
<1>4. CASE Begin
  <2> DEFINE i == Issue(cli[dst], "APPEND")
             o == i.owed + 1
             c == IF cli[dst].closed THEN i ELSE [i EXCEPT !.owed = o]
  <2>1. cli' = [cli EXCEPT ![dst] = c]
    BY <1>4 DEF Begin, AppendBegin
  <2>2. i.reader = cli[dst].reader /\ i.to = cli[dst].to /\ i.left = cli[dst].left /\ i.fifo = cli[dst].fifo
        /\ i \in Clients
    BY Local, IssueReader, IssueTyped DEF Verbs
  <2> HIDE DEF i, o
  <2>3. c.reader = cli[dst].reader /\ c.to = cli[dst].to /\ c.left = cli[dst].left /\ c.fifo = cli[dst].fifo
    BY <2>2 DEF Clients
  <2> HIDE DEF c
  <2> QED
    BY <1>0, <2>1, <2>3, OneReader
<1>5. CASE Continue \/ SettleOne \/ StreamChunk \/ Finish
  <2> DEFINE o == cli[dst].owed - 1
  <2>1. \/ cli' = [cli EXCEPT ![dst] = [cli[dst] EXCEPT !.owed = o]]
        \/ cli' = [cli EXCEPT ![dst] = [cli[dst] EXCEPT !.cont = 0]]
        \/ cli' = [cli EXCEPT ![dst] = [cli[dst] EXCEPT !.idle = 0]]
    BY <1>5, Local DEF Continue, SettleOne, StreamChunk, Finish, AppendDone, Typed, ClientsTyped
  <2> HIDE DEF o
  <2>2. \A c \in {[cli[dst] EXCEPT !.owed = o], [cli[dst] EXCEPT !.cont = 0], [cli[dst] EXCEPT !.idle = 0]} :
          c.reader = cli[dst].reader /\ c.to = cli[dst].to /\ c.left = cli[dst].left /\ c.fifo = cli[dst].fifo
    BY Local DEF Clients
  <2> QED
    BY <1>0, <2>1, <2>2, OneReader
<1>6. CASE ClosePair \/ LoggedOut
  <2>1. Head(closing) \in Conn
    BY <1>6 DEF ClosePair, LoggedOut, Typed, WorkerTyped
  <2>2. CmdNowait(Head(closing), "LOGOUT") \/ Abort(Head(closing), "lost")
    BY <1>6 DEF ClosePair, LoggedOut
  <2> QED
    BY <1>0, <2>1, <2>2, CommandReader, AbortReader DEF Verbs, Causes
<1> QED
  BY <1>0, <1>2, <1>3, <1>4, <1>5, <1>6 DEF Work

\* The steps that a body, or who reads it, can tell.
LEMMA Stills ==
  ASSUME Typed, [Next]_vars
  PROVE  \/ body' = body /\ \A j \in Conn : SameReader(j)
         \/ StartMore
         \/ StreamChunk /\ \A j \in Conn : SameReader(j)
         \/ \E m \in Msg : Drain(m) /\ \A j \in Conn : SameReader(j)
         \/ \E k \in Conn : UNCHANGED worker /\ (StartReader(k) \/ Reader(k) \/ TellWaiters(k))
<1>1. cli' = cli => \A j \in Conn : SameReader(j)
  BY DEF SameReader
<1>2. CASE Work
  <2>1. CASE ~StartMore
    <3>1. \A j \in Conn : SameReader(j)
      BY <1>2, <2>1, WorkReader
    <3>2. StreamChunk \/ body' = body
      BY <1>2, <2>1, Constants, WorkReader
    <3> QED
      BY <3>1, <3>2
  <2>2. CASE StartMore
    BY <2>2
  <2> QED
    BY <2>1, <2>2
<1>3. ASSUME NEW m \in Msg, Drain(m)
      PROVE  \A j \in Conn : SameReader(j)
  BY <1>1, <1>3 DEF Drain
<1>4. ASSUME NEW k \in Conn, Goroutines(k), UNCHANGED worker, ~(StartReader(k) \/ Reader(k) \/ TellWaiters(k))
      PROVE  body' = body /\ \A j \in Conn : SameReader(j)
  <2>1. CASE Open(k)
    BY <1>4, <2>1, OpenReader
  <2>2. CASE Watchdog(k) \/ KickOne(k)
    <3>1. \E why \in Causes : Abort(k, why)
      BY <2>2 DEF Watchdog, KickOne, Causes
    <3>2. body' = body
      BY <2>2 DEF Watchdog, KickOne
    <3> QED
      BY <3>1, <3>2, AbortReader
  <2> QED
    BY <1>4, <2>1, <2>2 DEF Goroutines, Opener
<1>5. CASE Time
  <2>1. body' = body
    BY <1>5, TimeIs DEF Pass
  <2>2. ASSUME NEW j \in Conn
        PROVE  SameReader(j)
    <3> DEFINE i == IF Watched(j) /\ cli[j].idle < 2 THEN cli[j].idle + 1 ELSE cli[j].idle
    <3>1. cli'[j] = [cli[j] EXCEPT !.idle = i]
      BY <1>5, TimeIs DEF Pass
    <3> HIDE DEF i
    <3> QED
      BY <3>1, Local DEF SameReader, Clients
  <2> QED
    BY <2>1, <2>2
<1>6. CASE (\E k \in Conn : Server(k)) \/ (\E m \in Msg : Vanish(m) /\ UNCHANGED <<client, worker>>)
           \/ (Kick /\ UNCHANGED worker) \/ UNCHANGED vars
  <2>1. cli' = cli /\ body' = body
    BY <1>6 DEF Server, Kick, vars, client
  <2> QED
    BY <1>1, <2>1
<1> QED
  BY <1>2, <1>3, <1>4, <1>5, <1>6 DEF Next, Process, Busy

\* No body is read before one has come.
LEMMA LiteralStarts ==
  ASSUME Typed, [Next]_vars, NEW j \in Conn, cli'[j].reader = "literal"
  PROVE  cli[j].reader = "literal" \/ (down[j] # <<>> /\ Head(down[j]).kind = "BODY")
<1>0. cli \in [Conn -> Clients] /\ cli[j] \in Clients
  BY Local DEF Typed, ClientsTyped
<1>1. CASE SameReader(j)
  BY <1>1 DEF SameReader
<1>2. CASE StartMore
  <2> DEFINE i == Issue(cli[src], "UID FETCH")
             f == Append(i.fifo, Rows[next])
  <2>1. cli' = [cli EXCEPT ![src] = [i EXCEPT !.fifo = f]]
    BY <1>2 DEF StartMore, BodyFetch
  <2>2. i \in Clients /\ i.reader = cli[src].reader
    BY Constants, Local, IssueReader, IssueTyped DEF Verbs
  <2> HIDE DEF i, f
  <2>3. [i EXCEPT !.fifo = f].reader = cli[src].reader
    BY <2>2 DEF Clients
  <2> QED
    BY <1>0, <2>1, <2>3
<1>3. ASSUME NEW k \in Conn, StartReader(k) \/ Reader(k) \/ TellWaiters(k)
      PROVE  cli[j].reader = "literal" \/ (down[j] # <<>> /\ Head(down[j]).kind = "BODY")
  <2>0. cli[k] \in Clients
    BY Local
  <2>1. CASE StartReader(k)
    BY <1>0, <2>0, <2>1 DEF StartReader, Clients
  <2>2. CASE ReadResponse(k)
    <3> DEFINE e == NextResponse(k)
               a == [cli[k] EXCEPT !.idle = 0]
    <3>1. cli' = [cli EXCEPT ![k] = Routed(a, k, e)] /\ down[k] # <<>>
      BY <2>2 DEF ReadResponse, Readable
    <3>2. a \in Clients /\ a.reader = cli[k].reader
      BY <2>0 DEF Clients
    <3>3. e \in Replies
      BY <3>1, TailTyped DEF Typed
    <3> HIDE DEF a, e
    <3>4. Routed(a, k, e).reader = "literal" => a.reader = "literal" \/ e.kind = "BODY"
      <4>1. CASE e.kind \in {"OK", "NO"}
        <5> DEFINE s == Settle(a, e.tag, e.kind)
                   z == s.zin \/ (e.kind = "OK" /\ "COMPRESS" \in VerbOf(a, e.tag))
        <5>1. Routed(a, k, e) = [s EXCEPT !.zin = z]
          BY <4>1 DEF Routed
        <5>2. s \in Clients
          BY <3>2, <3>3, <4>1, SettleTyped DEF Replies, Outcomes, Outcome
        <5>3. s.reader = a.reader
          BY <3>2 DEF Settle, Clients
        <5> HIDE DEF s, z
        <5> QED
          BY <5>1, <5>2, <5>3 DEF Clients
      <4> QED
        BY <3>2, <4>1 DEF Routed, Clients
    <3> QED
      BY <1>0, <3>1, <3>2, <3>4 DEF NextResponse, e
  <2>3. CASE ReadChunk(k)
    BY <1>0, <2>0, <2>3 DEF ReadChunk, Clients
  <2>4. CASE EndLiteral(k)
    BY <1>0, <2>0, <2>4 DEF EndLiteral, Clients
  <2>5. CASE ReadEof(k)
    <3> DEFINE d == Closed(cli[k], "lost")
    <3>1. cli' = [cli EXCEPT ![k] = [d EXCEPT !.reader = "off", !.to = None]]
      BY <1>0, <2>5 DEF ReadEof
    <3>2. d \in Clients
      BY <2>0, ClosedTyped DEF Causes
    <3> HIDE DEF d
    <3> QED
      BY <1>0, <3>1, <3>2 DEF Clients
  <2>6. CASE TellWaiters(k)
    <3> DEFINE r == Released(cli[k])
    <3>1. cli' = [cli EXCEPT ![k] = [cli[k] EXCEPT !.told = TRUE, !.pend = {}, !.fifo = <<>>, !.result = r]]
      BY <1>0, <2>6 DEF TellWaiters
    <3> HIDE DEF r
    <3> QED
      BY <1>0, <2>0, <3>1 DEF Clients
  <2> QED
    BY <1>3, <2>1, <2>2, <2>3, <2>4, <2>5, <2>6 DEF Reader
<1> QED
  BY <1>1, <1>2, <1>3, Stills

-----------------------------------------------------------------------------
(* While a connection opens, nothing but openers uses it *)

Said(k, kind, t) == Reply(kind, t, None, 0, srv[k].zip)

LEMMA SaidTyped ==
  ASSUME Typed, NEW k \in Conn, NEW kind \in Kinds, kind # "BODY", NEW t \in Nat
  PROVE  <<Said(k, kind, t)>> \in Seq(Bodiless)
<1>1. Said(k, kind, t) \in Bodiless
  BY Local DEF Reply, Replies, Said, Bodiless
<1> QED
  BY <1>1

\* Only a FETCH is answered with a body.
LEMMA AnswerQuiet ==
  ASSUME Typed, NEW k \in Conn, NEW e \in Lines, e.verb # "UID FETCH"
  PROVE  Answer(k, e) \in Seq(Bodiless)
<1> DEFINE ok == <<Said(k, "OK", e.tag)>>
<1>1. \A kind \in Kinds, t \in Nat : kind # "BODY" => <<Said(k, kind, t)>> \in Seq(Bodiless)
  BY SaidTyped
<1>2. e.tag \in Nat
  BY DEF Lines
<1>3. \/ Answer(k, e) = ok
      \/ Answer(k, e) = <<Said(k, "CAPABILITY", 0)>> \o ok
      \/ Answer(k, e) = <<Said(k, "UIDVALIDITY", 0)>> \o ok
      \/ Answer(k, e) = <<Said(k, "BYE", 0)>> \o ok
  BY DEF Answer, Said
<1>4. /\ ok \in Seq(Bodiless) /\ <<Said(k, "CAPABILITY", 0)>> \in Seq(Bodiless)
      /\ <<Said(k, "UIDVALIDITY", 0)>> \in Seq(Bodiless) /\ <<Said(k, "BYE", 0)>> \in Seq(Bodiless)
  BY <1>1, <1>2 DEF Kinds
<1> HIDE DEF ok
<1>5. \A s \in Seq(Bodiless) : s \o ok \in Seq(Bodiless)
  BY <1>4, SeqCat
<1> QED
  BY <1>3, <1>4, <1>5

LEMMA ServedQuiet ==
  ASSUME Typed, NEW k \in Conn, Serves(k), srv[k].cmd = NoLine, down[k] \in Seq(Bodiless),
         up[k] \in Seq(Modest)
  PROVE  srv'[k].cmd = NoLine /\ down'[k] \in Seq(Bodiless) /\ up'[k] \in Seq(Modest)
<1> DEFINE e == Head(up[k])
<1>0. srv[k].zip \in BOOLEAN
  BY Local
<1>1. up[k] # <<>> => Tail(up[k]) \in Seq(Modest) /\ e \in Modest
  BY SeqTail
<1>2. \A a \in Seq(Bodiless) : down[k] \o a \in Seq(Bodiless)
  BY SeqCat
<1> HIDE DEF e
<1>3. CASE Lined(k)
  <2>1. Sends(k, Answer(k, e)) /\ Reads(k) /\ srv'[k].cmd = srv[k].cmd
    BY <1>3 DEF Lined, e
  <2>2. Answer(k, e) \in Seq(Bodiless)
    BY <1>1, <2>1, AnswerQuiet DEF Reads, Modest
  <2> QED
    BY <1>1, <1>2, <2>1, <2>2 DEF Sends, Reads
<1>4. CASE Refused(k)
  <2>1. Sends(k, <<Reply("NO", e.tag, None, 0, srv[k].zip)>>) /\ Reads(k) /\ srv'[k].cmd = srv[k].cmd
    BY <1>4 DEF Refused, SameServer, e
  <2>2. e.tag \in Nat
    BY <1>1, <2>1 DEF Reads, Lines, Modest
  <2>3. Reply("NO", e.tag, None, 0, srv[k].zip) \in Bodiless
    BY <1>0, <2>2 DEF Reply, Replies, Kinds, Bodiless
  <2>4. <<Reply("NO", e.tag, None, 0, srv[k].zip)>> \in Seq(Bodiless)
    BY <2>3
  <2> QED
    BY <1>1, <1>2, <2>1, <2>4 DEF Sends, Reads
<1>5. CASE Breaks(k)
  <2>1. PICK l \in 0..Len(down[k]) : down'[k] = SubSeq(down[k], 1, l)
    BY <1>5 DEF Breaks
  <2>2. down'[k] \in Seq(Bodiless)
    BY <2>1, SeqPrefix
  <2> QED
    BY <1>5, <2>2 DEF Breaks
<1>6. CASE Hangs(k)
  BY <1>6 DEF Hangs
<1>7. CASE Begins(k)
  BY <1>1, <1>7 DEF Begins, Reads, e, Modest
<1> QED
  BY <1>3, <1>4, <1>5, <1>6, <1>7, ServerCases DEF Serves, Fills, Stores, Rejects

LEMMA QuietStays ==
  ASSUME Typed, Quiet, [Next]_vars
  PROVE  Quiet'
<1> SUFFICES ASSUME pc' = "open", NEW k \in Conn
             PROVE  /\ cli'[k].reader # "literal" /\ srv'[k].cmd = NoLine
                    /\ up'[k] \in Seq(Modest) /\ down'[k] \in Seq(Bodiless)
  BY DEF Quiet
<1>1. pc = "open" /\ Move(k)
  BY Starts, Moves
<1>2. /\ cli[k].reader # "literal" /\ srv[k].cmd = NoLine
      /\ up[k] \in Seq(Modest) /\ down[k] \in Seq(Bodiless)
  BY <1>1 DEF Quiet
<1>3. cli'[k].reader # "literal"
  <2>1. down[k] # <<>> => Head(down[k]).kind # "BODY"
    <3>1. down[k] # <<>> => Head(down[k]) \in Bodiless
      BY <1>2, SeqTail
    <3> QED
      BY <3>1 DEF Bodiless
  <2> QED
    BY <1>2, <2>1, LiteralStarts
<1>0. srv[k] \in Servers
  BY Local
<1>4. down[k] # <<>> => Tail(down[k]) \in Seq(Bodiless)
  BY <1>2, SeqTail
<1>5. \A e \in Modest : Append(up[k], e) \in Seq(Modest)
  BY <1>2, SeqAppend
<1>6. CASE Calls(k)
  <2>1. PICK e \in Lines : up'[k] = Append(up[k], e) /\ e.verb \in {"CAPABILITY", "LOGIN", "ID", "COMPRESS"}
    BY <1>1, <1>6 DEF Calls, Asking, Verb
  <2>2. e \in Modest
    BY <2>1 DEF Modest
  <2> QED
    BY <1>2, <1>3, <1>5, <1>6, <2>1, <2>2 DEF Calls, SameServer
<1>7. CASE Greets(k)
  <2>1. PICK e \in Lines : up'[k] = Append(up[k], e) /\ e.verb = "STARTTLS"
    BY <1>7 DEF Greets
  <2>2. e \in Modest
    BY <2>1 DEF Modest
  <2> QED
    BY <1>2, <1>3, <1>5, <1>7, <2>1, <2>2 DEF Greets, SameServer
<1>8. CASE Closes(k)
  <2>1. PICK l \in 0..Len(up[k]) : up'[k] = SubSeq(up[k], 1, l)
    BY <1>8 DEF Closes
  <2>2. PICK m \in 0..Len(down[k]) : down'[k] = SubSeq(down[k], 1, m)
    BY <1>8 DEF Closes
  <2>5. down'[k] \in Seq(Bodiless)
    BY <1>2, <2>2, SeqPrefix
  <2>6. up'[k] \in Seq(Modest)
    BY <1>2, <2>1, SeqPrefix
  <2>7. srv'[k].cmd = NoLine
    BY <1>0, <1>2, <1>8 DEF Closes, Servers
  <2> QED
    BY <1>3, <2>5, <2>6, <2>7
<1>9. CASE Serves(k)
  BY <1>2, <1>3, <1>9, ServedQuiet
<1>10. CASE Rests(k) \/ CallsInVain(k) \/ Proceeds(k) \/ Finds(k) \/ Tells(k)
  BY <1>2, <1>3, <1>10 DEF Rests, CallsInVain, Proceeds, Finds, Tells, SameWire, SameServer
<1>11. CASE Opens1(k) \/ Hears(k) \/ IsAnswered(k)
  BY <1>2, <1>3, <1>4, <1>11 DEF Opens1, Hears, IsAnswered, SameServer
<1> QED
  BY <1>1, <1>6, <1>7, <1>8, <1>9, <1>10, <1>11 DEF Move, Feeds

-----------------------------------------------------------------------------
(* Where COMPRESS may be in a queue *)

LEMMA UpCompress ==
  ASSUME NEW u \in Seq(Lines), CompressLast(u)
  PROVE  /\ u # <<>> => CompressLast(Tail(u)) /\ (Head(u).verb = "COMPRESS" => Tail(u) = <<>>)
         /\ \A l \in 0..Len(u) : CompressLast(SubSeq(u, 1, l))
<1>1. u # <<>> => CompressLast(Tail(u)) /\ (Head(u).verb = "COMPRESS" => Tail(u) = <<>>)
  <2> SUFFICES ASSUME u # <<>>
               PROVE  CompressLast(Tail(u)) /\ (Head(u).verb = "COMPRESS" => Tail(u) = <<>>)
    OBVIOUS
  <2>1. /\ DOMAIN Tail(u) = 1..(Len(u) - 1) /\ Len(u) \in Nat \ {0} /\ DOMAIN u = 1..Len(u)
        /\ \A i \in 1..(Len(u) - 1) : Tail(u)[i] = u[i + 1]
        /\ Head(u) = u[1] /\ Tail(u) \in Seq(Lines) /\ Len(Tail(u)) = Len(u) - 1
    BY SeqTail
  <2>2. CompressLast(Tail(u))
    BY <2>1 DEF CompressLast
  <2>3. Head(u).verb = "COMPRESS" => Len(Tail(u)) = 0
    BY <2>1 DEF CompressLast
  <2> QED
    BY <2>1, <2>2, <2>3, SeqDomain
<1>2. ASSUME NEW l \in 0..Len(u)
      PROVE  CompressLast(SubSeq(u, 1, l))
  <2>1. /\ DOMAIN SubSeq(u, 1, l) = 1..l /\ DOMAIN u = 1..Len(u) /\ Len(u) \in Nat
        /\ \A i \in 1..l : SubSeq(u, 1, l)[i] = u[i] /\ Len(SubSeq(u, 1, l)) = l
    BY <1>2, SeqPrefix, SeqDomain
  <2>2. Len(SubSeq(u, 1, l)) = l
    BY <1>2, SeqPrefix
  <2> QED
    BY <1>2, <2>1, <2>2 DEF CompressLast
<1> QED
  BY <1>1, <1>2

LEMMA UpUncompressed ==
  ASSUME NEW u \in Seq(Lines), Uncompressed(u)
  PROVE  /\ u # <<>> => Uncompressed(Tail(u)) /\ Head(u).verb # "COMPRESS"
         /\ \A e \in Lines : e.verb # "COMPRESS" => Uncompressed(Append(u, e))
         /\ \A e \in Lines : CompressLast(Append(u, e))
         /\ CompressLast(u)
<1>1. u # <<>> => Uncompressed(Tail(u)) /\ Head(u).verb # "COMPRESS"
  BY SeqTail, SeqDomain DEF Uncompressed
<1>2. ASSUME NEW e \in Lines
      PROVE  /\ e.verb # "COMPRESS" => Uncompressed(Append(u, e))
             /\ CompressLast(Append(u, e))
  <2> DEFINE v == Append(u, e)
  <2>1. /\ Len(u) \in Nat /\ DOMAIN v = 1..(Len(u) + 1) /\ DOMAIN u = 1..Len(u)
        /\ \A i \in 1..Len(u) : v[i] = u[i]
        /\ v[Len(u) + 1] = e /\ Len(v) = Len(u) + 1
    BY <1>2, SeqAppend, SeqDomain
  <2> HIDE DEF v
  <2>2. (e.verb # "COMPRESS" => Uncompressed(v)) /\ CompressLast(v)
    BY <2>1 DEF Uncompressed, CompressLast
  <2> QED
    BY <2>2 DEF v
<1>3. CompressLast(u)
  BY DEF CompressLast, Uncompressed
<1> QED
  BY <1>1, <1>2, <1>3

LEMMA DownCompress ==
  ASSUME NEW d \in Seq(Replies), NEW ps \in SUBSET Waiters, OkLast(d, ps)
  PROVE  /\ d # <<>> => \A qs \in SUBSET ps : OkLast(Tail(d), qs)
         /\ d # <<>> /\ Head(d).kind = "OK" /\ (\E p \in ps : p.tag = Head(d).tag) => Tail(d) = <<>>
         /\ \A l \in 0..Len(d) : OkLast(SubSeq(d, 1, l), ps)
<1>1. d # <<>> => /\ \A qs \in SUBSET ps : OkLast(Tail(d), qs)
                  /\ Head(d).kind = "OK" /\ (\E p \in ps : p.tag = Head(d).tag) => Tail(d) = <<>>
  <2> SUFFICES ASSUME d # <<>>
               PROVE  /\ \A qs \in SUBSET ps : OkLast(Tail(d), qs)
                      /\ Head(d).kind = "OK" /\ (\E p \in ps : p.tag = Head(d).tag) => Tail(d) = <<>>
    OBVIOUS
  <2>1. /\ DOMAIN Tail(d) = 1..(Len(d) - 1) /\ Len(d) \in Nat \ {0} /\ DOMAIN d = 1..Len(d)
        /\ \A i \in 1..(Len(d) - 1) : Tail(d)[i] = d[i + 1]
        /\ Head(d) = d[1] /\ Tail(d) \in Seq(Replies) /\ Len(Tail(d)) = Len(d) - 1
    BY SeqTail
  <2>2. ASSUME NEW qs \in SUBSET ps
        PROVE  OkLast(Tail(d), qs)
    BY <2>1, <2>2 DEF OkLast
  <2>3. Head(d).kind = "OK" /\ (\E p \in ps : p.tag = Head(d).tag) => Len(Tail(d)) = 0
    BY <2>1 DEF OkLast
  <2> QED
    BY <2>1, <2>2, <2>3, SeqDomain
<1>2. ASSUME NEW l \in 0..Len(d)
      PROVE  OkLast(SubSeq(d, 1, l), ps)
  <2>1. /\ DOMAIN SubSeq(d, 1, l) = 1..l /\ DOMAIN d = 1..Len(d) /\ Len(d) \in Nat
        /\ \A i \in 1..l : SubSeq(d, 1, l)[i] = d[i] 
        /\ Len(SubSeq(d, 1, l)) = l
    BY <1>2, SeqPrefix, SeqDomain
  <2> QED
    BY <1>2, <2>1 DEF OkLast
<1> QED
  BY <1>1, <1>2

-----------------------------------------------------------------------------
(* Both ends of a connection agree on its coding: the client *)

\* Steps that end the connection, or find it ended, and steps that leave alone
\* what the two ends have agreed upon.
LEMMA CodingEnds ==
  ASSUME Typed, Typed', NEW k \in Conn, Coding(k),
         Rests(k) \/ CallsInVain(k) \/ Finds(k) \/ Closes(k) \/ Tells(k)
  PROVE  Coding(k)'
<1>0. /\ up[k] \in Seq(Lines) /\ down[k] \in Seq(Replies) /\ srv[k] \in Servers
      /\ CompressWaits(k) \in SUBSET Waiters
  BY Local DEF CompressWaits
<1>1. /\ cli[k].zout => cli[k].phase = "ready"
      /\ srv[k].on => Coded(up[k], srv[k].zip) /\ CompressLast(up[k])
      /\ Coded(down[k], cli[k].zin) /\ OkLast(down[k], CompressWaits(k))
  BY DEF Coding
<1>2. CASE Rests(k)
  BY <1>2 DEF Rests, SameVoice, SameWire, SameServer, Coding, Alive, Compressing, Asked, Told, Known,
              CompressWaits, Result, LastTag
<1>3. CASE CallsInVain(k) \/ Finds(k)
  BY <1>1, <1>3 DEF CallsInVain, Finds, SameWire, SameServer, Coding, Alive, CompressWaits
<1>4. CASE Closes(k)
  <2>1. PICK l \in 0..Len(up[k]) : up'[k] = SubSeq(up[k], 1, l)
    BY <1>4 DEF Closes
  <2>2. PICK m \in 0..Len(down[k]) : down'[k] = SubSeq(down[k], 1, m)
    BY <1>4 DEF Closes
  <2>3. srv'[k].on = srv[k].on /\ srv'[k].zip = srv[k].zip
    BY <1>0, <1>4 DEF Closes, Servers
  <2>4. srv'[k].on => Coded(up'[k], srv'[k].zip) /\ CompressLast(up'[k])
    BY <1>0, <1>1, <2>1, <2>3, CodedUp, UpCompress
  <2>5. Coded(down'[k], cli[k].zin) /\ OkLast(down'[k], CompressWaits(k))
    BY <1>0, <1>1, <2>2, CodedDown, DownCompress
  <2> QED
    BY <1>1, <1>4, <2>4, <2>5 DEF Closes, Coding, Alive, CompressWaits
<1>5. CASE Tells(k)
  <2>1. CompressWaits(k)' = {}
    BY <1>5 DEF Tells, CompressWaits
  <2>2. OkLast(down'[k], {})
    BY DEF OkLast
  <2> QED
    BY <1>1, <1>5, <2>1, <2>2 DEF Tells, SameWire, SameServer, Coding, Alive
<1> QED
  BY <1>2, <1>3, <1>4, <1>5

\* What the client writes.
LEMMA CodingWrites ==
  ASSUME Typed, Typed', NEW k \in Conn, Coding(k), TagsFresh(k), OpenFirst,
         Feeds(k) \/ Calls(k) \/ Greets(k)
  PROVE  Coding(k)'
<1>0. /\ up[k] \in Seq(Lines) /\ down[k] \in Seq(Replies) /\ srv[k] \in Servers
      /\ CompressWaits(k) \in SUBSET Waiters /\ LastTag(k) \in Nat /\ cli[k].result \in Seq(Outcomes)
      /\ LastTag(k) = Len(cli[k].result)
  BY Local DEF CompressWaits, LastTag
<1>1. /\ cli[k].zout => cli[k].phase = "ready"
      /\ srv[k].on => Coded(up[k], srv[k].zip) /\ CompressLast(up[k])
      /\ Coded(down[k], cli[k].zin) /\ OkLast(down[k], CompressWaits(k))
  BY DEF Coding
<1>2. ~Compressing(k) /\ ~cli[k].closed
  BY DEF Feeds, Calls, Greets, Compressing, OpenFirst
<1>3. srv[k].on => /\ srv[k].zip = cli[k].zout /\ cli[k].zin = cli[k].zout
                   /\ CompressWaits(k) = {} /\ Uncompressed(up[k])
  BY <1>2 DEF Coding, Alive
<1>4. \A e \in Lines : e.z = cli[k].zout /\ up'[k] = Append(up[k], e) =>
         (srv[k].on => /\ Coded(up'[k], srv[k].zip) /\ CompressLast(up'[k])
                       /\ e.verb # "COMPRESS" => Uncompressed(up'[k]))
  BY <1>0, <1>1, <1>3, CodedUp, UpUncompressed
<1>5. CASE Feeds(k)
  <2>1. PICK e \in Lines : e.verb \in Parts /\ e.z = cli[k].zout /\ up'[k] = Append(up[k], e)
    BY <1>5 DEF Feeds
  <2>2. e.verb # "COMPRESS"
    BY <2>1 DEF Parts
  <2>3. ~Compressing(k)'
    BY <1>2, <1>5 DEF Compressing, Feeds, SameVoice
  <2> QED
    BY <1>1, <1>3, <1>4, <1>5, <2>1, <2>2, <2>3
       DEF Feeds, SameVoice, SameServer, Coding, Alive, CompressWaits
<1>6. CASE Greets(k)
  <2>1. PICK e \in Lines : e.verb = "STARTTLS" /\ e.z = cli[k].zout /\ up'[k] = Append(up[k], e)
    BY <1>6 DEF Greets
  <2>3. ~Compressing(k)'
    BY <1>6 DEF Compressing, Greets
  <2> QED
    BY <1>1, <1>3, <1>4, <1>6, <2>1, <2>3
       DEF Greets, SameServer, Coding, Alive, CompressWaits
<1>7. CASE Calls(k)
  <2>1. PICK e \in Lines :
       /\ e.tag = LastTag(k) + 1 /\ e.z = cli[k].zout
       /\ up'[k] = Append(up[k], e)
       /\ cli'[k].pend = cli[k].pend \union {[tag |-> LastTag(k) + 1, verb |-> e.verb]}
       /\ cli'[k].result = Append(cli[k].result, "wait")
       /\ cli'[k].phase = cli[k].phase
       /\ cli'[k].zin = cli[k].zin /\ cli'[k].zout = cli[k].zout
       /\ cli'[k].closed = cli[k].closed /\ cli'[k].why = cli[k].why
       /\ \/ /\ cli[k].phase \in Asking /\ e.verb = Verb(cli[k].phase)
             /\ ~cli[k].sent /\ cli'[k].sent
          \/ /\ pc # "open" /\ e.verb \in {"SELECT", "UID FETCH", "APPEND", "LOGOUT"}
             /\ cli'[k].sent = cli[k].sent
    BY <1>7 DEF Calls
  <2>2. srv'[k] = srv[k] /\ down'[k] = down[k]
    BY <1>7 DEF Calls, SameServer
  <2> DEFINE w == [tag |-> LastTag(k) + 1, verb |-> e.verb]
  <2>3. CompressWaits(k)' = CompressWaits(k) \union (IF e.verb = "COMPRESS" THEN {w} ELSE {})
    <3>1. w.verb = e.verb /\ cli'[k].pend = cli[k].pend \union {w}
      BY <2>1
    <3> HIDE DEF w
    <3> QED
      BY <3>1 DEF CompressWaits
  <2>4. \A i \in DOMAIN down[k] : down[k][i].tag # LastTag(k) + 1
    BY <1>0 DEF TagsFresh, DownTags
  <2>5. OkLast(down'[k], CompressWaits(k)')
    BY <1>1, <2>2, <2>3, <2>4 DEF OkLast
  <2>6. srv'[k].on => Coded(up'[k], srv'[k].zip) /\ CompressLast(up'[k])
    BY <1>4, <2>1, <2>2
  <2>7. Alive(k)' => Alive(k)
    BY <2>1, <2>2 DEF Alive
  <2>8. CASE e.verb = "COMPRESS"
    <3>1. cli[k].phase = "compress" /\ cli'[k].phase = "compress" /\ cli'[k].sent
      BY <2>1, <2>8 DEF Asking, Verb
    <3>2. ~cli'[k].zout
      BY <1>1, <2>1, <3>1
    <3>3. LastTag(k)' = LastTag(k) + 1 /\ Result(k)' = "wait"
      <4>1. "wait" \in Outcomes
        BY DEF Outcomes, Outcome
      <4> DEFINE r == cli[k].result
                 s == Append(r, "wait")
      <4>2. Len(s) = Len(r) + 1 /\ s[Len(r) + 1] = "wait"
        BY <1>0, <4>1, SeqAppend
      <4>3. cli'[k].result = s /\ Len(r) = LastTag(k)
        BY <1>0, <2>1
      <4> HIDE DEF s, r
      <4> QED
        BY <4>2, <4>3 DEF LastTag, Result
    <3>4. up'[k] # <<>> /\ up'[k][Len(up'[k])] = e
      <4> DEFINE v == Append(up[k], e)
      <4>1. v # <<>> /\ Len(v) = Len(up[k]) + 1 /\ v[Len(up[k]) + 1] = e
        <5>1. e \in Lines
          BY <2>1
        <5> QED
          BY <1>0, <5>1, SeqAppend
      <4>2. up'[k] = v
        BY <2>1
      <4> HIDE DEF v
      <4> QED
        BY <4>1, <4>2
    <3>5. Alive(k)' => Asked(k)'
      <4> SUFFICES ASSUME Alive(k)'
                   PROVE  Asked(k)'
        OBVIOUS
      <4>1. CompressWaits(k)' = {[tag |-> LastTag(k)', verb |-> "COMPRESS"]}
        BY <1>3, <2>3, <2>7, <2>8, <3>3 DEF Alive
      <4>2. ~srv'[k].zip /\ ~cli'[k].zin
        BY <1>3, <2>1, <2>2, <2>7, <3>2 DEF Alive
      <4>3. \A i \in DOMAIN down'[k] : down'[k][i].tag # LastTag(k)'
        BY <2>2, <2>4, <3>3
      <4> QED
        BY <2>1, <2>8, <3>3, <3>4, <4>1, <4>2, <4>3 DEF Asked
    <3>6. Compressing(k)'
      BY <3>1 DEF Compressing
    <3> QED
      BY <1>1, <2>1, <2>2, <2>5, <2>6, <3>1, <3>2, <3>5, <3>6 DEF Coding
  <2>9. CASE e.verb # "COMPRESS"
    <3>1. ~Compressing(k)'
      BY <2>1, <2>9 DEF Compressing, Asking, Verb, OpenFirst
    <3>2. Alive(k)' => CompressWaits(k)' = {} /\ Uncompressed(up'[k])
      BY <1>3, <1>4, <2>1, <2>3, <2>7, <2>9 DEF Alive
    <3> QED
      BY <1>1, <1>3, <2>1, <2>2, <2>5, <2>6, <2>7, <3>1, <3>2 DEF Coding, Alive
  <2> QED
    BY <2>8, <2>9
<1> QED
  BY <1>5, <1>6, <1>7

\* What the opener does.
LEMMA CodingOpens ==
  ASSUME Typed, Typed', NEW k \in Conn, Coding(k), Opens1(k) \/ Proceeds(k)
  PROVE  Coding(k)'
<1>0. /\ up[k] \in Seq(Lines) /\ down[k] \in Seq(Replies) /\ srv[k] \in Servers
      /\ CompressWaits(k) \in SUBSET Waiters /\ cli[k].zout \in BOOLEAN
  BY Local DEF CompressWaits
<1>1. /\ cli[k].zout => cli[k].phase = "ready"
      /\ srv[k].on => Coded(up[k], srv[k].zip) /\ CompressLast(up[k])
      /\ Coded(down[k], cli[k].zin) /\ OkLast(down[k], CompressWaits(k))
  BY DEF Coding
<1>2. CASE Opens1(k)
  <2>1. Coded(down'[k], cli[k].zin) /\ OkLast(down'[k], CompressWaits(k))
    BY <1>0, <1>1, <1>2, CodedDown, DownCompress DEF Opens1
  <2>2. ~Compressing(k) /\ ~Compressing(k)' /\ ~cli[k].zout
    BY <1>1, <1>2 DEF Opens1, Compressing
  <2>3. Alive(k)' => Alive(k)
    BY <1>2 DEF Opens1, Alive, SameServer
  <2>4. CompressWaits(k)' = CompressWaits(k)
    BY <1>2 DEF Opens1, CompressWaits
  <2> QED
    BY <1>1, <1>2, <2>1, <2>2, <2>3, <2>4 DEF Opens1, SameServer, Coding
<1>3. CASE Proceeds(k)
  <2>1. /\ UNCHANGED <<up[k], down[k], srv[k]>> /\ CompressWaits(k)' = CompressWaits(k)
        /\ cli'[k].zin = cli[k].zin /\ ~Compressing(k)' /\ Alive(k)' = Alive(k)
    BY <1>3 DEF Proceeds, SameWire, SameServer, CompressWaits, Compressing, Alive
  <2>2. cli'[k].zout = (cli[k].zout \/ (cli[k].phase = "compress" /\ Result(k) = "OK"))
        /\ cli[k].sent /\ Result(k) # "wait" /\ cli[k].phase # "ready"
        /\ (cli[k].phase = "compress" => cli'[k].phase = "ready")
    BY <1>3 DEF Proceeds, Asking
  <2>3. cli'[k].zout => cli'[k].phase = "ready"
    BY <1>1, <2>2
  <2>4. Alive(k) => /\ srv[k].zip = cli'[k].zout /\ cli[k].zin = cli'[k].zout
                    /\ CompressWaits(k) = {} /\ Uncompressed(up[k])
    <3> SUFFICES ASSUME Alive(k)
                 PROVE  /\ srv[k].zip = cli'[k].zout /\ cli[k].zin = cli'[k].zout
                        /\ CompressWaits(k) = {} /\ Uncompressed(up[k])
      OBVIOUS
    <3>1. CASE cli[k].phase = "compress"
      <4>1. Known(k)
        BY <2>2, <3>1 DEF Coding, Compressing, Asked, Told
      <4>2. Uncompressed(<<>>)
        BY DEF Uncompressed
      <4>3. srv[k].zip \in BOOLEAN /\ ~cli[k].zout
        BY <1>1, <2>2, Local
      <4> QED
        BY <2>2, <3>1, <4>1, <4>2, <4>3 DEF Known
    <3>2. CASE cli[k].phase # "compress"
      BY <1>0, <2>2, <3>2, Local DEF Coding, Compressing
    <3> QED
      BY <3>1, <3>2
  <2> QED
    BY <1>1, <2>1, <2>3, <2>4 DEF Coding
<1> QED
  BY <1>2, <1>3

-----------------------------------------------------------------------------
(* ... the reader *)

\* What the reader takes.
LEMMA CodingHears ==
  ASSUME Typed, Typed', NEW k \in Conn, Coding(k), OpenFirst, Quiet, Hears(k)
  PROVE  Coding(k)'
<1>0. /\ down[k] \in Seq(Replies) /\ CompressWaits(k) \in SUBSET Waiters
  BY Local DEF CompressWaits
<1>1. /\ cli[k].zout => cli[k].phase = "ready"
      /\ srv[k].on => Coded(up[k], srv[k].zip) /\ CompressLast(up[k])
      /\ Coded(down[k], cli[k].zin) /\ OkLast(down[k], CompressWaits(k))
  BY DEF Coding
<1>2. /\ down[k] # <<>> /\ down'[k] = Tail(down[k]) /\ up'[k] = up[k] /\ srv'[k] = srv[k]
      /\ cli'[k].phase = cli[k].phase /\ cli'[k].sent = cli[k].sent
      /\ cli'[k].zin = cli[k].zin /\ cli'[k].zout = cli[k].zout
      /\ cli'[k].closed = cli[k].closed
      /\ cli'[k].pend = cli[k].pend /\ cli'[k].result = cli[k].result
  BY DEF Hears, SameServer, SameVoice
<1>3. Coded(down'[k], cli'[k].zin) /\ OkLast(down'[k], CompressWaits(k)')
  BY <1>0, <1>1, <1>2, CodedDown, DownCompress DEF CompressWaits
<1>4. CASE Compressing(k) /\ Alive(k)
  <2>1. Head(down[k]).kind \notin {"OK", "NO"}
    BY <1>4 DEF Hears, Quiet, OpenFirst, Compressing
  <2>2. /\ DOMAIN Tail(down[k]) = 1..(Len(down[k]) - 1) /\ Len(down[k]) \in Nat \ {0}
        /\ \A i \in 1..(Len(down[k]) - 1) : Tail(down[k])[i] = down[k][i + 1]
        /\ Head(down[k]) = down[k][1] /\ Tail(down[k]) \in Seq(Replies)
        /\ Len(Tail(down[k])) = Len(down[k]) - 1 /\ DOMAIN down[k] = 1..Len(down[k])
    BY <1>0, <1>2, SeqTail, SeqDomain
  <2>3. Result(k)' = Result(k) /\ CompressWaits(k)' = CompressWaits(k) /\ LastTag(k)' = LastTag(k)
    BY <1>2 DEF Result, LastTag, CompressWaits
  <2>4. ~Known(k)
    BY <1>2 DEF Known
  <2>5. Asked(k) => Asked(k)'
    BY <1>2, <2>2, <2>3 DEF Asked
  <2>6. Told(k) => Told(k)'
    <3> SUFFICES ASSUME Told(k)
                 PROVE  Told(k)'
      OBVIOUS
    <3>1. Len(down[k]) # 1
      BY <2>1, <2>2 DEF Told
    <3>2. down'[k] # <<>> /\ down'[k][Len(down'[k])] = down[k][Len(down[k])]
      BY <1>0, <1>2, <3>1, TailLast
    <3>3. \A i \in DOMAIN down'[k] : down'[k][i].tag = LastTag(k) <=> i = Len(down'[k])
      BY <1>2, <2>2 DEF Told
    <3> QED
      BY <1>2, <2>3, <3>2, <3>3 DEF Told
  <2> QED
    BY <1>1, <1>2, <1>3, <1>4, <2>4, <2>5, <2>6 DEF Coding, Compressing
<1>5. CASE ~Compressing(k) \/ ~Alive(k)
  BY <1>1, <1>2, <1>3, <1>5 DEF Coding, Compressing, Alive, CompressWaits
<1> QED
  BY <1>4, <1>5

LEMMA CodingAnswered ==
  ASSUME Typed, Typed', NEW k \in Conn, Coding(k), TagsFresh(k), IsAnswered(k)
  PROVE  Coding(k)'
<1> DEFINE e == Head(down[k])
<1>0. /\ down[k] \in Seq(Replies) /\ CompressWaits(k) \in SUBSET Waiters /\ srv[k].zip \in BOOLEAN
      /\ cli[k].zin \in BOOLEAN /\ LastTag(k) \in Nat /\ cli[k].result \in Seq(Outcomes)
      /\ LastTag(k) = Len(cli[k].result)
  BY Local DEF CompressWaits, LastTag
<1>1. /\ cli[k].zout => cli[k].phase = "ready"
      /\ srv[k].on => Coded(up[k], srv[k].zip) /\ CompressLast(up[k])
      /\ Coded(down[k], cli[k].zin) /\ OkLast(down[k], CompressWaits(k))
  BY DEF Coding
<1>2. /\ down[k] # <<>> /\ down'[k] = Tail(down[k]) /\ up'[k] = up[k] /\ srv'[k] = srv[k]
      /\ e.kind \in {"OK", "NO"}
      /\ cli'[k].pend = {p \in cli[k].pend : p.tag # e.tag}
      /\ cli'[k].result = (IF \E p \in cli[k].pend : p.tag = e.tag
                          THEN [cli[k].result EXCEPT ![e.tag] = e.kind] ELSE cli[k].result)
      /\ cli'[k].zin = (cli[k].zin \/ (e.kind = "OK" /\ \E p \in CompressWaits(k) : p.tag = e.tag))
      /\ cli'[k].phase = cli[k].phase /\ cli'[k].sent = cli[k].sent
      /\ cli'[k].zout = cli[k].zout
      /\ cli'[k].closed = cli[k].closed
  BY DEF IsAnswered, SameServer
<1>3. CompressWaits(k)' = {p \in CompressWaits(k) : p.tag # e.tag}
  BY <1>2 DEF CompressWaits
<1>4. /\ DOMAIN Tail(down[k]) = 1..(Len(down[k]) - 1) /\ Len(down[k]) \in Nat \ {0}
      /\ \A i \in 1..(Len(down[k]) - 1) : Tail(down[k])[i] = down[k][i + 1]
      /\ e = down[k][1] /\ Tail(down[k]) \in Seq(Replies)
      /\ Len(Tail(down[k])) = Len(down[k]) - 1 /\ DOMAIN down[k] = 1..Len(down[k])
  BY <1>0, <1>2, SeqTail, SeqDomain
<1>a. CompressWaits(k) = {[tag |-> LastTag(k), verb |-> "COMPRESS"]} => \A p \in CompressWaits(k) : p.tag = LastTag(k)
  OBVIOUS
<1>5. OkLast(down'[k], CompressWaits(k)')
  BY <1>0, <1>1, <1>2, <1>3, DownCompress
<1>6. Coded(down'[k], cli'[k].zin)
  <2>1. CASE e.kind = "OK" /\ \E p \in CompressWaits(k) : p.tag = e.tag
    <3>1. down'[k] = <<>>
      BY <1>0, <1>1, <1>2, <2>1, DownCompress
    <3> QED
      BY <3>1 DEF Coded
  <2>2. CASE ~(e.kind = "OK" /\ \E p \in CompressWaits(k) : p.tag = e.tag)
    <3>1. cli'[k].zin = cli[k].zin
      BY <1>0, <1>2, <2>2
    <3> QED
      BY <1>0, <1>1, <1>2, <3>1, CodedDown
  <2> QED
    BY <2>1, <2>2
<1>7. LastTag(k)' = LastTag(k)
  <2>1. e.kind \in Outcomes
    BY <1>2 DEF Outcomes, Outcome
  <2> QED
    BY <1>0, <1>2, <2>1, ElementSet DEF LastTag
<1>8. CASE Compressing(k) /\ Alive(k)
  <2>1. ~Known(k)
    BY <1>2 DEF Known
  <2>2. Asked(k) => Asked(k)'
    <3> SUFFICES ASSUME Asked(k)
                 PROVE  Asked(k)'
      OBVIOUS
    <3>1. e.tag # LastTag(k)
      BY <1>4 DEF Asked
    <3>2. CompressWaits(k)' = CompressWaits(k)
      BY <1>3, <3>1 DEF Asked
    <3>3. Result(k)' = Result(k)
      BY <1>2, <1>7, <3>1 DEF Result
    <3>4. ~cli'[k].zin
      BY <1>2, <1>a, <3>1 DEF Asked
    <3>5. \A i \in DOMAIN down'[k] : down'[k][i].tag # LastTag(k)
      BY <1>2, <1>4 DEF Asked
    <3> QED
      BY <1>2, <1>7, <3>2, <3>3, <3>4, <3>5 DEF Asked
  <2>3. Told(k) => Told(k)' \/ Known(k)'
    <3> SUFFICES ASSUME Told(k)
                 PROVE  Told(k)' \/ Known(k)'
      OBVIOUS
    <3>0. /\ Result(k) = "wait" /\ ~cli[k].zin /\ up[k] = <<>>
          /\ CompressWaits(k) = {[tag |-> LastTag(k), verb |-> "COMPRESS"]}
          /\ down[k][Len(down[k])].kind = (IF srv[k].zip THEN "OK" ELSE "NO")
          /\ \A i \in DOMAIN down[k] : down[k][i].tag = LastTag(k) <=> i = Len(down[k])
      BY DEF Told
    <3>1. CASE e.tag = LastTag(k)
      <4>1. Len(down[k]) = 1
        <5>1. 1 \in DOMAIN down[k] /\ down[k][1].tag = LastTag(k)
          BY <1>4, <3>1
        <5> QED
          BY <3>0, <5>1
      <4>2. down'[k] = <<>>
        BY <1>2, <1>4, <4>1, SeqDomain
      <4>3. e.kind = (IF srv[k].zip THEN "OK" ELSE "NO")
        BY <1>4, <3>0, <4>1
      <4>4. CompressWaits(k)' = {}
        BY <1>3, <3>0, <3>1
      <4>5. [tag |-> LastTag(k), verb |-> "COMPRESS"] \in cli[k].pend
        BY <3>0 DEF CompressWaits
      <4>6. \E p \in cli[k].pend : p.tag = e.tag
        BY <3>1, <4>5
      <4>7. Result(k)' = e.kind
        <5>1. LastTag(k) \in 1..Len(cli[k].result)
          <6>1. LastTag(k) \in 1..LastTag(k)
            BY <3>1, <4>6 DEF TagsFresh, WaitTags
          <6> QED
            BY <1>0, <6>1
        <5> QED
          BY <1>0, <1>2, <1>7, <3>1, <4>6, <5>1 DEF Result
      <4>8. cli'[k].zin = srv[k].zip
        <5>1. \E p \in CompressWaits(k) : p.tag = e.tag
          BY <3>0, <3>1
        <5> QED
          BY <1>0, <1>2, <3>0, <4>3, <5>1
      <4> QED
        BY <1>2, <3>0, <4>2, <4>3, <4>4, <4>7, <4>8 DEF Known
    <3>2. CASE e.tag # LastTag(k)
      <4>1. Len(down[k]) # 1
        BY <1>4, <3>0, <3>2
      <4>2. down'[k] # <<>> /\ down'[k][Len(down'[k])] = down[k][Len(down[k])]
        BY <1>0, <1>2, <4>1, TailLast
      <4>3. \A i \in DOMAIN down'[k] : down'[k][i].tag = LastTag(k) <=> i = Len(down'[k])
        BY <1>2, <1>4, <3>0
      <4>4. CompressWaits(k)' = CompressWaits(k)
        BY <1>3, <3>0, <3>2
      <4>5. Result(k)' = Result(k)
        BY <1>2, <1>7, <3>2 DEF Result
      <4>6. ~cli'[k].zin
        BY <1>2, <1>a, <3>0, <3>2
      <4> QED
        BY <1>2, <1>7, <3>0, <4>2, <4>3, <4>4, <4>5, <4>6 DEF Told
    <3> QED
      BY <3>1, <3>2
  <2> QED
    BY <1>1, <1>2, <1>5, <1>6, <1>8, <2>1, <2>2, <2>3 DEF Coding, Compressing
<1>9. CASE ~Compressing(k) \/ ~Alive(k)
  <2>1. Alive(k)' => Alive(k) /\ ~Compressing(k)
    BY <1>2, <1>9 DEF Alive
  <2>2. ~Compressing(k) => ~Compressing(k)'
    BY <1>2 DEF Compressing
  <2>3. Alive(k)' => CompressWaits(k)' = {} /\ cli'[k].zin = cli[k].zin
    BY <1>0, <1>2, <1>3, <2>1 DEF Coding
  <2> QED
    BY <1>1, <1>2, <1>5, <1>6, <2>1, <2>2, <2>3 DEF Coding
<1> QED
  BY <1>8, <1>9

-----------------------------------------------------------------------------
(* ... and the server *)

\* What is sent at once: the answer with tag t comes last.
Answers(es, t, kind, z) ==
  /\ es \in Seq(Replies) /\ es # <<>>
  /\ \A i \in 1..Len(es) :
       /\ es[i].z = z
       /\ IF i = Len(es) THEN es[i].tag = t /\ es[i].kind = kind
          ELSE es[i].tag = 0 /\ es[i].kind \notin {"OK", "NO"}

LEMMA AnswerAnswers ==
  ASSUME Typed, NEW k \in Conn, NEW e \in Lines
  PROVE  Answers(Answer(k, e), e.tag, "OK", srv[k].zip)
<1> DEFINE a == Answer(k, e)
<1>1. /\ a \in Seq(Replies) /\ Len(a) \in Nat \ {0}
      /\ a[Len(a)] = Reply("OK", e.tag, None, 0, srv[k].zip)
      /\ \A i \in 1..(Len(a) - 1) : a[i].tag = 0 /\ a[i].kind \notin {"OK", "NO"}
      /\ \A i \in 1..Len(a) : a[i].z = srv[k].zip
  BY AnswerIs
<1> HIDE DEF a
<1>2. Len(a) \in Nat \ {0}
  BY <1>1
<1>3. \A i \in 1..Len(a) : i \in 1..(Len(a) - 1) \/ i = Len(a)
  BY <1>2
<1>4. a # <<>>
  BY <1>2
<1>5. a[Len(a)].tag = e.tag /\ a[Len(a)].kind = "OK"
  BY <1>1 DEF Reply
<1> QED
  BY <1>1, <1>3, <1>4, <1>5 DEF Answers, a

LEMMA ReplyAnswers ==
  ASSUME Typed, NEW k \in Conn, NEW kind \in Kinds, NEW t \in Nat, NEW i \in Int
  PROVE  Answers(<<Reply(kind, t, None, i, srv[k].zip)>>, t, kind, srv[k].zip)
<1> DEFINE r == Reply(kind, t, None, i, srv[k].zip)
<1>1. r \in Replies
  BY Local DEF Reply, Replies
<1>2. r.z = srv[k].zip /\ r.tag = t /\ r.kind = kind
  BY DEF Reply
<1> HIDE DEF r
<1>3. Answers(<<r>>, t, kind, srv[k].zip)
  BY <1>1, <1>2 DEF Answers
<1> QED
  BY <1>3 DEF r

LEMMA CatAnswers ==
  ASSUME NEW d \in Seq(Replies), NEW es, NEW t, NEW kind, NEW z, Answers(es, t, kind, z)
  PROVE  LET f == d \o es
         IN /\ f \in Seq(Replies) /\ f # <<>> /\ Len(f) \in Nat /\ DOMAIN f = 1..Len(f)
            /\ f[Len(f)].tag = t /\ f[Len(f)].kind = kind
            /\ Len(d) < Len(f)
            /\ \A i \in 1..Len(f) : \/ i \in DOMAIN d /\ f[i] = d[i]
                                    \/ i = Len(f)
                                    \/ f[i].tag = 0 /\ f[i].kind \notin {"OK", "NO"}
<1> DEFINE f == d \o es
<1>1. es \in Seq(Replies) /\ Len(es) \in Nat \ {0} /\ Len(d) \in Nat /\ DOMAIN d = 1..Len(d)
  BY SeqDomain DEF Answers
<1>2. /\ f \in Seq(Replies) /\ Len(f) = Len(d) + Len(es) /\ DOMAIN f = 1..(Len(d) + Len(es))
      /\ \A i \in 1..Len(es) : f[Len(d) + i] = es[i]
  BY <1>1, SeqCat
<1>3. \A i \in DOMAIN f : \/ i \in 1..Len(d) /\ f[i] = d[i]
                          \/ i - Len(d) \in 1..Len(es) /\ f[i] = es[i - Len(d)]
  BY <1>1, SeqEither
<1> HIDE DEF f
<1>4. Len(f) \in Nat /\ Len(d) < Len(f) /\ DOMAIN f = 1..Len(f)
  BY <1>1, <1>2
<1>5. f # <<>>
  BY <1>1, <1>4
<1>6. f[Len(f)].tag = t /\ f[Len(f)].kind = kind
  BY <1>1, <1>2 DEF Answers
<1>7. ASSUME NEW i \in 1..Len(f)
      PROVE  \/ i \in DOMAIN d /\ f[i] = d[i]
             \/ i = Len(f)
             \/ f[i].tag = 0 /\ f[i].kind \notin {"OK", "NO"}
  <2>1. CASE i \in 1..Len(d) /\ f[i] = d[i]
    BY <1>1, <2>1
  <2>2. CASE i - Len(d) \in 1..Len(es) /\ f[i] = es[i - Len(d)]
    <3>1. CASE i - Len(d) = Len(es)
      BY <1>1, <1>2, <1>7, <3>1
    <3>2. CASE i - Len(d) # Len(es)
      BY <2>2, <3>2 DEF Answers
    <3> QED
      BY <3>1, <3>2
  <2> QED
    BY <1>3, <1>4, <1>7, <2>1, <2>2
<1> QED
  BY <1>2, <1>4, <1>5, <1>6, <1>7 DEF f

\* What a server that reads and answers makes of the coding.
LEMMA SentCoding ==
  ASSUME Typed, NEW k \in Conn, Coding(k), TagsFresh(k), PeerKnows(k), Reads(k),
         NEW es, NEW t, NEW kind, Answers(es, t, kind, srv[k].zip), Sends(k, es)
  PROVE  /\ Coded(down'[k], cli[k].zin) /\ OkLast(down'[k], CompressWaits(k))
         /\ Alive(k) => down'[k] = down[k] \o es
<1>0. down[k] \in Seq(Replies) /\ srv[k].on /\ srv[k].zip \in BOOLEAN /\ cli[k].zin \in BOOLEAN
      /\ up[k] # <<>> /\ es \in Seq(Replies)
  BY Local DEF Reads, Answers
<1>1. Coded(down[k], cli[k].zin) /\ OkLast(down[k], CompressWaits(k))
  BY DEF Coding
<1>2. CASE ~srv[k].peer
  <2>1. down'[k] = down[k] /\ ~Alive(k)
    BY <1>0, <1>2 DEF Sends, PeerKnows, Alive
  <2> QED
    BY <1>1, <2>1
<1>3. CASE srv[k].peer
  <2>1. down'[k] = down[k] \o es /\ Alive(k)
    BY <1>0, <1>3 DEF Sends, PeerKnows, Alive
  <2>2. /\ cli[k].zin = srv[k].zip
        /\ CompressWaits(k) = {} \/ Asked(k)
    BY <1>0, <2>1 DEF Coding, Asked, Told, Known
  <2>3. Coded(es, srv[k].zip)
    BY <1>0, SeqDomain DEF Answers, Coded
  <2>4. Coded(down'[k], cli[k].zin)
    BY <1>0, <1>1, <2>1, <2>2, <2>3, CodedDown
  <2>5. OkLast(down'[k], CompressWaits(k))
    <3> DEFINE f == down[k] \o es
    <3>1. CASE CompressWaits(k) = {}
      BY <3>1 DEF OkLast
    <3>2. CASE Asked(k)
      <4>1. \A p \in CompressWaits(k) : p.tag = LastTag(k)
        BY <3>2 DEF Asked
      <4>2. \A i \in DOMAIN down[k] : down[k][i].tag # LastTag(k)
        BY <3>2 DEF Asked
      <4>3. /\ DOMAIN f = 1..Len(f)
            /\ \A i \in 1..Len(f) : \/ i \in DOMAIN down[k] /\ f[i] = down[k][i]
                                    \/ i = Len(f)
                                    \/ f[i].tag = 0 /\ f[i].kind \notin {"OK", "NO"}
        BY <1>0, CatAnswers
      <4> HIDE DEF f
      <4>4. OkLast(f, CompressWaits(k))
        BY <4>1, <4>2, <4>3 DEF OkLast
      <4> QED
        BY <2>1, <4>4 DEF f
    <3> QED
      BY <2>2, <3>1, <3>2
  <2> QED
    BY <2>1, <2>4, <2>5
<1> QED
  BY <1>2, <1>3

\* What the server sends in a step, if it sends.
LEMMA ServedAnswers ==
  ASSUME Typed, NEW k \in Conn,
         Lined(k) \/ Refused(k) \/ Begins(k) \/ Fills(k) \/ Stores(k) \/ Rejects(k)
  PROVE  /\ Reads(k)
         /\ \/ down'[k] = down[k]
            \/ \E es, t, kind : Answers(es, t, kind, srv[k].zip) /\ Sends(k, es)
<1>0. up[k] \in Seq(Lines) /\ srv[k].cmd \in Lines
  BY Local DEF Servers
<1>1. Reads(k)
  BY DEF Lined, Refused, Begins, Fills, Stores, Rejects
<1>2. Head(up[k]) \in Lines
  BY <1>0, <1>1, SeqTail DEF Reads
<1>3. Head(up[k]).tag \in Nat /\ srv[k].cmd.tag \in Nat
  BY <1>0, <1>2 DEF Lines
<1>4. {"OK", "NO", "+"} \subseteq Kinds
  BY DEF Kinds
<1>5. CASE Lined(k)
  <2>1. Answers(Answer(k, Head(up[k])), Head(up[k]).tag, "OK", srv[k].zip)
    BY <1>2, AnswerAnswers
  <2> QED
    BY <1>1, <1>5, <2>1 DEF Lined
<1>6. CASE Refused(k)
  <2>1. Answers(<<Reply("NO", Head(up[k]).tag, None, 0, srv[k].zip)>>, Head(up[k]).tag, "NO", srv[k].zip)
    BY <1>3, <1>4, ReplyAnswers
  <2> QED
    BY <1>1, <1>6, <2>1 DEF Refused
<1>7. CASE Begins(k)
  <2>1. Answers(<<Reply("+", 0, None, 0, srv[k].zip)>>, 0, "+", srv[k].zip)
    BY <1>4, ReplyAnswers
  <2> QED
    BY <1>1, <1>7, <2>1 DEF Begins
<1>8. CASE Fills(k)
  BY <1>1, <1>8 DEF Fills
<1>9. CASE Stores(k)
  <2>1. PICK n \in Nat : Sends(k, <<Reply("OK", srv[k].cmd.tag, None, n, srv[k].zip)>>)
    BY <1>9 DEF Stores
  <2>2. n \in Int
    BY <2>1
  <2>3. Answers(<<Reply("OK", srv[k].cmd.tag, None, n, srv[k].zip)>>, srv[k].cmd.tag, "OK", srv[k].zip)
    BY <1>3, <1>4, <2>2, ReplyAnswers
  <2> QED
    BY <1>1, <2>1, <2>3
<1>10. CASE Rejects(k)
  <2>1. Answers(<<Reply("NO", srv[k].cmd.tag, None, 0, srv[k].zip)>>, srv[k].cmd.tag, "NO", srv[k].zip)
    BY <1>3, <1>4, ReplyAnswers
  <2> QED
    BY <1>1, <1>10, <2>1 DEF Rejects
<1> QED
  BY <1>5, <1>6, <1>7, <1>8, <1>9, <1>10

\* COMPRESS, or what was written before it, is served.
LEMMA AskedServed ==
  ASSUME Typed, Typed', NEW k \in Conn, Coding(k), TagsFresh(k), PeerKnows(k), Alive(k), Asked(k), SameVoice(k),
         NEW kind, Reads(k),
         NEW es, Answers(es, Head(up[k]).tag, kind, srv[k].zip), Sends(k, es),
         IF Head(up[k]).verb = "COMPRESS" THEN kind = (IF srv'[k].zip THEN "OK" ELSE "NO")
         ELSE srv'[k].zip = srv[k].zip
  PROVE  Asked(k)' \/ Told(k)'
<1> DEFINE u == up[k]
           d == down[k]
           f == down'[k]
           e == Head(up[k])
           t == LastTag(k)
<1>0. /\ u \in Seq(Lines) /\ d \in Seq(Replies) /\ u # <<>> /\ up'[k] = Tail(u) /\ t \in Nat
      /\ cli'[k].zin = cli[k].zin /\ Result(k)' = Result(k) /\ LastTag(k)' = t
      /\ CompressWaits(k)' = CompressWaits(k)
  BY Local DEF Reads, SameVoice, Result, LastTag, CompressWaits
<1>1. f = d \o es
  BY SentCoding
<1>2. /\ DOMAIN f = 1..Len(f) /\ f # <<>> /\ Len(f) \in Nat
      /\ f[Len(f)].tag = e.tag /\ f[Len(f)].kind = kind /\ Len(d) < Len(f)
      /\ \A i \in 1..Len(f) : \/ i \in DOMAIN d /\ f[i] = d[i]
                              \/ i = Len(f)
                              \/ f[i].tag = 0 /\ f[i].kind \notin {"OK", "NO"}
  BY <1>0, <1>1, CatAnswers
<1>3. /\ Result(k) = "wait" /\ CompressWaits(k) = {[tag |-> t, verb |-> "COMPRESS"]}
      /\ ~srv[k].zip /\ ~cli[k].zin
      /\ u[Len(u)].verb = "COMPRESS" /\ u[Len(u)].tag = t
      /\ \A i \in DOMAIN d : d[i].tag # t
  BY DEF Asked
<1>4. t \in 1..t
  <2>1. [tag |-> t, verb |-> "COMPRESS"] \in cli[k].pend
    BY <1>3 DEF CompressWaits
  <2> QED
    BY <2>1 DEF TagsFresh, WaitTags
<1>8. t # 0
  BY <1>4
<1>5. /\ Len(u) \in Nat \ {0} /\ DOMAIN u = 1..Len(u) /\ e = u[1]
  BY <1>0, SeqTail, SeqDomain
<1> HIDE DEF u, d, f, e, t
<1>6. CASE e.verb = "COMPRESS"
  <2>1. CompressLast(u)
    BY DEF Coding, Alive, u
  <2>2. Len(u) = 1 /\ Tail(u) = <<>>
    <3>1. u[1].verb = "COMPRESS" /\ 1 \in DOMAIN u
      BY <1>5, <1>6
    <3>2. Len(u) = 1
      BY <2>1, <3>1 DEF CompressLast
    <3>3. Head(u).verb = "COMPRESS"
      BY <1>6 DEF e, u
    <3>4. Tail(u) = <<>>
      BY <1>0, <2>1, <3>3, UpCompress
    <3> QED
      BY <3>2, <3>4
  <2>3. e.tag = t
    BY <1>3, <1>5, <2>2
  <2>4. \A i \in DOMAIN f : f[i].tag = t <=> i = Len(f)
    <3>2. ASSUME NEW i \in 1..Len(f), i # Len(f)
          PROVE  f[i].tag # t
      <4>1. \/ i \in DOMAIN d /\ f[i] = d[i]
            \/ f[i].tag = 0 /\ f[i].kind \notin {"OK", "NO"}
        BY <1>2, <3>2
      <4> QED
        BY <1>3, <1>8, <4>1
    <3>4. f[Len(f)].tag = t
      BY <1>2, <2>3
    <3> QED
      BY <1>2, <3>2, <3>4
  <2>5. kind = (IF srv'[k].zip THEN "OK" ELSE "NO")
    BY <1>6 DEF e
  <2>6. Told(k)'
    BY <1>0, <1>2, <1>3, <2>2, <2>4, <2>5 DEF Told, f, t
  <2> QED
    BY <2>6
<1>7. CASE e.verb # "COMPRESS"
  <2>1. Len(u) # 1
    BY <1>3, <1>5, <1>7
  <2>2. Tail(u) # <<>> /\ Tail(u)[Len(Tail(u))] = u[Len(u)]
    BY <1>0, <2>1, TailLast
  <2>3. e.tag # t
    <3>1. UpOrder(u)
      BY DEF TagsFresh, u
    <3>2. 1 \in DOMAIN u /\ Len(u) \in DOMAIN u /\ 1 < Len(u)
      BY <1>5, <2>1
    <3>3. u[1].tag < u[Len(u)].tag
      BY <1>3, <1>4, <3>1, <3>2 DEF UpOrder
    <3> QED
      BY <1>0, <1>3, <1>5, <3>3
  <2>4. \A i \in DOMAIN f : f[i].tag # t
    <3> SUFFICES ASSUME NEW i \in 1..Len(f)
                 PROVE  f[i].tag # t
      BY <1>2
    <3>1. \/ i \in DOMAIN d /\ f[i] = d[i]
          \/ i = Len(f)
          \/ f[i].tag = 0 /\ f[i].kind \notin {"OK", "NO"}
      BY <1>2
    <3> QED
      BY <1>2, <1>3, <1>8, <2>3, <3>1
  <2>5. srv'[k].zip = srv[k].zip
    BY <1>7 DEF e
  <2>6. Asked(k)'
    BY <1>0, <1>3, <2>2, <2>4, <2>5 DEF Asked, f, t, u
  <2> QED
    BY <2>6
<1> QED
  BY <1>6, <1>7

LEMMA CodingServes ==
  ASSUME Typed, Typed', NEW k \in Conn, Coding(k), TagsFresh(k), PeerKnows(k), OpenFirst, Quiet, Serves(k)
  PROVE  Coding(k)'
<1> DEFINE read == Lined(k) \/ Refused(k) \/ Begins(k) \/ Fills(k) \/ Stores(k) \/ Rejects(k)
<1>0. /\ up[k] \in Seq(Lines) /\ down[k] \in Seq(Replies) /\ srv[k] \in Servers /\ srv'[k] \in Servers
      /\ CompressWaits(k) \in SUBSET Waiters
  BY Local DEF CompressWaits, Typed, ServersTyped
<1>1. /\ cli[k].zout => cli[k].phase = "ready"
      /\ srv[k].on => Coded(up[k], srv[k].zip) /\ CompressLast(up[k])
      /\ Coded(down[k], cli[k].zin) /\ OkLast(down[k], CompressWaits(k))
  BY DEF Coding
<1>2. /\ cli'[k].zout = cli[k].zout /\ cli'[k].zin = cli[k].zin /\ cli'[k].phase = cli[k].phase
      /\ cli'[k].closed = cli[k].closed /\ CompressWaits(k)' = CompressWaits(k)
      /\ Compressing(k)' = Compressing(k) /\ Result(k)' = Result(k) /\ LastTag(k)' = LastTag(k)
  BY DEF Serves, SameVoice, CompressWaits, Compressing, Result, LastTag
<1>3. read \/ Breaks(k) \/ Hangs(k)
  BY ServerCases DEF Serves
<1>4. srv'[k].on => srv[k].on
  BY <1>3 DEF Lined, Refused, Begins, Fills, Stores, Rejects, Breaks, Hangs, Reads, SameServer
<1>5. read => /\ \/ srv'[k].zip = srv[k].zip
                 \/ Lined(k) /\ Head(up[k]).verb = "COMPRESS" /\ srv'[k].zip
  BY <1>0 DEF Lined, Refused, Begins, Fills, Stores, Rejects, SameServer, Servers
<1>6. srv'[k].on => Coded(up'[k], srv'[k].zip) /\ CompressLast(up'[k])
  <2>1. CASE read
    <3> SUFFICES ASSUME srv'[k].on
                 PROVE  Coded(up'[k], srv'[k].zip) /\ CompressLast(up'[k])
      OBVIOUS
    <3>1. up[k] # <<>> /\ up'[k] = Tail(up[k]) /\ srv[k].on
      BY <2>1, ServedAnswers DEF Reads
    <3>2. Coded(Tail(up[k]), srv[k].zip) /\ CompressLast(Tail(up[k]))
      BY <1>0, <1>1, <3>1, CodedUp, UpCompress
    <3>3. CASE srv'[k].zip = srv[k].zip
      BY <3>1, <3>2, <3>3
    <3>4. CASE Head(up[k]).verb = "COMPRESS"
      <4>1. Tail(up[k]) = <<>>
        BY <1>0, <1>1, <3>1, <3>4, UpCompress
      <4>2. DOMAIN (<<>>) = {}
        OBVIOUS
      <4> QED
        BY <3>1, <3>2, <4>1, <4>2 DEF Coded
    <3> QED
      BY <1>5, <2>1, <3>3, <3>4
  <2>2. CASE Breaks(k)
    BY <2>2 DEF Breaks
  <2>3. CASE Hangs(k)
    BY <1>1, <1>4, <2>3 DEF Hangs
  <2> QED
    BY <1>3, <2>1, <2>2, <2>3
<1>7. Coded(down'[k], cli[k].zin) /\ OkLast(down'[k], CompressWaits(k))
  <2>1. CASE read
    <3>1. CASE down'[k] = down[k]
      BY <1>1, <3>1
    <3>2. CASE \E es, t, kind : Answers(es, t, kind, srv[k].zip) /\ Sends(k, es)
      <4>1. PICK es, t, kind : Answers(es, t, kind, srv[k].zip) /\ Sends(k, es)
        BY <3>2
      <4>2. Reads(k)
        BY <2>1, ServedAnswers
      <4> QED
        BY <4>1, <4>2, SentCoding
    <3> QED
      BY <2>1, <3>1, <3>2, ServedAnswers
  <2>2. CASE Breaks(k)
    <3>1. PICK n \in 0..Len(down[k]) : down'[k] = SubSeq(down[k], 1, n)
      BY <2>2 DEF Breaks
    <3> QED
      BY <1>0, <1>1, <3>1, CodedDown, DownCompress
  <2>3. CASE Hangs(k)
    BY <1>1, <2>3 DEF Hangs
  <2> QED
    BY <1>3, <2>1, <2>2, <2>3
<1>8. ASSUME Alive(k)'
      PROVE  IF Compressing(k)
             THEN ~cli[k].zout /\ (Asked(k)' \/ Told(k)' \/ Known(k)')
             ELSE /\ srv'[k].zip = cli[k].zout /\ cli[k].zin = cli[k].zout
                  /\ CompressWaits(k) = {} /\ Uncompressed(up'[k])
  <2>1. Alive(k) /\ ~Breaks(k)
    BY <1>2, <1>4, <1>8 DEF Alive, Breaks
  <2>2. CASE ~Compressing(k)
    <3>1. /\ srv[k].zip = cli[k].zout /\ cli[k].zin = cli[k].zout
          /\ CompressWaits(k) = {} /\ Uncompressed(up[k])
      BY <2>1, <2>2 DEF Coding
    <3>2. CASE read
      <4>1. up[k] # <<>> /\ up'[k] = Tail(up[k])
        BY <3>2, ServedAnswers DEF Reads
      <4>2. Uncompressed(Tail(up[k])) /\ Head(up[k]).verb # "COMPRESS"
        BY <1>0, <3>1, <4>1, UpUncompressed
      <4> QED
        BY <1>5, <2>2, <3>1, <3>2, <4>1, <4>2
    <3>3. CASE Hangs(k)
      BY <2>2, <3>1, <3>3 DEF Hangs
    <3> QED
      BY <1>3, <2>1, <3>2, <3>3
  <2>3. CASE Compressing(k)
    <3>1. ~cli[k].zout /\ (Asked(k) \/ Told(k) \/ Known(k))
      BY <2>1, <2>3 DEF Coding
    <3>2. CASE read
      <4>1. up[k] # <<>> /\ Reads(k)
        BY <3>2, ServedAnswers DEF Reads
      <4>2. Asked(k)
        BY <3>1, <4>1 DEF Told, Known
      <4>3. pc = "open"
        BY <2>3 DEF Compressing, OpenFirst
      <4>4. srv[k].cmd = NoLine /\ up[k] \in Seq(Modest)
        BY <4>3 DEF Quiet
      <4>5. Head(up[k]) \in Modest
        BY <4>1, <4>4, SeqTail
      <4>6. Lined(k) \/ Refused(k)
        BY <3>2, <4>4, <4>5 DEF Begins, Fills, Stores, Rejects, Modest
      <4>7. CASE Lined(k)
        <5>1. Answers(Answer(k, Head(up[k])), Head(up[k]).tag, "OK", srv[k].zip)
          BY <4>5, AnswerAnswers DEF Modest
        <5>2. Sends(k, Answer(k, Head(up[k])))
          BY <4>7 DEF Lined
        <5>3. srv'[k].zip = (srv[k].zip \/ Head(up[k]).verb = "COMPRESS")
          BY <4>7 DEF Lined
        <5>4. IF Head(up[k]).verb = "COMPRESS" THEN "OK" = (IF srv'[k].zip THEN "OK" ELSE "NO")
              ELSE srv'[k].zip = srv[k].zip
          BY <1>0, <5>3 DEF Servers
        <5>5. Asked(k)' \/ Told(k)'
          BY <2>1, <4>1, <4>2, <5>1, <5>2, <5>4, AskedServed DEF Serves
        <5> QED
          BY <2>3, <3>1, <5>5
      <4>8. CASE Refused(k)
        <5> DEFINE es == <<Reply("NO", Head(up[k]).tag, None, 0, srv[k].zip)>>
        <5>1. Answers(es, Head(up[k]).tag, "NO", srv[k].zip)
          <6>1. Head(up[k]).tag \in Nat /\ "NO" \in Kinds
            BY <4>5 DEF Modest, Lines, Kinds
          <6> QED
            BY <6>1, ReplyAnswers
        <5>2. Sends(k, es)
          BY <4>8 DEF Refused
        <5>3. srv'[k].zip = srv[k].zip /\ ~srv[k].zip
          BY <4>2, <4>8 DEF Refused, SameServer, Asked
        <5> HIDE DEF es
        <5>4. IF Head(up[k]).verb = "COMPRESS" THEN "NO" = (IF srv'[k].zip THEN "OK" ELSE "NO")
              ELSE srv'[k].zip = srv[k].zip
          BY <5>3
        <5>5. Asked(k)' \/ Told(k)'
          BY <2>1, <4>1, <4>2, <5>1, <5>2, <5>4, AskedServed DEF Serves
        <5> QED
          BY <2>3, <3>1, <5>5
      <4> QED
        BY <4>6, <4>7, <4>8
    <3>3. CASE Hangs(k)
      <4>1. up'[k] = up[k] /\ down'[k] = down[k] /\ srv'[k].zip = srv[k].zip
        BY <3>3 DEF Hangs
      <4>2. Asked(k)' \/ Told(k)' \/ Known(k)'
        BY <1>2, <3>1, <4>1 DEF Asked, Told, Known
      <4> QED
        BY <2>3, <3>1, <4>2
    <3> QED
      BY <1>3, <2>1, <3>2, <3>3
  <2> QED
    BY <2>2, <2>3
<1> QED
  BY <1>1, <1>2, <1>6, <1>7, <1>8 DEF Coding

-----------------------------------------------------------------------------
(* CodingAgrees *)

LEMMA CodingInit == Init => CodingInv
<1> SUFFICES ASSUME Init
             PROVE  CodingInv
  OBVIOUS
<1>0. Typed
  BY InitTyped
<1>1. PICK plus \in BOOLEAN : cli = [k \in Conn |-> NewClient(plus)]
  BY Constants DEF Init, ClientInit
<1>2. ASSUME NEW k \in Conn
      PROVE  /\ cli[k].phase = "greeting" /\ ~cli[k].sent /\ ~cli[k].zin /\ ~cli[k].zout /\ ~cli[k].closed
             /\ cli[k].pend = {} /\ cli[k].result = <<>> /\ cli[k].reader = "off"
             /\ cli[k].fifo = <<>> /\ cli[k].to = None
             /\ up[k] = <<>> /\ down[k] = <<Reply("GREETING", 0, None, 0, FALSE)>>
             /\ srv[k].on /\ srv[k].peer /\ ~srv[k].zip /\ srv[k].cmd = NoLine
  BY <1>1 DEF Init, ServerInit, NewClient
<1> DEFINE g == Reply("GREETING", 0, None, 0, FALSE)
<1>3. g \in Bodiless /\ g.tag = 0 /\ g.z = FALSE /\ g.kind = "GREETING"
  BY DEF Bodiless, Replies, Reply, Kinds
<1> HIDE DEF g
<1>x. ASSUME NEW k \in Conn
      PROVE  up[k] = <<>> /\ down[k] = <<g>> /\ cli[k].result = <<>>
  BY <1>2 DEF g
<1>4. OpenFirst
  BY DEF Init, OpenFirst
<1>5. Quiet
  <2>1. <<>> \in Seq(Modest) /\ <<g>> \in Seq(Bodiless)
    BY <1>3
  <2>2. "off" # "literal"
    OBVIOUS
  <2> QED
    BY <1>2, <1>x, <2>1, <2>2 DEF Quiet
<1>6. ASSUME NEW k \in Conn
      PROVE  TagsFresh(k) /\ PeerKnows(k) /\ Coding(k)
  <2>1. DOMAIN up[k] = {} /\ DOMAIN down[k] = {1} /\ down[k][1].tag = 0 /\ down[k][1].z = FALSE
        /\ down[k][1].kind = "GREETING"
    BY <1>x, <1>3
  <2>2. Len(cli[k].result) = 0
    <3>1. Len(<<>>) = 0
      OBVIOUS
    <3> QED
      BY <1>x, <3>1
  <2>a. cli[k].pend = {} /\ srv[k].cmd = NoLine
    BY <1>2
  <2>b. /\ ~cli[k].sent /\ ~cli[k].zin /\ ~cli[k].zout /\ ~srv[k].zip /\ cli[k].zin \in BOOLEAN
        /\ cli[k].zout \in BOOLEAN /\ srv[k].zip \in BOOLEAN
    BY <1>2, <1>0, Local DEF Servers
  <2>3. TagsFresh(k)
    BY <2>a, <2>1, <2>2 DEF TagsFresh, UpTags, UpOrder, DownTags, WaitTags, CmdTags, LastTag
  <2>4. PeerKnows(k)
    BY <1>2 DEF PeerKnows
  <2>5. Coding(k)
    BY <2>a, <2>b, <2>1 DEF Coding, Coded, CompressLast, Uncompressed, OkLast, CompressWaits, Compressing
  <2> QED
    BY <2>3, <2>4, <2>5
<1> QED
  BY <1>4, <1>5, <1>6 DEF CodingInv

LEMMA CodingNext ==
  ASSUME Typed, CodingInv, [Next]_vars
  PROVE  CodingInv'
<1>1. Typed'
  BY TypedNext
<1>2. OpenFirst /\ Quiet
  BY DEF CodingInv
<1>3. OpenFirst' /\ Quiet'
  BY <1>2, OpenFirstStays, QuietStays
<1>4. ASSUME NEW k \in Conn
      PROVE  TagsFresh(k)' /\ PeerKnows(k)' /\ Coding(k)'
  <2>1. Move(k)
    BY Moves
  <2>2. TagsFresh(k) /\ PeerKnows(k) /\ Coding(k)
    BY DEF CodingInv
  <2>3. TagsFresh(k)' /\ PeerKnows(k)'
    BY <1>1, <2>1, <2>2, TagsStay, PeerKnowsStays
  <2>4. CASE Rests(k) \/ CallsInVain(k) \/ Finds(k) \/ Closes(k) \/ Tells(k)
    BY <1>1, <2>2, <2>3, <2>4, CodingEnds
  <2>5. CASE Feeds(k) \/ Calls(k) \/ Greets(k)
    BY <1>1, <1>2, <2>2, <2>3, <2>5, CodingWrites
  <2>6. CASE Opens1(k) \/ Proceeds(k)
    BY <1>1, <2>2, <2>3, <2>6, CodingOpens
  <2>7. CASE Hears(k)
    BY <1>1, <1>2, <2>2, <2>3, <2>7, CodingHears
  <2>8. CASE IsAnswered(k)
    BY <1>1, <2>2, <2>3, <2>8, CodingAnswered
  <2>9. CASE Serves(k)
    BY <1>1, <1>2, <2>2, <2>3, <2>9, CodingServes
  <2> QED
    BY <2>1, <2>4, <2>5, <2>6, <2>7, <2>8, <2>9 DEF Move
<1> QED
  BY <1>3, <1>4 DEF CodingInv

LEMMA CodingHolds == Spec => [](Typed /\ CodingInv)
<1>1. Init => Typed /\ CodingInv
  BY InitTyped, CodingInit
<1>2. Typed /\ CodingInv /\ [Next]_vars => (Typed /\ CodingInv)'
  BY TypedNext, CodingNext
<1> QED
  BY <1>1, <1>2, PTL DEF Spec

\* Both ends change to the deflate stream at the same place in both directions:
\* what the server is about to read was written the way it reads (StartCompress
\* wraps the writer), and what the reader is about to read was written the way it
\* reads (route wraps the reader), whether the server grants COMPRESS or not.
THEOREM CodingAgreesHolds == Spec => []CodingAgrees
<1>1. Typed /\ CodingInv => CodingAgrees
  <2> SUFFICES ASSUME Typed, CodingInv, NEW k \in Conn
               PROVE  /\ srv[k].on /\ up[k] # <<>> => Head(up[k]).z = srv[k].zip
                      /\ cli[k].reader # "off" /\ down[k] # <<>> => NextResponse(k).z = cli[k].zin
    BY DEF CodingAgrees
  <2>1. Coding(k) /\ up[k] \in Seq(Lines) /\ down[k] \in Seq(Replies)
    BY Local DEF CodingInv
  <2>2. (srv[k].on => Coded(up[k], srv[k].zip)) /\ Coded(down[k], cli[k].zin)
    BY <2>1 DEF Coding
  <2> QED
    BY <2>1, <2>2, CodedUp, CodedDown DEF NextResponse
<1> QED
  BY <1>1, CodingHolds, PTL

-----------------------------------------------------------------------------
(* The tag of an APPEND stands for its message *)

\* What is stored stays, and a step stores at most what its server has in hand.
LEMMA BoxGrows ==
  ASSUME Typed, Typed', Move(dst), NEW m, Stored(m)
  PROVE  Stored(m)'
<1> USE Constants
<1> DEFINE Rec == [row : Msg \union {None}, body : Seq(Chunks)]
<1>0. box[dst] \in Seq(Rec) /\ srv[dst] \in Servers
  BY Local DEF Typed, BoxTyped
<1>1. CASE box'[dst] = box[dst]
  BY <1>1 DEF Stored
<1>2. CASE Stores(dst)
  <2> DEFINE r == [row |-> srv[dst].cmd.msg, body |-> srv[dst].got]
  <2>1. box'[dst] = Append(box[dst], r) /\ r \in Rec
    BY <1>0, <1>2 DEF Stores, Servers, Lines
  <2> HIDE DEF r, Rec
  <2>2. /\ DOMAIN box[dst] = 1..Len(box[dst]) /\ DOMAIN box'[dst] = 1..(Len(box[dst]) + 1) /\ Len(box[dst]) \in Nat
        /\ \A i \in 1..Len(box[dst]) : box'[dst][i] = box[dst][i]
    BY <1>0, <2>1, SeqAppend, SeqDomain
  <2> QED
    BY <2>2 DEF Stored
<1>3. box'[dst] = box[dst] \/ Stores(dst)
  <2>1. CASE Serves(dst)
    BY <2>1, ServerCases DEF Serves, Lined, Refused, Begins, Fills, Rejects, Breaks, Hangs, SameServer
  <2> QED
    BY <2>1 DEF Move, Rests, Feeds, Calls, CallsInVain, Greets, Opens1, Proceeds, Hears, IsAnswered, Finds, Closes,
         Tells, SameWire, SameServer
<1> QED
  BY <1>1, <1>2, <1>3

UpTraced(u, m, t) == \A i \in DOMAIN u : u[i].tag = t => u[i].verb = "APPEND" /\ u[i].msg = m
DownTraced(d, m, t) == \A i \in DOMAIN d : d[i].kind = "OK" /\ d[i].tag = t => Stored(m)

LEMMA TraceMoves ==
  ASSUME NEW u \in Seq(Lines), NEW d \in Seq(Replies), NEW m, NEW t
  PROVE  /\ UpTraced(u, m, t) /\ u # <<>> =>
              UpTraced(Tail(u), m, t) /\ (Head(u).tag = t => Head(u).verb = "APPEND" /\ Head(u).msg = m)
         /\ UpTraced(u, m, t) => /\ \A l \in 0..Len(u) : UpTraced(SubSeq(u, 1, l), m, t)
                                 /\ \A e \in Lines : e.tag # t => UpTraced(Append(u, e), m, t)
         /\ DownTraced(d, m, t) /\ d # <<>> =>
              DownTraced(Tail(d), m, t) /\ (Head(d).kind = "OK" /\ Head(d).tag = t => Stored(m))
         /\ DownTraced(d, m, t) => \A l \in 0..Len(d) : DownTraced(SubSeq(d, 1, l), m, t)
<1>1. ASSUME UpTraced(u, m, t), u # <<>>
      PROVE  UpTraced(Tail(u), m, t) /\ (Head(u).tag = t => Head(u).verb = "APPEND" /\ Head(u).msg = m)
  BY <1>1, SeqTail, SeqDomain DEF UpTraced
<1>2. ASSUME UpTraced(u, m, t), NEW l \in 0..Len(u)
      PROVE  UpTraced(SubSeq(u, 1, l), m, t)
  <2>1. /\ DOMAIN SubSeq(u, 1, l) = 1..l /\ DOMAIN u = 1..Len(u) /\ Len(u) \in Nat
        /\ \A i \in 1..l : SubSeq(u, 1, l)[i] = u[i]
    BY <1>2, SeqPrefix, SeqDomain
  <2> QED
    BY <1>2, <2>1 DEF UpTraced
<1>3. ASSUME UpTraced(u, m, t), NEW e \in Lines, e.tag # t
      PROVE  UpTraced(Append(u, e), m, t)
  <2> DEFINE v == Append(u, e)
  <2>1. /\ Len(u) \in Nat /\ DOMAIN v = 1..(Len(u) + 1) /\ DOMAIN u = 1..Len(u)
        /\ \A i \in 1..Len(u) : v[i] = u[i]
        /\ v[Len(u) + 1] = e
    BY <1>3, SeqAppend, SeqDomain
  <2> HIDE DEF v
  <2>2. UpTraced(v, m, t)
    BY <1>3, <2>1 DEF UpTraced
  <2> QED
    BY <2>2 DEF v
<1>4. ASSUME DownTraced(d, m, t), d # <<>>
      PROVE  DownTraced(Tail(d), m, t) /\ (Head(d).kind = "OK" /\ Head(d).tag = t => Stored(m))
  BY <1>4, SeqTail, SeqDomain DEF DownTraced
<1>5. ASSUME DownTraced(d, m, t), NEW l \in 0..Len(d)
      PROVE  DownTraced(SubSeq(d, 1, l), m, t)
  <2>1. /\ DOMAIN SubSeq(d, 1, l) = 1..l /\ DOMAIN d = 1..Len(d) /\ Len(d) \in Nat
        /\ \A i \in 1..l : SubSeq(d, 1, l)[i] = d[i]
    BY <1>5, SeqPrefix, SeqDomain
  <2> QED
    BY <1>5, <2>1 DEF DownTraced
<1> QED
  BY <1>1, <1>2, <1>3, <1>4, <1>5

\* The server, too, takes a tag for what it stands for.
LEMMA TraceServed ==
  ASSUME Typed, Typed', Serves(dst), NEW m, NEW t, t # 0, Traced(m, t)
  PROVE  /\ UpTraced(up'[dst], m, t)
         /\ srv'[dst].cmd.tag = t => srv'[dst].cmd.msg = m
         /\ \A i \in DOMAIN down'[dst] : down'[dst][i].kind = "OK" /\ down'[dst][i].tag = t => Stored(m)'
<1> USE Constants
<1> DEFINE e == Head(up[dst])
<1>0. /\ up[dst] \in Seq(Lines) /\ down[dst] \in Seq(Replies) /\ srv[dst].cmd \in Lines
      /\ Move(dst) /\ box[dst] \in Seq([row : Msg \union {None}, body : Seq(Chunks)])
  BY Local DEF Servers, Move, Typed, BoxTyped
<1>1. /\ UpTraced(up[dst], m, t) /\ DownTraced(down[dst], m, t)
      /\ srv[dst].cmd.tag = t => srv[dst].cmd.msg = m
  BY DEF Traced, UpTraced, DownTraced
<1>2. Stored(m) => Stored(m)'
  BY <1>0, BoxGrows
<1>3. Reads(dst) => UpTraced(up'[dst], m, t) /\ (e.tag = t => e.verb = "APPEND" /\ e.msg = m)
  <2> SUFFICES ASSUME Reads(dst)
               PROVE  UpTraced(up'[dst], m, t) /\ (e.tag = t => e.verb = "APPEND" /\ e.msg = m)
    OBVIOUS
  <2>1. up[dst] # <<>> /\ up'[dst] = Tail(up[dst])
    BY DEF Reads
  <2>2. UpTraced(Tail(up[dst]), m, t) /\ (e.tag = t => e.verb = "APPEND" /\ e.msg = m)
    BY <1>0, <1>1, <2>1, SeqTail, SeqDomain DEF UpTraced
  <2> QED
    BY <2>1, <2>2
<1>4. \A i \in DOMAIN down[dst] : down[dst][i].kind = "OK" /\ down[dst][i].tag = t => Stored(m)'
  BY <1>1, <1>2 DEF DownTraced
<1>5. ASSUME NEW es, NEW t1, NEW kind, Answers(es, t1, kind, srv[dst].zip), Sends(dst, es),
             kind = "OK" /\ t1 = t => Stored(m)'
      PROVE  \A i \in DOMAIN down'[dst] : down'[dst][i].kind = "OK" /\ down'[dst][i].tag = t => Stored(m)'
  <2>1. CASE ~srv[dst].peer
    BY <1>4, <1>5, <2>1 DEF Sends
  <2>2. CASE srv[dst].peer
    <3> DEFINE f == down[dst] \o es
    <3>1. /\ DOMAIN f = 1..Len(f) /\ f[Len(f)].tag = t1 /\ f[Len(f)].kind = kind
          /\ \A i \in 1..Len(f) : \/ i \in DOMAIN down[dst] /\ f[i] = down[dst][i]
                                  \/ i = Len(f)
                                  \/ f[i].tag = 0 /\ f[i].kind \notin {"OK", "NO"}
      BY <1>0, <1>5, CatAnswers
    <3>2. down'[dst] = f
      BY <1>5, <2>2 DEF Sends
    <3> HIDE DEF f
    <3> QED
      BY <1>4, <1>5, <3>1, <3>2
  <2> QED
    BY <2>1, <2>2
<1>6. CASE Lined(dst)
  <2>1. Answers(Answer(dst, e), e.tag, "OK", srv[dst].zip)
    <3>1. e \in Lines
      BY <1>0, <1>6, SeqTail DEF Lined, Reads
    <3> QED
      BY <3>1, AnswerAnswers
  <2>2. Sends(dst, Answer(dst, e)) /\ Reads(dst) /\ e.verb # "APPEND" /\ srv'[dst].cmd = srv[dst].cmd
    BY <1>6 DEF Lined
  <2> QED
    BY <1>1, <1>3, <1>5, <2>1, <2>2
<1>7. CASE Refused(dst)
  <2>1. Reads(dst) /\ e \in Lines /\ srv'[dst] = srv[dst]
    BY <1>0, <1>7, SeqTail DEF Refused, Reads, SameServer
  <2> DEFINE es == <<Reply("NO", e.tag, None, 0, srv[dst].zip)>>
  <2>2. Answers(es, e.tag, "NO", srv[dst].zip)
    BY <2>1, ReplyAnswers DEF Lines, Kinds
  <2>3. Sends(dst, es)
    BY <1>7 DEF Refused
  <2> HIDE DEF es
  <2> QED
    BY <1>1, <1>3, <1>5, <2>1, <2>2, <2>3
<1>8. CASE Begins(dst)
  <2> DEFINE es == <<Reply("+", 0, None, 0, srv[dst].zip)>>
  <2>1. Reads(dst) /\ srv'[dst].cmd = e /\ (Sends(dst, es) \/ down'[dst] = down[dst])
    BY <1>8 DEF Begins
  <2>2. Answers(es, 0, "+", srv[dst].zip)
    BY ReplyAnswers DEF Kinds
  <2> HIDE DEF es
  <2>3. CASE Sends(dst, es)
    BY <1>3, <1>5, <2>1, <2>2, <2>3
  <2>4. CASE down'[dst] = down[dst]
    BY <1>3, <1>4, <2>1, <2>4
  <2> QED
    BY <2>1, <2>3, <2>4
<1>9. CASE Fills(dst)
  BY <1>1, <1>3, <1>4, <1>9 DEF Fills
<1>10. CASE Stores(dst)
  <2> DEFINE r == [row |-> srv[dst].cmd.msg, body |-> srv[dst].got]
  <2>1. /\ Reads(dst) /\ box'[dst] = Append(box[dst], r) /\ srv'[dst].cmd.tag = 0
    BY <1>10 DEF Stores, NoLine, Line
  <2>2. srv[dst].cmd.tag = t => Stored(m)'
    <3>1. r \in [row : Msg \union {None}, body : Seq(Chunks)] /\ r.row = srv[dst].cmd.msg
      BY <1>0, Local DEF Servers, Lines
    <3> HIDE DEF r
    <3>2. Len(box[dst]) + 1 \in DOMAIN box'[dst] /\ box'[dst][Len(box[dst]) + 1] = r
      BY <1>0, <2>1, <3>1, SeqAppend
    <3> QED
      BY <1>1, <3>1, <3>2 DEF Stored
  <2>3. PICK n \in Nat : Sends(dst, <<Reply("OK", srv[dst].cmd.tag, None, n, srv[dst].zip)>>)
    BY <1>10 DEF Stores
  <2> DEFINE es == <<Reply("OK", srv[dst].cmd.tag, None, n, srv[dst].zip)>>
  <2>4. Answers(es, srv[dst].cmd.tag, "OK", srv[dst].zip)
    <3>1. n \in Int /\ srv[dst].cmd.tag \in Nat /\ "OK" \in Kinds
      BY <1>0, <2>3 DEF Lines, Kinds
    <3> QED
      BY <3>1, ReplyAnswers
  <2> HIDE DEF es
  <2>5. Sends(dst, es)
    BY <2>3 DEF es
  <2> QED
    BY <1>3, <1>5, <2>1, <2>2, <2>4, <2>5
<1>11. CASE Rejects(dst)
  <2> DEFINE es == <<Reply("NO", srv[dst].cmd.tag, None, 0, srv[dst].zip)>>
  <2>1. Reads(dst) /\ Sends(dst, es) /\ srv'[dst].cmd.tag = 0
    BY <1>11 DEF Rejects, NoLine, Line
  <2>2. Answers(es, srv[dst].cmd.tag, "NO", srv[dst].zip)
    <3>1. srv[dst].cmd.tag \in Nat /\ "NO" \in Kinds /\ 0 \in Int
      BY <1>0 DEF Lines, Kinds
    <3> QED
      BY <3>1, ReplyAnswers
  <2> HIDE DEF es
  <2> QED
    BY <1>3, <1>5, <2>1, <2>2
<1>12. CASE Breaks(dst)
  <2>1. PICK n \in 0..Len(down[dst]) : down'[dst] = SubSeq(down[dst], 1, n)
    BY <1>12 DEF Breaks
  <2>2. DownTraced(SubSeq(down[dst], 1, n), m, t)
    BY <1>0, <1>1, TraceMoves
  <2> QED
    BY <1>1, <1>2, <1>12, <2>1, <2>2 DEF Breaks, DownTraced
<1>13. CASE Hangs(dst)
  BY <1>1, <1>4, <1>13 DEF Hangs
<1> QED
  BY ServerCases, <1>6, <1>7, <1>8, <1>9, <1>10, <1>11, <1>12, <1>13 DEF Serves

\* The answers that are kept: only an OK that is heard becomes an OK.
LEMMA ResultsKept ==
  ASSUME Typed, NEW k \in Conn, Move(k), NEW t \in 1..LastTag(k)
  PROVE  /\ t \in 1..LastTag(k)'
         /\ \/ cli'[k].result[t] = cli[k].result[t]
            \/ cli'[k].result[t] \in Causes
            \/ /\ IsAnswered(k) /\ Head(down[k]).tag = t
               /\ cli'[k].result[t] = Head(down[k]).kind
<1>0. /\ cli[k].result \in Seq(Outcomes) /\ LastTag(k) \in Nat /\ LastTag(k) = Len(cli[k].result)
      /\ cli[k].why \in Causes /\ DOMAIN cli[k].result = 1..LastTag(k)
      /\ LastTag(k)' = Len(cli'[k].result)
  BY Local DEF LastTag, Clients
<1>1. CASE cli'[k].result = cli[k].result
  BY <1>0, <1>1
<1>2. CASE \E x \in {"wait", "void"} : cli'[k].result = Append(cli[k].result, x)
  <2>1. PICK x \in {"wait", "void"} : cli'[k].result = Append(cli[k].result, x)
    BY <1>2
  <2>2. x \in Outcomes
    BY <2>1 DEF Outcomes, Outcome
  <2>3. Len(cli'[k].result) = Len(cli[k].result) + 1 /\ cli'[k].result[t] = cli[k].result[t]
    BY <1>0, <2>1, <2>2, SeqAppend
  <2> QED
    BY <1>0, <2>3
<1>3. CASE Tells(k)
  <2>1. cli'[k].result = [i \in DOMAIN cli[k].result |->
                            IF \E p \in cli[k].pend : p.tag = i THEN cli[k].why ELSE cli[k].result[i]]
    BY <1>3 DEF Tells, Released
  <2>2. Len(cli'[k].result) = LastTag(k)
    BY <1>0, <2>1
  <2> QED
    BY <1>0, <2>1, <2>2
<1>4. CASE IsAnswered(k)
  <2> DEFINE e == Head(down[k])
             r == [cli[k].result EXCEPT ![e.tag] = e.kind]
  <2>1. e.kind \in Outcomes
    BY <1>4 DEF IsAnswered, Outcomes, Outcome
  <2>2. cli'[k].result = r \/ cli'[k].result = cli[k].result
    BY <1>4 DEF IsAnswered
  <2>3. r \in Seq(Outcomes) /\ Len(r) = Len(cli[k].result)
    <3> DEFINE s == cli[k].result
    <3>1. s \in Seq(Outcomes)
      BY <1>0
    <3> HIDE DEF s, e
    <3>2. [s EXCEPT ![e.tag] = e.kind] \in Seq(Outcomes) /\ Len([s EXCEPT ![e.tag] = e.kind]) = Len(s)
      BY <2>1, <3>1, ElementSet
    <3> QED
      BY <3>2 DEF s
  <2>4. r[t] = IF t = e.tag THEN e.kind ELSE cli[k].result[t]
    BY <1>0
  <2> HIDE DEF r
  <2> QED
    BY <1>0, <1>1, <1>4, <2>2, <2>3, <2>4
<1>5. \/ cli'[k].result = cli[k].result \/ Tells(k) \/ IsAnswered(k)
      \/ \E x \in {"wait", "void"} : cli'[k].result = Append(cli[k].result, x)
  BY DEF Move, Rests, Feeds, Calls, CallsInVain, Greets, Opens1, Proceeds, Hears, Finds, Closes, Serves, SameVoice
<1> QED
  BY <1>1, <1>2, <1>3, <1>4, <1>5

LEMMA TracedStays ==
  ASSUME Typed, Typed', Move(dst), NEW m, NEW t, Traced(m, t)
  PROVE  Traced(m, t)'
<1> USE Constants
<1>0. /\ up[dst] \in Seq(Lines) /\ down[dst] \in Seq(Replies) /\ LastTag(dst) \in Nat
      /\ t \in 1..LastTag(dst) /\ t # 0 /\ t # LastTag(dst) + 1
  BY Local DEF Traced
<1>1. /\ UpTraced(up[dst], m, t) /\ DownTraced(down[dst], m, t)
      /\ srv[dst].cmd.tag = t => srv[dst].cmd.msg = m
      /\ cli[dst].result[t] = "OK" => Stored(m)
  BY DEF Traced, UpTraced, DownTraced
<1>2. Stored(m) => Stored(m)'
  BY BoxGrows
<1>3. /\ t \in 1..LastTag(dst)'
      /\ \/ cli'[dst].result[t] = cli[dst].result[t]
         \/ cli'[dst].result[t] \in Causes
         \/ /\ IsAnswered(dst) /\ Head(down[dst]).tag = t
            /\ cli'[dst].result[t] = Head(down[dst]).kind
  BY <1>0, ResultsKept
<1>4. cli'[dst].result[t] = "OK" => Stored(m)'
  <2>1. CASE IsAnswered(dst) /\ Head(down[dst]).tag = t /\ cli'[dst].result[t] = Head(down[dst]).kind
    <3>1. down[dst] # <<>>
      BY <2>1 DEF IsAnswered
    <3>2. Head(down[dst]).kind = "OK" => Stored(m)
      BY <1>0, <1>1, <2>1, <3>1, SeqTail, SeqDomain DEF DownTraced
    <3> QED
      BY <1>2, <2>1, <3>2
  <2> QED
    BY <1>1, <1>2, <1>3, <2>1 DEF Causes
<1>5. CASE Serves(dst)
  <2>1. /\ UpTraced(up'[dst], m, t)
        /\ srv'[dst].cmd.tag = t => srv'[dst].cmd.msg = m
        /\ \A i \in DOMAIN down'[dst] : down'[dst][i].kind = "OK" /\ down'[dst][i].tag = t => Stored(m)'
    BY <1>0, <1>5, TraceServed
  <2> QED
    BY <1>3, <1>4, <2>1 DEF Traced, UpTraced
<1>6. CASE ~Serves(dst)
  <2>1. srv'[dst].cmd = srv[dst].cmd
    BY <1>6, Local DEF Move, Rests, Feeds, Calls, CallsInVain, Greets, Opens1, Proceeds, Hears, IsAnswered, Finds, Closes,
         Tells, SameWire, SameServer, Servers
  <2>2. \/ down'[dst] = down[dst]
        \/ down[dst] # <<>> /\ down'[dst] = Tail(down[dst])
        \/ \E n \in 0..Len(down[dst]) : down'[dst] = SubSeq(down[dst], 1, n)
    BY <1>6 DEF Move, Rests, Feeds, Calls, CallsInVain, Greets, Opens1, Proceeds, Hears, IsAnswered, Finds, Closes,
         Tells, SameWire, SameServer
  <2>3. \/ up'[dst] = up[dst]
        \/ \E e \in Lines : e.tag \in {0, LastTag(dst) + 1} /\ up'[dst] = Append(up[dst], e)
        \/ \E n \in 0..Len(up[dst]) : up'[dst] = SubSeq(up[dst], 1, n)
    BY <1>6 DEF Move, Rests, Feeds, Calls, CallsInVain, Greets, Opens1, Proceeds, Hears, IsAnswered, Finds, Closes,
         Tells, SameWire, SameServer
  <2>4. DownTraced(down'[dst], m, t)
    <3>1. down[dst] # <<>> => DownTraced(Tail(down[dst]), m, t)
      BY <1>0, <1>1, TraceMoves
    <3>2. \A n \in 0..Len(down[dst]) : DownTraced(SubSeq(down[dst], 1, n), m, t)
      BY <1>0, <1>1, TraceMoves
    <3> QED
      BY <1>1, <2>2, <3>1, <3>2
  <2>5. UpTraced(up'[dst], m, t)
    <3>1. \A n \in 0..Len(up[dst]) : UpTraced(SubSeq(up[dst], 1, n), m, t)
      BY <1>0, <1>1, TraceMoves
    <3>2. \A e \in Lines : e.tag # t => UpTraced(Append(up[dst], e), m, t)
      BY <1>0, <1>1, TraceMoves
    <3> QED
      BY <1>0, <1>1, <2>3, <3>1, <3>2
  <2> QED
    BY <1>1, <1>2, <1>3, <1>4, <2>1, <2>4, <2>5 DEF Traced, UpTraced, DownTraced
<1> QED
  BY <1>5, <1>6

\* While a body is copied nothing else is asked of the destination.
LEMMA CopyingStays ==
  ASSUME Typed, OpenFirst, [Next]_vars, pc \in Copying, pc' \in Copying
  PROVE  LastTag(dst)' = LastTag(dst) /\ item' = item
<1> USE Constants
<1>0. /\ cli[dst] \in Clients /\ cli \in [Conn -> Clients] /\ cli[dst].phase \in {"ready", "failed"}
      /\ Move(dst) /\ cli[dst].result \in Seq(Outcomes)
  BY Local, Moves DEF Typed, ClientsTyped, OpenFirst, Copying
<1>1. CASE pc' = pc
  <2>1. LastTag(dst)' = LastTag(dst)
    <3>1. CASE Tells(dst)
      <4>1. cli'[dst].result = [i \in DOMAIN cli[dst].result |->
                            IF \E p \in cli[dst].pend : p.tag = i THEN cli[dst].why ELSE cli[dst].result[i]]
        BY <3>1 DEF Tells, Released
      <4> QED
        BY <1>0, <4>1 DEF LastTag
    <3>2. CASE IsAnswered(dst)
      <4> DEFINE e == Head(down[dst])
                 r == [cli[dst].result EXCEPT ![e.tag] = e.kind]
      <4>1. e.kind \in Outcomes /\ (cli'[dst].result = r \/ cli'[dst].result = cli[dst].result)
        BY <3>2 DEF IsAnswered, Outcomes, Outcome
      <4>2. Len(r) = Len(cli[dst].result)
        BY <1>0, <4>1, ElementSet
      <4> QED
        BY <4>1, <4>2 DEF LastTag
    <3>3. CASE cli'[dst].result = cli[dst].result
      BY <3>3 DEF LastTag
    <3> QED
      BY <1>0, <1>1, <3>1, <3>2, <3>3 DEF Move, Rests, Feeds, Calls, CallsInVain, Greets, Opens1, Proceeds, Hears,
         Finds, Closes, Serves, SameVoice, Asking
  <2>2. item' = item
    <3>1. CASE Work
      BY <1>1, <3>1 DEF Work, Opened, Select, Selected, StartMore, Filled, WaitSize, Begin, Continue, StreamChunk,
         StreamEnds, Finish, Room, SettleOne, ClosePair, LoggedOut, Ended, Leave, Copying
    <3>2. CASE UNCHANGED worker
      BY <3>2 DEF worker
    <3> QED
      BY <3>1, <3>2, TimeIs DEF Next, Process, Busy, Drain, Server, vars
  <2> QED
    BY <2>1, <2>2
<1>2. CASE pc' # pc
  <2>1. Work
    BY <1>2, TimeIs DEF Next, Process, Busy, Drain, Server, vars, worker
  <2>2. Continue \/ StreamEnds
    BY <1>2, <2>1 DEF Work, Opened, Select, Selected, StartMore, Filled, WaitSize, Begin, StreamChunk,
         Finish, Room, SettleOne, ClosePair, LoggedOut, Ended, Leave, Copying
  <2>3. item' = item
    BY <2>2 DEF Continue, StreamEnds
  <2>4. cli' = cli \/ cli' = [cli EXCEPT ![dst].cont = 0] \/ cli' = [cli EXCEPT ![dst] = AppendDone(@)]
    BY <2>2 DEF Continue, StreamEnds, client
  <2>5. cli'[dst].result = cli[dst].result
    BY <1>0, <2>4 DEF AppendDone, Clients
  <2> QED
    BY <2>3, <2>5 DEF LastTag
<1> QED
  BY <1>1, <1>2

\* The APPEND that begins is traced.
LEMMA TraceBegins ==
  ASSUME Typed, TagsFresh(dst), Begin, ~cli[dst].closed
  PROVE  Traced(item, LastTag(dst))'
<1> USE Constants
<1> DEFINE n == LastTag(dst)
           e == Line("APPEND", n + 1, item, body[item].size, ~NonSync(cli[dst]), cli[dst].zout)
           i == Issue(cli[dst], "APPEND")
           o == i.owed + 1
<1>0. /\ cli[dst] \in Clients /\ cli \in [Conn -> Clients] /\ item \in Msg /\ n \in Nat /\ n = Len(cli[dst].result)
      /\ up[dst] \in Seq(Lines) /\ cli[dst].result \in Seq(Outcomes) /\ up \in [Conn -> Seq(Lines)]
      /\ body[item].size \in Int
  BY Local DEF Typed, ClientsTyped, WorkerTyped, Begin, LastTag, WireTyped, BodiesTyped, Handles
<1>1. /\ UNCHANGED <<down, srv, box>> /\ item' = item
      /\ cli' = [cli EXCEPT ![dst] = [i EXCEPT !.owed = o]] /\ up' = [up EXCEPT ![dst] = Append(up[dst], e)]
  BY DEF Begin, AppendBegin, Write, rest
<1>2. i \in Clients /\ i.result = Append(cli[dst].result, "wait")
  BY <1>0, IssueCalled DEF Called, Verbs
<1>3. e \in Lines /\ e.verb = "APPEND" /\ e.msg = item
  <2>1. n + 1 \in Nat /\ (~NonSync(cli[dst])) \in BOOLEAN /\ cli[dst].zout \in BOOLEAN /\ "APPEND" \in Verbs
    BY <1>0, Local DEF Verbs
  <2> QED
    BY <1>0, <2>1 DEF Line, Lines
<1> HIDE DEF e, i, o
<1>4. cli'[dst].result = Append(cli[dst].result, "wait")
  BY <1>0, <1>1, <1>2 DEF Clients
<1>5. Len(cli'[dst].result) = n + 1 /\ cli'[dst].result[n + 1] = "wait"
  BY <1>0, <1>4
<1>6. LastTag(dst)' = n + 1
  BY <1>5 DEF LastTag
<1>7. UpTraced(up'[dst], item, n + 1)
  <2> DEFINE u == up[dst]
             v == Append(u, e)
  <2>1. /\ Len(u) \in Nat /\ DOMAIN v = 1..(Len(u) + 1) /\ DOMAIN u = 1..Len(u)
        /\ \A j \in 1..Len(u) : v[j] = u[j]
        /\ v[Len(u) + 1] = e
    BY <1>0, <1>3, SeqAppend, SeqDomain
  <2>2. up'[dst] = v
    BY <1>0, <1>1
  <2>3. \A j \in DOMAIN u : u[j].tag # n + 1
    <3>1. UpTags(u, n)
      BY DEF TagsFresh
    <3>2. n \in Nat
      BY <1>0
    <3> HIDE DEF u, n
    <3>3. ASSUME NEW j \in DOMAIN u
          PROVE  u[j].tag = 0 \/ u[j].tag \in 1..n
      BY <3>1 DEF UpTags
    <3> QED
      BY <3>2, <3>3
  <2>4. \A j \in 1..(Len(u) + 1) : j \in DOMAIN u \/ j = Len(u) + 1
    BY <2>1
  <2> HIDE DEF u, v
  <2> QED
    BY <1>3, <2>1, <2>2, <2>3, <2>4 DEF UpTraced
<1>8. srv[dst].cmd.tag # n + 1
  BY <1>0 DEF TagsFresh, CmdTags, NoLine, Line
<1>9. \A j \in DOMAIN down[dst] : down[dst][j].tag # n + 1
  BY <1>0 DEF TagsFresh, DownTags
<1>10. n + 1 \in 1..(n + 1)
  BY <1>0
<1> HIDE DEF n
<1> QED
  BY <1>1, <1>5, <1>6, <1>7, <1>8, <1>9, <1>10 DEF Traced, UpTraced

-----------------------------------------------------------------------------
(* AckedIsStored *)

LEMMA AckInit == Init => AckInv
  BY SeqDomain DEF Init, AckInv, AckedIsStored, Copying

\* A step of the runner's goroutine: which rows it counts and waits for.
LEMMA AckWorks ==
  ASSUME Typed, [Next]_vars
  PROVE  /\ \/ acked' = acked
            \/ SettleOne
         /\ \/ pendQ' = pendQ
            \/ SettleOne /\ pendQ # <<>> /\ pendQ' = Tail(pendQ)
            \/ /\ pc = "finish" /\ Finish
               /\ pendQ' = Append(pendQ, [row |-> item, tag |-> LastTag(dst)])
         /\ SettleOne => pendQ # <<>>
         /\ pc' \in Copying => pc \in Copying \/ (Begin /\ ~cli[dst].closed)
<1>0. SettleOne => pendQ # <<>>
  <2>1. AppendWindow >= 1
    BY TransferAssumption
  <2>2. Len(<<>>) = 0
    OBVIOUS
  <2>3. pendQ = <<>> => ~(Len(pendQ) >= AppendWindow)
    BY <2>1, <2>2, TransferAssumption
  <2> QED
    BY <2>3 DEF SettleOne
<1>1. CASE UNCHANGED worker
  BY <1>0, <1>1 DEF worker
<1>2. CASE Work
  <2>1. CASE SettleOne
    BY <1>0, <2>1 DEF SettleOne, Copying, Leave
  <2>2. CASE Finish
    BY <1>0, <2>2 DEF Finish, Copying, Leave
  <2>3. CASE Begin
    BY <1>0, <2>3 DEF Begin, Copying, Leave
  <2>4. CASE Continue \/ StreamChunk \/ StreamEnds
    BY <1>0, <2>4 DEF Continue, StreamChunk, StreamEnds, Copying
  <2> QED
    BY <1>2, <2>1, <2>2, <2>3, <2>4 DEF Work, Opened, Select, Selected, StartMore, Filled, WaitSize,
       Room, ClosePair, LoggedOut, Ended, Leave, Copying
<1> QED
  BY <1>1, <1>2, TimeIs DEF Next, Process, Busy, Drain, Server, vars, worker

LEMMA AckNext ==
  ASSUME Typed, CodingInv, AckInv, [Next]_vars
  PROVE  AckInv'
<1> USE Constants
<1>0. /\ Typed' /\ Move(dst) /\ OpenFirst /\ TagsFresh(dst)
      /\ pendQ \in Seq([row : Msg, tag : Nat])
  BY TypedNext, Moves DEF CodingInv, Typed, WorkerTyped
<1>1. \A i \in DOMAIN pendQ : Traced(pendQ[i].row, pendQ[i].tag)
  BY DEF AckInv
<1>3. \A i \in DOMAIN pendQ : \E m, t : m = pendQ[i].row /\ t = pendQ[i].tag /\ Traced(m, t)'
  <2> SUFFICES ASSUME NEW i \in DOMAIN pendQ
               PROVE  \E m, t : m = pendQ[i].row /\ t = pendQ[i].tag /\ Traced(m, t)'
    OBVIOUS
  <2>1. PICK m, t : m = pendQ[i].row /\ t = pendQ[i].tag
    OBVIOUS
  <2>2. Traced(m, t)
    BY <1>1, <2>1
  <2>3. Traced(m, t)'
    BY <1>0, <2>2, TracedStays
  <2> QED
    BY <2>1, <2>3
<1>4. AckedIsStored'
  <2> SUFFICES ASSUME NEW m \in acked'
               PROVE  Stored(m)'
    BY DEF AckedIsStored, Stored
  <2>1. CASE m \in acked
    <3>1. Stored(m)
      BY <2>1 DEF AckInv, AckedIsStored, Stored
    <3> QED
      BY <1>0, <3>1, BoxGrows
  <2>2. CASE m \notin acked
    <3>1. SettleOne /\ pendQ # <<>>
      BY <2>2, AckWorks
    <3>2. m = Head(pendQ).row /\ cli[dst].result[Head(pendQ).tag] = "OK"
      BY <2>2, <3>1 DEF SettleOne, Counts
    <3>3. Traced(Head(pendQ).row, Head(pendQ).tag)
      BY <1>0, <1>1, <3>1, SeqTail, SeqDomain
    <3>4. Stored(m)
      BY <3>2, <3>3 DEF Traced
    <3> QED
      BY <1>0, <3>4, BoxGrows
  <2> QED
    BY <2>1, <2>2
<1>5. pc' \in Copying => Traced(item, LastTag(dst))'
  <2> SUFFICES ASSUME pc' \in Copying
               PROVE  Traced(item, LastTag(dst))'
    OBVIOUS
  <2>1. CASE pc \in Copying
    <3>1. PICK m, t : m = item /\ t = LastTag(dst)
      OBVIOUS
    <3>2. Traced(m, t)
      BY <2>1, <3>1 DEF AckInv
    <3>3. Traced(m, t)'
      BY <1>0, <3>2, TracedStays
    <3>4. m = item' /\ t = LastTag(dst)'
      BY <1>0, <2>1, <3>1, CopyingStays
    <3> QED
      BY <3>3, <3>4
  <2>2. CASE Begin /\ ~cli[dst].closed
    BY <1>0, <2>2, TraceBegins
  <2> QED
    BY <2>1, <2>2, AckWorks
<1>6. \A i \in DOMAIN pendQ' : Traced(pendQ[i].row, pendQ[i].tag)'
  <2>1. CASE pendQ' = pendQ
    <3> SUFFICES ASSUME NEW i \in DOMAIN pendQ
                 PROVE  Traced(pendQ[i].row, pendQ[i].tag)'
      BY <2>1
    <3>1. PICK m, t : m = pendQ[i].row /\ t = pendQ[i].tag /\ Traced(m, t)'
      BY <1>3
    <3>2. m = pendQ'[i].row /\ t = pendQ'[i].tag
      BY <2>1, <3>1
    <3> QED
      BY <3>1, <3>2
  <2>2. CASE pendQ # <<>> /\ pendQ' = Tail(pendQ)
    <3>1. /\ DOMAIN pendQ' = 1..(Len(pendQ) - 1) /\ Len(pendQ) \in Nat \ {0} /\ DOMAIN pendQ = 1..Len(pendQ)
          /\ \A i \in 1..(Len(pendQ) - 1) : pendQ'[i] = pendQ[i + 1]
      BY <1>0, <2>2, SeqTail, SeqDomain
    <3> SUFFICES ASSUME NEW i \in 1..(Len(pendQ) - 1)
                 PROVE  Traced(pendQ[i].row, pendQ[i].tag)'
      BY <3>1
    <3>2. i + 1 \in DOMAIN pendQ
      BY <3>1
    <3>3. PICK m, t : m = pendQ[i + 1].row /\ t = pendQ[i + 1].tag /\ Traced(m, t)'
      BY <1>3, <3>2
    <3>4. m = pendQ'[i].row /\ t = pendQ'[i].tag
      BY <3>1, <3>3
    <3> QED
      BY <3>3, <3>4
  <2>3. CASE pc = "finish" /\ pendQ' = Append(pendQ, [row |-> item, tag |-> LastTag(dst)])
    <3>0. [row |-> item, tag |-> LastTag(dst)] \in [row : Msg, tag : Nat]
      BY <2>3, Local DEF Typed, WorkerTyped
    <3>1. /\ DOMAIN pendQ' = 1..(Len(pendQ) + 1) /\ Len(pendQ) \in Nat /\ DOMAIN pendQ = 1..Len(pendQ)
          /\ \A i \in 1..Len(pendQ) : pendQ'[i] = pendQ[i]
          /\ pendQ'[Len(pendQ) + 1] = [row |-> item, tag |-> LastTag(dst)]
      BY <1>0, <2>3, <3>0, SeqAppend, SeqDomain
    <3> SUFFICES ASSUME NEW i \in 1..(Len(pendQ) + 1)
                 PROVE  Traced(pendQ[i].row, pendQ[i].tag)'
      BY <3>1
    <3>2. CASE i \in DOMAIN pendQ
      <4>1. PICK m, t : m = pendQ[i].row /\ t = pendQ[i].tag /\ Traced(m, t)'
        BY <1>3, <3>2
      <4>2. m = pendQ'[i].row /\ t = pendQ'[i].tag
        BY <3>1, <3>2, <4>1
      <4> QED
        BY <4>1, <4>2
    <3>3. CASE i = Len(pendQ) + 1
      <4>1. PICK m, t : m = item /\ t = LastTag(dst)
        OBVIOUS
      <4>2. Traced(m, t)
        BY <2>3, <4>1 DEF AckInv, Copying
      <4>3. Traced(m, t)'
        BY <1>0, <4>2, TracedStays
      <4>4. m = pendQ'[i].row /\ t = pendQ'[i].tag
        BY <3>1, <3>3, <4>1
      <4> QED
        BY <4>3, <4>4
    <3> QED
      BY <3>1, <3>2, <3>3
  <2> QED
    BY <2>1, <2>2, <2>3, AckWorks
<1> QED
  BY <1>4, <1>5, <1>6 DEF AckInv

LEMMA AckHolds == Spec => [](Typed /\ CodingInv /\ AckInv)
<1>1. Init => Typed /\ CodingInv /\ AckInv
  BY InitTyped, CodingInit, AckInit
<1>2. Typed /\ CodingInv /\ AckInv /\ [Next]_vars => (Typed /\ CodingInv /\ AckInv)'
  BY TypedNext, CodingNext, AckNext
<1> QED
  BY <1>1, <1>2, PTL DEF Spec

\* A row counts as copied only if the destination stores it, although its answer
\* is collected later, behind a window of other APPENDs (settleOne), and although
\* the channel of a command also tells of Abort: an OK is the server's, and the
\* server's for the APPEND with that tag.
THEOREM AckedIsStoredHolds == Spec => []AckedIsStored
<1>1. AckInv => AckedIsStored
  BY DEF AckInv
<1> QED
  BY <1>1, AckHolds, PTL

-----------------------------------------------------------------------------
(* What a step does to the bodies and to those who read them *)

Others(k) == \A j \in Conn \ {k} : SameReader(j)
AllSame == \A j \in Conn : SameReader(j)

\* startMore fetches a row.
Fetched ==
  /\ pc = "fill" /\ WantsMore /\ next' = next + 1
  /\ Others(src)
  /\ cli'[src].reader = cli[src].reader /\ cli'[src].to = cli[src].to
  /\ cli'[src].left = cli[src].left
  /\ cli'[src].fifo = Append(cli[src].fifo, Rows[next])
  /\ body' = [body EXCEPT ![Rows[next]] = IF cli[src].closed THEN Fail(NewHandle, cli[src].why)
                                          ELSE NewHandle]
  /\ cli[src].closed => pc' = "close"

\* A chunk is taken out of a channel, by the runner or by who drains it.
Taken(m) ==
  /\ m \in drained \/ (StreamChunk /\ m = item)
  /\ next' = next /\ AllSame
  /\ body[m].ch # <<>> /\ body' = [body EXCEPT ![m].ch = Tail(@)]

\* The reader starts.
Begun(k) ==
  /\ next' = next /\ Others(k) /\ body' = body
  /\ cli[k].phase = "open"
  /\ cli'[k].reader = "line" /\ cli'[k].to = cli[k].to
  /\ cli'[k].left = cli[k].left /\ cli'[k].fifo = cli[k].fifo

\* A body is announced, to the handle at the front of the queue.
Announced(k) ==
  LET e == Head(down[k])
      f == cli[k].fifo
  IN /\ next' = next /\ Others(k)
     /\ cli[k].reader = "line" /\ down[k] # <<>> /\ e.kind = "BODY"
     /\ cli'[k].reader = "literal" /\ cli'[k].left = e.part
     /\ IF f = <<>> THEN cli'[k].to = None /\ cli'[k].fifo = <<>> /\ body' = body
        ELSE /\ cli'[k].to = Head(f) /\ cli'[k].fifo = Tail(f)
             /\ body' = [body EXCEPT ![Head(f)].size = e.part]

\* A chunk of it comes.
Received(k) ==
  LET e == Head(down[k])
      c == cli[k]
  IN /\ next' = next /\ Others(k)
     /\ c.reader = "literal" /\ c.left > 0 /\ down[k] # <<>>
     /\ cli'[k].reader = c.reader /\ cli'[k].to = c.to /\ cli'[k].fifo = c.fifo
     /\ cli'[k].left = c.left - 1
     /\ IF c.to = None THEN body' = body
        ELSE body' = [body EXCEPT ![c.to].ch = Append(@, <<e.msg, e.part>>)]

\* It is complete.
Completed(k) ==
  LET c == cli[k]
  IN /\ next' = next /\ Others(k)
     /\ c.reader = "literal" /\ c.left = 0
     /\ cli'[k].reader = "line" /\ cli'[k].to = None
     /\ cli'[k].left = c.left /\ cli'[k].fifo = c.fifo
     /\ IF c.to = None THEN body' = body
        ELSE body' = [body EXCEPT ![c.to].shut = TRUE, ![c.to].failed = TRUE]

\* The connection ends for its reader.
Broken(k) ==
  LET c == cli[k]
  IN /\ next' = next /\ Others(k)
     /\ c.reader # "off" /\ (c.reader = "literal" => c.left > 0) /\ Eof(k)
     /\ cli'[k].closed
     /\ cli'[k].reader = "off" /\ cli'[k].to = None
     /\ cli'[k].left = c.left /\ cli'[k].fifo = c.fifo
     /\ IF c.to = None THEN body' = body
        ELSE body' = [body EXCEPT ![c.to] = Fail(body[c.to], "lost")]

\* The waiters of a closed connection are told.
Cleared(k) ==
  LET c == cli[k]
  IN /\ next' = next /\ Others(k)
     /\ c.closed
     /\ cli'[k].reader = c.reader /\ cli'[k].to = c.to
     /\ cli'[k].left = c.left /\ cli'[k].fifo = <<>>
     /\ body' = [m \in Msg |-> IF m \in ToSet(c.fifo) THEN Fail(body[m], c.why) ELSE body[m]]

LEMMA StartMoreFetches ==
  ASSUME Typed, StartMore
  PROVE  Fetched
<1> USE Constants
<1> DEFINE i == Issue(cli[src], "UID FETCH")
           f == Append(i.fifo, Rows[next])
<1>1. cli' = [cli EXCEPT ![src] = [i EXCEPT !.fifo = f]]
  BY DEF StartMore, BodyFetch
<1>2. i \in Clients /\ i.reader = cli[src].reader /\ i.to = cli[src].to /\ i.left = cli[src].left
      /\ i.fifo = cli[src].fifo
  BY Local, IssueReader, IssueTyped DEF Verbs
<1>3. f = Append(cli[src].fifo, Rows[next])
  BY <1>2
<1> HIDE DEF i, f
<1>4. /\ [i EXCEPT !.fifo = f].reader = cli[src].reader /\ [i EXCEPT !.fifo = f].to = cli[src].to
      /\ [i EXCEPT !.fifo = f].left = cli[src].left /\ [i EXCEPT !.fifo = f].fifo = f
  BY <1>2 DEF Clients
<1>5. cli'[src] = [i EXCEPT !.fifo = f] /\ \A j \in Conn \ {src} : cli'[j] = cli[j]
  BY <1>1, OneClient
<1>6. Others(src)
  BY <1>5 DEF Others, SameReader
<1>7. /\ pc = "fill" /\ WantsMore /\ next' = next + 1
      /\ body' = [body EXCEPT ![Rows[next]] = IF cli[src].closed THEN Fail(NewHandle, cli[src].why)
                                              ELSE NewHandle]
  BY DEF StartMore, BodyFetch
<1>8. cli[src].closed => pc' = "close"
  BY DEF StartMore, Leave
<1> QED
  BY <1>3, <1>4, <1>5, <1>6, <1>7, <1>8 DEF Fetched

LEMMA OneOthers ==
  ASSUME Typed, NEW k \in Conn, NEW c, cli' = [cli EXCEPT ![k] = c]
  PROVE  cli'[k] = c /\ Others(k)
  BY OneClient DEF Others, SameReader

\* route and what it leaves alone.
LEMMA RoutedReader ==
  ASSUME NEW a \in Clients, NEW k \in Conn, NEW e \in Replies
  PROVE  LET r == Routed(a, k, e)
         IN IF e.kind = "BODY"
            THEN /\ r.reader = "literal" /\ r.left = e.part
                 /\ r.to = (IF a.fifo = <<>> THEN None ELSE Head(a.fifo))
                 /\ r.fifo = (IF a.fifo = <<>> THEN <<>> ELSE Tail(a.fifo))
            ELSE r.reader = a.reader /\ r.to = a.to /\ r.left = a.left /\ r.fifo = a.fifo
<1>1. CASE e.kind \in {"OK", "NO"}
  <2> DEFINE s == Settle(a, e.tag, e.kind)
             z == s.zin \/ (e.kind = "OK" /\ "COMPRESS" \in VerbOf(a, e.tag))
  <2>1. Routed(a, k, e) = [s EXCEPT !.zin = z]
    BY <1>1 DEF Routed
  <2>2. s \in Clients
    BY <1>1, SettleTyped DEF Replies, Outcomes, Outcome
  <2>3. s.reader = a.reader /\ s.to = a.to /\ s.left = a.left /\ s.fifo = a.fifo
    BY DEF Settle, Clients
  <2> HIDE DEF s, z
  <2>4. LET r == [s EXCEPT !.zin = z]
        IN r.reader = s.reader /\ r.to = s.to /\ r.left = s.left /\ r.fifo = s.fifo
    BY <2>2 DEF Clients
  <2> QED
    BY <1>1, <2>1, <2>3, <2>4
<1>2. CASE e.kind = "BODY"
  <2> DEFINE t == IF a.fifo = <<>> THEN None ELSE Head(a.fifo)
             f == IF a.fifo = <<>> THEN <<>> ELSE Tail(a.fifo)
  <2>1. Routed(a, k, e) = [a EXCEPT !.reader = "literal", !.left = e.part, !.to = t, !.fifo = f]
    BY <1>2 DEF Routed
  <2> HIDE DEF t, f
  <2>2. LET r == [a EXCEPT !.reader = "literal", !.left = e.part, !.to = t, !.fifo = f]
        IN r.reader = "literal" /\ r.left = e.part /\ r.to = t /\ r.fifo = f
    BY DEF Clients
  <2> QED
    BY <1>2, <2>1, <2>2 DEF t, f
<1>3. CASE e.kind \in {"+", "CAPABILITY"}
  BY <1>3 DEF Routed, Clients
<1>4. CASE e.kind \notin {"+", "OK", "NO", "CAPABILITY", "BODY"}
  BY <1>4 DEF Routed
<1> QED
  BY <1>1, <1>2, <1>3, <1>4

LEMMA ReaderBodies ==
  ASSUME Typed, NEW k \in Conn, Reader(k) \/ StartReader(k) \/ TellWaiters(k), next' = next
  PROVE  \/ body' = body /\ AllSame
         \/ Begun(k) \/ Announced(k) \/ Received(k) \/ Completed(k) \/ Broken(k) \/ Cleared(k)
<1>0. cli[k] \in Clients /\ cli \in [Conn -> Clients]
  BY Local DEF Typed, ClientsTyped
<1>1. CASE StartReader(k)
  <2>1. PICK f : cli' = [cli EXCEPT ![k] = [cli[k] EXCEPT !.reader = "line", !.phase = f]]
    BY <1>0, <1>1 DEF StartReader
  <2>2. cli'[k] = [cli[k] EXCEPT !.reader = "line", !.phase = f] /\ Others(k)
    BY <2>1, OneOthers
  <2>3. cli'[k].reader = "line" /\ cli'[k].to = cli[k].to
        /\ cli'[k].left = cli[k].left /\ cli'[k].fifo = cli[k].fifo
    BY <1>0, <2>2 DEF Clients
  <2>4. Begun(k)
    BY <1>1, <2>2, <2>3 DEF StartReader, Begun
  <2> QED
    BY <2>4
<1>2. CASE ReadResponse(k)
  <2>1. PICK e : e = Head(down[k])
    OBVIOUS
  <2>2. PICK a : a = [cli[k] EXCEPT !.idle = 0]
    OBVIOUS
  <2>3. PICK r : r = Routed(a, k, e)
    OBVIOUS
  <2>4. /\ cli[k].reader = "line" /\ down[k] # <<>>
        /\ cli' = [cli EXCEPT ![k] = r]
        /\ body' = IF e.kind = "BODY" /\ r.to # None THEN [body EXCEPT ![r.to].size = e.part] ELSE body
    BY <1>2, <2>1, <2>2, <2>3 DEF ReadResponse, Readable, NextResponse
  <2>5. e \in Replies
    BY <2>1, <2>4, TailTyped DEF Typed
  <2>6. a \in Clients /\ a.reader = cli[k].reader /\ a.to = cli[k].to /\ a.left = cli[k].left
        /\ a.fifo = cli[k].fifo
    BY <1>0, <2>2 DEF Clients
  <2>7. IF e.kind = "BODY"
        THEN /\ r.reader = "literal" /\ r.left = e.part
             /\ r.to = (IF cli[k].fifo = <<>> THEN None ELSE Head(cli[k].fifo))
             /\ r.fifo = (IF cli[k].fifo = <<>> THEN <<>> ELSE Tail(cli[k].fifo))
        ELSE r.reader = cli[k].reader /\ r.to = cli[k].to /\ r.left = cli[k].left /\ r.fifo = cli[k].fifo
    BY <2>3, <2>5, <2>6, RoutedReader
  <2>8. cli'[k] = r /\ Others(k)
    BY <2>4, OneOthers
  <2>9. CASE e.kind # "BODY"
    <3>1. body' = body /\ SameReader(k)
      BY <2>4, <2>7, <2>8, <2>9 DEF SameReader
    <3> QED
      BY <2>8, <3>1 DEF AllSame, Others
  <2>10. CASE e.kind = "BODY"
    <3>1. cli[k].fifo \in Seq(Msg) /\ None \notin Msg
      BY <1>0, Constants DEF Clients
    <3>2. cli[k].fifo # <<>> => Head(cli[k].fifo) # None
      BY <3>1
    <3>3. Announced(k)
      BY <2>1, <2>4, <2>7, <2>8, <2>10, <3>2 DEF Announced
    <3> QED
      BY <3>3
  <2> QED
    BY <2>9, <2>10
<1>3. CASE ReadChunk(k)
  <2> DEFINE l == cli[k].left - 1
  <2>1. cli' = [cli EXCEPT ![k] = [cli[k] EXCEPT !.left = l, !.idle = 0]]
    BY <1>0, <1>3 DEF ReadChunk
  <2> HIDE DEF l
  <2>2. cli'[k] = [cli[k] EXCEPT !.left = l, !.idle = 0] /\ Others(k)
    BY <2>1, OneOthers
  <2>3. cli'[k].reader = cli[k].reader /\ cli'[k].to = cli[k].to
        /\ cli'[k].left = l /\ cli'[k].fifo = cli[k].fifo
    BY <1>0, <2>2 DEF Clients
  <2>4. Received(k)
    BY <1>3, <2>2, <2>3 DEF ReadChunk, Readable, NextResponse, Received, l
  <2> QED
    BY <2>4
<1>4. CASE EndLiteral(k)
  <2>1. cli' = [cli EXCEPT ![k] = [cli[k] EXCEPT !.reader = "line", !.to = None]]
    BY <1>0, <1>4 DEF EndLiteral
  <2>2. cli'[k] = [cli[k] EXCEPT !.reader = "line", !.to = None] /\ Others(k)
    BY <2>1, OneOthers
  <2>3. cli'[k].reader = "line" /\ cli'[k].to = None
        /\ cli'[k].left = cli[k].left /\ cli'[k].fifo = cli[k].fifo
    BY <1>0, <2>2 DEF Clients
  <2>4. Completed(k)
    BY <1>4, <2>2, <2>3 DEF EndLiteral, Completed
  <2> QED
    BY <2>4
<1>5. CASE ReadEof(k)
  <2> DEFINE d == Closed(cli[k], "lost")
  <2>1. cli' = [cli EXCEPT ![k] = [d EXCEPT !.reader = "off", !.to = None]]
    BY <1>0, <1>5 DEF ReadEof
  <2>2. d \in Clients /\ d.left = cli[k].left /\ d.fifo = cli[k].fifo /\ d.closed
    <3>1. d \in Clients
      BY <1>0, ClosedTyped DEF Causes
    <3>2. CASE cli[k].closed
      BY <3>1, <3>2 DEF Closed
    <3>3. CASE ~cli[k].closed
      <4>1. d = [cli[k] EXCEPT !.closed = TRUE, !.why = "lost", !.idle = 0]
        BY <3>3 DEF Closed
      <4> HIDE DEF d
      <4> QED
        BY <1>0, <3>1, <4>1 DEF Clients
    <3> QED
      BY <3>2, <3>3
  <2> HIDE DEF d
  <2>3. cli'[k] = [d EXCEPT !.reader = "off", !.to = None] /\ Others(k)
    BY <2>1, OneOthers
  <2>4. cli'[k].reader = "off" /\ cli'[k].to = None /\ cli'[k].closed
        /\ cli'[k].left = cli[k].left /\ cli'[k].fifo = cli[k].fifo
    BY <2>2, <2>3 DEF Clients
  <2>5. body' = IF cli[k].to = None THEN body ELSE [body EXCEPT ![cli[k].to] = Fail(body[cli[k].to], "lost")]
    BY <1>5 DEF ReadEof
  <2>6. Broken(k)
    BY <1>5, <2>3, <2>4, <2>5 DEF ReadEof, Broken
  <2> QED
    BY <2>6
<1>6. CASE TellWaiters(k)
  <2> DEFINE r == Released(cli[k])
  <2>1. cli' = [cli EXCEPT ![k] = [cli[k] EXCEPT !.told = TRUE, !.pend = {}, !.fifo = <<>>, !.result = r]]
    BY <1>0, <1>6 DEF TellWaiters
  <2> HIDE DEF r
  <2>2. cli'[k] = [cli[k] EXCEPT !.told = TRUE, !.pend = {}, !.fifo = <<>>, !.result = r] /\ Others(k)
    BY <2>1, OneOthers
  <2>3. cli'[k].reader = cli[k].reader /\ cli'[k].to = cli[k].to
        /\ cli'[k].left = cli[k].left /\ cli'[k].fifo = <<>>
    BY <1>0, <2>2 DEF Clients
  <2>4. Cleared(k)
    BY <1>6, <2>2, <2>3 DEF TellWaiters, Cleared, FailedBy
  <2> QED
    BY <2>4
<1> QED
  BY <1>1, <1>2, <1>3, <1>4, <1>5, <1>6 DEF Reader

\* Whatever happens, it is one of these.
LEMMA BodySteps ==
  ASSUME Typed, [Next]_vars
  PROVE  \/ next' = next /\ body' = body /\ AllSame
         \/ Fetched
         \/ \E m \in Msg : Taken(m)
         \/ \E k \in Conn : \/ Begun(k) \/ Announced(k) \/ Received(k)
                           \/ Completed(k) \/ Broken(k) \/ Cleared(k)
<1>1. CASE StartMore
  BY <1>1, StartMoreFetches
<1>2. ~StartMore => next' = next
  <2>1. CASE Work
    BY <2>1 DEF Work, Opened, Select, Selected, Filled, WaitSize, Begin, Continue, StreamChunk,
       StreamEnds, Finish, Room, SettleOne, ClosePair, LoggedOut, Ended
  <2> QED
    BY <2>1, TimeIs DEF Next, Process, Busy, Drain, Server, Vanish, Kick, vars, worker
<1>3. CASE StreamChunk /\ AllSame
  <2>1. next' = next /\ item \in Msg /\ body[item].ch # <<>> /\ body' = [body EXCEPT ![item].ch = Tail(@)]
    BY <1>3 DEF StreamChunk, Typed, WorkerTyped
  <2> QED
    BY <1>3, <2>1 DEF Taken
<1>4. ASSUME NEW m \in Msg, Drain(m), AllSame
      PROVE  Taken(m)
  BY <1>4 DEF Drain, worker, Taken
<1>5. ASSUME NEW k \in Conn, UNCHANGED worker, StartReader(k) \/ Reader(k) \/ TellWaiters(k)
      PROVE  \/ next' = next /\ body' = body /\ AllSame
             \/ Begun(k) \/ Announced(k) \/ Received(k) \/ Completed(k) \/ Broken(k) \/ Cleared(k)
  <2>1. next' = next
    BY <1>5 DEF worker
  <2> QED
    BY <1>5, <2>1, ReaderBodies
<1>6. CASE body' = body /\ AllSame /\ ~StartMore
  BY <1>2, <1>6
<1> QED
  BY <1>1, <1>3, <1>4, <1>5, <1>6, Stills DEF AllSame

-----------------------------------------------------------------------------
(* NeverSendsOnClosed *)

\* The rows of a pass are different messages.
LEMMA RowsApart ==
  ASSUME NEW r \in 1..Len(Rows), NEW q \in 1..Len(Rows), Rows[r] = Rows[q]
  PROVE  r = q
<1> USE Constants
<1> DEFINE n == Len(Rows)
           S == ToSet(Rows)
<1>1. n \in Nat /\ Rows \in [1..n -> Msg] /\ DOMAIN Rows = 1..n
  OBVIOUS
<1>2. S = {Rows[i] : i \in 1..n}
  BY <1>1 DEF ToSet
<1>3. Rows \in [1..n -> S] /\ \A s \in S : \E i \in 1..n : Rows[i] = s
  BY <1>1, <1>2
<1>4. Cardinality(S) = n
  BY TransferAssumption
<1> HIDE DEF n, S
<1>5. Rows \in Surjection(1..n, S)
  BY <1>3, Fun_IsSurj
<1>6. IsFiniteSet(1..n) /\ Cardinality(1..n) = n
  <2>1. 1 \in Int /\ n \in Int /\ n >= 0
    BY <1>1
  <2>2. IsFiniteSet(1..n) /\ Cardinality(1..n) = IF 1 > n THEN 0 ELSE n - 1 + 1
    BY <2>1, FS_Interval
  <2> QED
    BY <2>1, <2>2
<1>7. Rows \in Injection(1..n, S)
  BY <1>4, <1>5, <1>6, FS_Surjection
<1>8. \A i, j \in 1..n : Rows[i] = Rows[j] => i = j
  BY <1>7 DEF Injection, IsInjective
<1> QED
  BY <1>8 DEF n

LEMMA ClosedStays ==
  ASSUME NEW k, Move(k), cli[k].closed
  PROVE  cli'[k].closed
  BY DEF Move, Rests, Feeds, Calls, CallsInVain, Greets, Opens1, Proceeds, Hears, IsAnswered, Finds, Closes,
     Tells, Serves, SameVoice

\* A server that has been cut off sends nothing.
LEMMA ServedDeaf ==
  ASSUME Typed, NEW k \in Conn, Serve(k) \/ Trouble(k), srv[k].on => ~srv[k].peer, down[k] = <<>>
  PROVE  down'[k] = <<>>
<1>1. CASE Breaks(k)
  <2>1. PICK n \in 0..Len(down[k]) : down'[k] = SubSeq(down[k], 1, n)
    BY <1>1 DEF Breaks
  <2>2. Len(down[k]) = 0
    BY Local
  <2>3. n = 0
    BY <2>2
  <2> QED
    BY <2>1, <2>3
<1>2. CASE Hangs(k)
  BY <1>2 DEF Hangs
<1>3. CASE Lined(k) \/ Refused(k) \/ Begins(k) \/ Fills(k) \/ Stores(k) \/ Rejects(k)
  <2>1. \/ down'[k] = down[k]
        \/ \E es : Sends(k, es)
    BY <1>3, ServedAnswers
  <2>2. srv[k].on
    BY <1>3 DEF Lined, Refused, Begins, Fills, Stores, Rejects, Reads
  <2> QED
    BY <2>1, <2>2 DEF Sends
<1> QED
  BY <1>1, <1>2, <1>3, ServerCases

LEMMA HeardOutStays ==
  ASSUME ~LateBuffer, Typed, Typed', NEW k \in Conn, PeerKnows(k), Move(k),
         cli[k].closed => down[k] = <<>>, cli'[k].closed
  PROVE  down'[k] = <<>>
<1>0. cli[k].closed \in BOOLEAN /\ cli'[k].closed \in BOOLEAN
  BY Local DEF Typed, ClientsTyped, Clients
<1>1. CASE Serves(k)
  <2>1. cli[k].closed
    BY <1>1 DEF Serves, SameVoice
  <2> QED
    BY <1>1, <2>1, ServedDeaf DEF Serves, PeerKnows
<1>2. CASE Closes(k)
  BY <1>2 DEF Closes
<1>3. CASE Opens1(k) \/ Finds(k)
  BY <1>3 DEF Opens1, Finds, SameWire
<1>4. CASE Hears(k) \/ IsAnswered(k)
  BY <1>4 DEF Hears, IsAnswered, SameVoice
<1>5. CASE Rests(k) \/ Feeds(k) \/ Calls(k) \/ CallsInVain(k) \/ Greets(k) \/ Proceeds(k) \/ Tells(k)
  BY <1>5 DEF Rests, Feeds, Calls, CallsInVain, Greets, Proceeds, Tells, SameVoice, SameWire
<1> QED
  BY <1>1, <1>2, <1>3, <1>4, <1>5 DEF Move

LEMMA HeardOutNext ==
  ASSUME ~LateBuffer, Typed, Typed', CodingInv, HeardOut, [Next]_vars
  PROVE  HeardOut'
<1> SUFFICES ASSUME NEW k \in Conn, cli'[k].closed
             PROVE  down'[k] = <<>>
  BY DEF HeardOut
<1> QED
  BY Moves, HeardOutStays DEF CodingInv, HeardOut

-----------------------------------------------------------------------------
(* The bodies are announced in the order in which they were fetched *)

LEMMA FifoLocal ==
  ASSUME Typed, FifoInv
  PROVE  /\ cli[src].fifo \in Seq(Msg) /\ Len(cli[src].fifo) \in Nat
         /\ DOMAIN cli[src].fifo = 1..Len(cli[src].fifo)
         /\ next \in 1..(Len(Rows) + 1) /\ next \in Nat /\ Len(Rows) \in Nat
         /\ Front1 \in 1..next /\ Front1 = next - Len(cli[src].fifo) /\ Front1 \in Nat
         /\ Rows \in [1..Len(Rows) -> Msg]
         /\ \A i \in 1..Len(cli[src].fifo) :
              /\ Front1 + i - 1 \in Front1..(next - 1) /\ Front1 + i - 1 \in 1..Len(Rows)
              /\ cli[src].fifo[i] = Rows[Front1 + i - 1]
              /\ ~Gone => ~body[cli[src].fifo[i]].shut
         /\ cli[src].to # None => \E r \in 1..(Front1 - 1) : r \in 1..Len(Rows) /\ cli[src].to = Rows[r]
<1> USE Constants
<1>1. cli[src].fifo \in Seq(Msg)
  BY Local DEF Clients
<1>2. Len(cli[src].fifo) \in Nat /\ DOMAIN cli[src].fifo = 1..Len(cli[src].fifo)
  BY <1>1
<1>3. next \in 1..(Len(Rows) + 1) /\ next \in Nat /\ Len(Rows) \in Nat
  BY DEF Typed, WorkerTyped
<1>4. Front1 \in 1..next /\ Front1 = next - Len(cli[src].fifo) /\ Front1 \in Nat
  BY <1>2, <1>3 DEF FifoInv, Front1
<1>5. Rows \in [1..Len(Rows) -> Msg]
  OBVIOUS
<1>6. \A i \in 1..Len(cli[src].fifo) : Front1 + i - 1 \in Front1..(next - 1) /\ Front1 + i - 1 \in 1..Len(Rows)
  <2>1. PICK n, l, p, q : n = Len(cli[src].fifo) /\ l = Len(Rows) /\ p = Front1 /\ q = next
    OBVIOUS
  <2>2. n \in Nat /\ l \in Nat /\ q \in 1..(l + 1) /\ p \in 1..q /\ p = q - n
    BY <1>2, <1>3, <1>4, <2>1
  <2>3. \A i \in 1..n : p + i - 1 \in p..(q - 1) /\ p + i - 1 \in 1..l
    BY <2>2
  <2> QED
    BY <2>1, <2>3
<1>7. \A i \in 1..Len(cli[src].fifo) :
              /\ cli[src].fifo[i] = Rows[Front1 + i - 1]
              /\ ~Gone => ~body[cli[src].fifo[i]].shut
  BY <1>2 DEF FifoInv
<1>8. cli[src].to # None => \E r \in 1..(Front1 - 1) : r \in 1..Len(Rows) /\ cli[src].to = Rows[r]
  <2> SUFFICES ASSUME cli[src].to # None
               PROVE  \E r \in 1..(Front1 - 1) : r \in 1..Len(Rows) /\ cli[src].to = Rows[r]
    OBVIOUS
  <2>1. PICK r \in 1..(Front1 - 1) : cli[src].to = Rows[r]
    BY DEF FifoInv
  <2>2. r \in 1..Len(Rows)
    BY <1>3, <1>4
  <2> QED
    BY <2>1, <2>2
<1> QED
  BY <1>1, <1>2, <1>3, <1>4, <1>5, <1>6, <1>7, <1>8

\* Who is being read waits no more.
LEMMA ReadApart ==
  ASSUME Typed, FifoInv, cli[src].to # None
  PROVE  /\ cli[src].to \notin ToSet(cli[src].fifo)
         /\ cli[src].to # Rows[next] \/ next = Len(Rows) + 1
<1>0. PICK r \in 1..(Front1 - 1) : r \in 1..Len(Rows) /\ cli[src].to = Rows[r]
  BY FifoLocal
<1>1. ASSUME cli[src].to \in ToSet(cli[src].fifo)
      PROVE  FALSE
  <2>1. PICK i \in 1..Len(cli[src].fifo) : cli[src].to = cli[src].fifo[i]
    BY <1>1, FifoLocal DEF ToSet
  <2>2. Front1 + i - 1 \in Front1..(next - 1) /\ Front1 + i - 1 \in 1..Len(Rows) /\ cli[src].to = Rows[Front1 + i - 1]
    BY <2>1, FifoLocal
  <2>3. r = Front1 + i - 1
    BY <1>0, <2>2, RowsApart
  <2>4. Front1 \in Nat /\ r \in 1..(Front1 - 1) /\ i \in Nat /\ i >= 1
    BY <1>0, <2>1, FifoLocal
  <2> QED
    BY <2>3, <2>4
<1>2. ASSUME next # Len(Rows) + 1, cli[src].to = Rows[next]
      PROVE  FALSE
  <2>0. \A a, l \in Nat : a \in 1..(l + 1) /\ a # l + 1 => a \in 1..l
    OBVIOUS
  <2>1. next \in 1..Len(Rows) /\ Front1 \in 1..next
    BY <1>2, <2>0, FifoLocal
  <2>2. r = next
    BY <1>0, <1>2, <2>1, RowsApart
  <2> QED
    BY <1>0, <2>1, <2>2
<1> QED
  BY <1>1, <1>2

LEMMA WaitApart ==
  ASSUME Typed, FifoInv, next \in 1..Len(Rows), NEW i \in 1..Len(cli[src].fifo)
  PROVE  cli[src].fifo[i] # Rows[next]
<1>1. Front1 + i - 1 \in Front1..(next - 1) /\ Front1 + i - 1 \in 1..Len(Rows) /\ cli[src].fifo[i] = Rows[Front1 + i - 1]
  BY FifoLocal
<1>2. Front1 \in Nat /\ next \in Nat
  BY FifoLocal
<1>3. Front1 + i - 1 # next
  BY <1>1, <1>2
<1> QED
  BY <1>1, <1>3, RowsApart

\* Steps that leave the queue alone: only a body nobody waits for is shut.
LEMMA FifoStays ==
  ASSUME Typed, FifoInv, next' = next,
         cli'[dst].fifo = <<>>, cli'[dst].to = None,
         cli'[src].fifo = cli[src].fifo, cli'[src].to \in {cli[src].to, None},
         \A k \in Conn : cli'[k].to # None => cli'[k].reader = "literal",
         Gone => Gone',
         \A m \in Msg : body'[m].shut => body[m].shut \/ (m = cli[src].to /\ cli'[src].to = None)
  PROVE  FifoInv'
<1> USE Constants
<1>1. Front1' = Front1
  BY DEF Front1
<1>2. ASSUME NEW i \in DOMAIN cli[src].fifo
      PROVE  /\ cli[src].fifo[i] = Rows[Front1 + i - 1]
             /\ ~Gone' => ~body'[cli[src].fifo[i]].shut
  <2>1. cli[src].fifo[i] = Rows[Front1 + i - 1] /\ (~Gone => ~body[cli[src].fifo[i]].shut)
    BY <1>2 DEF FifoInv
  <2>2. cli[src].fifo[i] \in Msg /\ cli[src].fifo[i] \in ToSet(cli[src].fifo)
    BY <1>2, FifoLocal DEF ToSet
  <2>3. cli[src].fifo[i] # cli[src].to
    BY <2>2, ReadApart
  <2> QED
    BY <2>1, <2>2, <2>3
<1>3. ASSUME cli'[src].to # None
      PROVE  /\ \E r \in 1..(Front1 - 1) : cli'[src].to = Rows[r]
             /\ ~(LateBuffer /\ Gone') => ~body'[cli'[src].to].shut
  <2>1. cli'[src].to = cli[src].to /\ cli[src].to \in Msg
    BY <1>3, Local DEF Clients
  <2> QED
    BY <1>3, <2>1 DEF FifoInv
<1>4. Front1 \in 1..next
  BY DEF FifoInv
<1> QED
  BY <1>1, <1>2, <1>3, <1>4 DEF FifoInv

\* startMore: the row joins the end of the queue.
LEMMA FifoFetched ==
  ASSUME Typed, FifoInv, Fetched, cli[src].closed => cli'[src].closed
  PROVE  FifoInv'
<1> USE Constants
<1> DEFINE f == cli[src].fifo
           n == Len(f)
<1>1. /\ f \in Seq(Msg) /\ n \in Nat /\ DOMAIN f = 1..n /\ next \in Nat /\ next \in 1..Len(Rows)
      /\ Front1 \in 1..next /\ Front1 = next - n /\ Front1 \in Nat
  BY FifoLocal DEF Fetched, WantsMore
<1>2. /\ next' = next + 1 /\ cli'[src].fifo = Append(f, Rows[next])
      /\ cli'[src].to = cli[src].to /\ cli'[src].reader = cli[src].reader
      /\ cli'[dst].fifo = cli[dst].fifo /\ cli'[dst].to = cli[dst].to /\ cli'[dst].reader = cli[dst].reader
  BY DEF Fetched, Others, SameReader
<1>3. Rows[next] \in Msg
  BY <1>1
<1>4. /\ Len(cli'[src].fifo) = n + 1 /\ DOMAIN cli'[src].fifo = 1..(n + 1)
      /\ \A i \in 1..n : cli'[src].fifo[i] = f[i]
      /\ cli'[src].fifo[n + 1] = Rows[next]
  BY <1>1, <1>2, <1>3, SeqAppend
<1>5. Front1' = Front1 /\ Front1 + (n + 1) - 1 = next /\ Front1 \in 1..(next + 1)
  <2>1. Front1' = (next + 1) - (n + 1)
    BY <1>2, <1>4 DEF Front1
  <2> QED
    BY <1>1, <2>1
<1>6. /\ \A m \in Msg \ {Rows[next]} : body'[m] = body[m]
      /\ ~cli[src].closed => ~body'[Rows[next]].shut
  BY <1>3 DEF Fetched, NewHandle, Typed, BodiesTyped
<1>g. ~Gone /\ (cli[src].closed => Gone')
  BY DEF Fetched, Gone, Running
<1>7. ASSUME NEW i \in 1..(n + 1)
      PROVE  /\ cli'[src].fifo[i] = Rows[Front1 + i - 1]
             /\ ~Gone' => ~body'[cli'[src].fifo[i]].shut
  <2>1. CASE i = n + 1
    BY <1>4, <1>5, <1>6, <1>g, <2>1
  <2>2. CASE i # n + 1
    <3>1. i \in 1..n
      BY <1>1, <1>7, <2>2
    <3>2. f[i] = Rows[Front1 + i - 1] /\ ~body[f[i]].shut
      BY <1>g, <3>1, FifoLocal
    <3>3. f[i] \in Msg /\ f[i] # Rows[next]
      BY <1>1, <3>1, WaitApart
    <3> QED
      BY <1>4, <1>6, <3>1, <3>2, <3>3
  <2> QED
    BY <2>1, <2>2
<1>8. ASSUME cli'[src].to # None
      PROVE  /\ \E r \in 1..(Front1 - 1) : cli'[src].to = Rows[r]
             /\ ~body'[cli'[src].to].shut
  <2>1. cli[src].to # Rows[next] /\ cli[src].to \in Msg
    <3>1. next # Len(Rows) + 1
      BY <1>1
    <3>2. cli[src].to \in Msg
      BY <1>2, <1>8, Local DEF Clients
    <3> QED
      BY <1>2, <1>8, <3>1, <3>2, ReadApart
  <2> QED
    BY <1>2, <1>6, <1>8, <1>g, <2>1 DEF FifoInv
<1> HIDE DEF f, n
<1>9. \A k \in Conn : cli'[k].to # None => cli'[k].reader = "literal"
  BY <1>2 DEF FifoInv
<1> QED
  BY <1>2, <1>4, <1>5, <1>7, <1>8, <1>9 DEF FifoInv

\* A body begins: the handle at the front of the queue leaves it.
LEMMA FifoAnnounced ==
  ASSUME Typed, FifoInv, ~LateBuffer => HeardOut, Announced(src), Gone => Gone'
  PROVE  FifoInv'
<1> USE Constants
<1> DEFINE f == cli[src].fifo
           n == Len(f)
<1>1. /\ f \in Seq(Msg) /\ n \in Nat /\ DOMAIN f = 1..n /\ next \in Nat
      /\ Front1 \in 1..next /\ Front1 = next - n /\ Front1 \in Nat
  BY FifoLocal
<1>2. /\ next' = next /\ cli'[src].reader = "literal"
      /\ cli'[dst].fifo = cli[dst].fifo /\ cli'[dst].to = cli[dst].to /\ cli'[dst].reader = cli[dst].reader
  BY DEF Announced, Others, SameReader
<1>3. ~LateBuffer => ~Gone
  BY DEF Announced, HeardOut, Gone
<1>4. \A k \in Conn : cli'[k].to # None => cli'[k].reader = "literal"
  BY <1>2 DEF FifoInv
<1>5. CASE f = <<>>
  <2>1. cli'[src].to = None /\ cli'[src].fifo = cli[src].fifo /\ body' = body
    BY <1>5 DEF Announced
  <2>2. cli'[dst].fifo = <<>> /\ cli'[dst].to = None
    BY <1>2 DEF FifoInv
  <2> QED
    BY <1>2, <1>4, <2>1, <2>2, FifoStays
<1>6. CASE f # <<>>
  <2>1. /\ Len(Tail(f)) = n - 1 /\ DOMAIN Tail(f) = 1..(n - 1) /\ n \in Nat \ {0}
        /\ \A i \in 1..(n - 1) : Tail(f)[i] = f[i + 1]
        /\ Head(f) = f[1] /\ f[1] \in Msg
    BY <1>1, <1>6, SeqTail
  <2>2. /\ cli'[src].to = f[1] /\ cli'[src].fifo = Tail(f)
        /\ \A m \in Msg : body'[m].shut = body[m].shut
    <3>1. cli'[src].to = Head(f) /\ cli'[src].fifo = Tail(f)
          /\ \E e : body' = [body EXCEPT ![Head(f)].size = e]
      BY <1>6 DEF Announced
    <3> QED
      BY <2>1, <3>1 DEF Typed, BodiesTyped, Handles
  <2>3. Front1' = Front1 + 1 /\ Front1 + 1 \in 1..next
    <3>1. Front1' = next - (n - 1)
      BY <1>2, <2>1, <2>2 DEF Front1
    <3> QED
      BY <1>1, <2>1, <3>1
  <2>4. ASSUME NEW i \in 1..(n - 1)
        PROVE  /\ cli'[src].fifo[i] = Rows[(Front1 + 1) + i - 1]
               /\ ~Gone' => ~body'[cli'[src].fifo[i]].shut
    <3>1. i + 1 \in 1..n /\ Front1 + (i + 1) - 1 = (Front1 + 1) + i - 1
      BY <1>1, <2>1, <2>4
    <3>2. f[i + 1] = Rows[Front1 + (i + 1) - 1] /\ (~Gone => ~body[f[i + 1]].shut) /\ f[i + 1] \in Msg
      BY <1>1, <3>1, FifoLocal
    <3> QED
      BY <2>1, <2>2, <2>4, <3>1, <3>2
  <2>5. f[1] = Rows[Front1] /\ (~(LateBuffer /\ Gone') => ~body[f[1]].shut)
    <3>1. 1 \in 1..n /\ Front1 + 1 - 1 = Front1
      BY <1>1, <2>1
    <3> QED
      BY <1>3, <3>1, FifoLocal
  <2>6. Front1 \in 1..((Front1 + 1) - 1)
    BY <1>1
  <2> HIDE DEF f, n
  <2>7. DOMAIN cli'[src].fifo = 1..(n - 1)
    BY <2>1, <2>2
  <2> QED
    BY <1>2, <1>4, <2>1, <2>2, <2>3, <2>4, <2>5, <2>6, <2>7 DEF FifoInv
<1> QED
  BY <1>5, <1>6

\* Abort empties the queue.
LEMMA FifoCleared ==
  ASSUME Typed, FifoInv, NEW k \in Conn, Cleared(k), Gone => Gone'
  PROVE  FifoInv'
<1> USE Constants
<1>1. /\ next' = next /\ next \in Nat /\ next >= 1
      /\ \A j \in Conn : cli'[j].to = cli[j].to /\ cli'[j].reader = cli[j].reader
      /\ \A j \in Conn \ {k} : cli'[j].fifo = cli[j].fifo
      /\ cli'[k].fifo = <<>>
      /\ cli[k].closed
  BY FifoLocal DEF Cleared, Others, SameReader
<1>2. \A m \in Msg \ ToSet(cli[k].fifo) : body'[m] = body[m]
  BY DEF Cleared
<1>3. \A j \in Conn : cli'[j].to # None => cli'[j].reader = "literal"
  BY <1>1 DEF FifoInv
<1>4. CASE k = dst
  <2>1. ToSet(cli[dst].fifo) = {}
    BY SeqDomain DEF FifoInv, ToSet
  <2>2. cli'[dst].fifo = <<>> /\ cli'[dst].to = None /\ cli'[src].fifo = cli[src].fifo
        /\ cli'[src].to = cli[src].to
    BY <1>1, <1>4 DEF FifoInv
  <2>3. \A m \in Msg : body'[m] = body[m]
    BY <1>2, <1>4, <2>1
  <2> QED
    BY <1>1, <1>3, <2>2, <2>3, FifoStays
<1>5. CASE k = src
  <2>1. Front1' = next /\ next \in 1..next
    <3>1. Len(cli'[src].fifo) = 0
      BY <1>1, <1>5
    <3>2. Front1' = next - 0
      BY <1>1, <3>1 DEF Front1
    <3> QED
      BY <1>1, <3>2
  <2>2. DOMAIN cli'[src].fifo = {}
    BY <1>1, <1>5
  <2>3. ASSUME cli'[src].to # None
        PROVE  /\ \E r \in 1..(next - 1) : cli'[src].to = Rows[r]
               /\ ~(LateBuffer /\ Gone') => ~body'[cli'[src].to].shut
    <3>0. cli'[src].to = cli[src].to /\ cli[src].to # None /\ cli[src].to \in Msg
      BY <1>1, <2>3, Local DEF Clients
    <3>1. PICK r \in 1..(Front1 - 1) : r \in 1..Len(Rows) /\ cli[src].to = Rows[r]
      BY <3>0, FifoLocal
    <3>2. Front1 \in 1..next /\ Front1 \in Nat
      BY FifoLocal
    <3>3. r \in 1..(next - 1)
      BY <1>1, <3>1, <3>2
    <3>4. cli[src].to \notin ToSet(cli[src].fifo)
      BY <3>0, ReadApart
    <3>5. ~(LateBuffer /\ Gone') => ~body[cli[src].to].shut
      BY <3>0 DEF FifoInv
    <3> QED
      BY <1>2, <1>5, <3>0, <3>1, <3>3, <3>4, <3>5
  <2>4. cli'[dst].fifo = <<>> /\ cli'[dst].to = None
    BY <1>1, <1>5 DEF FifoInv
  <2> QED
    BY <1>1, <1>3, <2>1, <2>2, <2>3, <2>4 DEF FifoInv
<1> QED
  BY <1>4, <1>5

\* The reader of the destination has nobody to give a body to.
LEMMA DestinationReads ==
  ASSUME Typed, FifoInv, Others(src) \/ Others(dst), next' = next,
         Others(dst) => cli'[dst].fifo = cli[dst].fifo /\ cli'[dst].to \in {cli[dst].to, None}
  PROVE  cli'[dst].fifo = <<>> /\ cli'[dst].to = None
<1> USE Constants
<1>1. cli[dst].fifo = <<>> /\ cli[dst].to = None
  BY DEF FifoInv
<1>2. CASE Others(src)
  BY <1>1, <1>2 DEF Others, SameReader
<1> QED
  BY <1>1, <1>2

LEMMA FifoRead ==
  ASSUME Typed, CodingInv, FifoInv, ~LateBuffer => HeardOut, Gone => Gone', NEW k \in Conn,
         Begun(k) \/ Announced(k) \/ Received(k) \/ Completed(k) \/ Broken(k) \/ Cleared(k)
  PROVE  FifoInv'
<1> USE Constants
<1>0. /\ cli[dst].fifo = <<>> /\ cli[dst].to = None /\ body \in [Msg -> Handles]
      /\ \A j \in Conn : cli[j].to # None => cli[j].reader = "literal"
  BY DEF FifoInv, Typed, BodiesTyped
<1>1. CASE Cleared(k)
  BY <1>1, FifoCleared
<1>2. CASE Announced(k) /\ k = src
  BY <1>2, FifoAnnounced
<1>3. CASE Begun(k)
  <2>1. cli[k].to = None
    <3>1. pc = "open"
      BY <1>3 DEF Begun, CodingInv, OpenFirst
    <3> QED
      BY <1>0, <3>1 DEF CodingInv, Quiet
  <2>2. /\ next' = next /\ body' = body
        /\ \A j \in Conn : cli'[j].fifo = cli[j].fifo /\ cli'[j].to = cli[j].to
                           /\ (j # k => cli'[j].reader = cli[j].reader)
    BY <1>3 DEF Begun, Others, SameReader
  <2>3. \A j \in Conn : cli'[j].to # None => cli'[j].reader = "literal"
    BY <1>0, <2>1, <2>2
  <2> QED
    BY <1>0, <2>2, <2>3, FifoStays
<1>4. CASE Announced(k) /\ k = dst
  <2>1. /\ next' = next /\ body' = body /\ cli'[dst].fifo = <<>> /\ cli'[dst].to = None
        /\ cli'[src].fifo = cli[src].fifo /\ cli'[src].to = cli[src].to /\ cli'[src].reader = cli[src].reader
    BY <1>0, <1>4 DEF Announced, Others, SameReader
  <2>2. \A j \in Conn : cli'[j].to # None => cli'[j].reader = "literal"
    BY <1>0, <2>1
  <2> QED
    BY <2>1, <2>2, FifoStays
<1>5. CASE Received(k) \/ Completed(k) \/ Broken(k)
  <2>1. /\ next' = next
        /\ \A j \in Conn \ {k} : cli'[j].to = cli[j].to /\ cli'[j].reader = cli[j].reader
        /\ \A j \in Conn : cli'[j].fifo = cli[j].fifo
        /\ cli'[k].to \in {cli[k].to, None} /\ (cli'[k].to # None => cli'[k].reader = cli[k].reader)
    BY <1>5 DEF Received, Completed, Broken, Others, SameReader
  <2>2. \A j \in Conn : cli'[j].to # None => cli'[j].reader = "literal"
    BY <1>0, <2>1
  <2>3. cli'[dst].fifo = <<>> /\ cli'[dst].to = None /\ cli'[src].fifo = cli[src].fifo
        /\ cli'[src].to \in {cli[src].to, None}
    BY <1>0, <2>1
  <2>4. ASSUME NEW m \in Msg, body'[m].shut
        PROVE  body[m].shut \/ (m = cli[src].to /\ cli'[src].to = None)
    <3>1. CASE Received(k)
      BY <1>0, <2>4, <3>1 DEF Received, Handles
    <3>2. CASE Completed(k) \/ Broken(k)
      <4>1. m # cli[k].to => body'[m] = body[m]
        BY <1>0, <3>2 DEF Completed, Broken
      <4>2. cli'[k].to = None
        BY <3>2 DEF Completed, Broken
      <4> QED
        BY <1>0, <2>4, <4>1, <4>2
    <3> QED
      BY <1>5, <3>1, <3>2
  <2> QED
    BY <2>1, <2>2, <2>3, <2>4, FifoStays
<1> QED
  BY <1>1, <1>2, <1>3, <1>4, <1>5

\* A pass that has been left stays so.
LEMMA LeftStays ==
  ASSUME [Next]_vars, ~Running
  PROVE  ~Running'
<1>1. Work => ClosePair \/ LoggedOut \/ Ended
  BY DEF Work, Opened, Select, Selected, StartMore, Filled, WaitSize, Begin, Continue, StreamChunk,
     StreamEnds, Finish, Room, SettleOne, Running
<1>2. Work => ~Running'
  BY <1>1 DEF ClosePair, LoggedOut, Ended, Running
<1>3. ~Work => pc' = pc
  BY TimeIs DEF Next, Process, Busy, Drain, Server, Vanish, Kick, vars, worker
<1> QED
  BY <1>2, <1>3 DEF Running

LEMMA FifoNext ==
  ASSUME Typed, CodingInv, FifoInv, ~LateBuffer => HeardOut, [Next]_vars
  PROVE  FifoInv'
<1> USE Constants
<1>0. /\ \A j \in Conn : cli[j].closed => cli'[j].closed
      /\ Gone => Gone'
      /\ body \in [Msg -> Handles]
      /\ cli[dst].fifo = <<>> /\ cli[dst].to = None
      /\ \A j \in Conn : cli[j].to # None => cli[j].reader = "literal"
  BY Moves, ClosedStays, LeftStays DEF FifoInv, Typed, BodiesTyped, Gone
<1>1. ASSUME next' = next, AllSame, \A m \in Msg : body'[m].shut = body[m].shut
      PROVE  FifoInv'
  <2>1. \A j \in Conn : cli'[j].fifo = cli[j].fifo /\ cli'[j].to = cli[j].to /\ cli'[j].reader = cli[j].reader
    BY <1>1 DEF AllSame, SameReader
  <2> QED
    BY <1>0, <1>1, <2>1, FifoStays
<1>2. ASSUME NEW m \in Msg, Taken(m)
      PROVE  FifoInv'
  <2>1. \A n \in Msg : body'[n].shut = body[n].shut
    BY <1>0, <1>2 DEF Taken, Handles
  <2> QED
    BY <1>1, <1>2, <2>1 DEF Taken
<1>3. CASE next' = next /\ body' = body /\ AllSame
  BY <1>1, <1>3
<1>4. CASE Fetched
  BY <1>0, <1>4, FifoFetched
<1> QED
  BY <1>0, <1>2, <1>3, <1>4, BodySteps, FifoRead

LEMMA FifoInit == Init => HeardOut /\ FifoInv
<1> SUFFICES ASSUME Init
             PROVE  HeardOut /\ FifoInv
  OBVIOUS
<1> USE Constants
<1>1. PICK plus \in BOOLEAN : cli = [k \in Conn |-> NewClient(plus)]
  BY DEF Init, ClientInit
<1>2. /\ next = 1
      /\ \A k \in Conn : /\ cli[k].to = None /\ ~cli[k].closed /\ cli[k].fifo = <<>>
  BY <1>1 DEF Init, NewClient
<1>3. Len(<<>>) = 0 /\ DOMAIN <<>> = {}
  OBVIOUS
<1>4. Front1 = 1
  BY <1>2, <1>3 DEF Front1
<1> QED
  BY <1>2, <1>3, <1>4 DEF HeardOut, FifoInv

LEMMA FifoHolds == Spec => [](Typed /\ CodingInv /\ (~LateBuffer => HeardOut) /\ FifoInv)
<1> DEFINE I == Typed /\ CodingInv /\ (~LateBuffer => HeardOut) /\ FifoInv
<1>1. Init => I
  BY InitTyped, CodingInit, FifoInit
<1>2. ASSUME I, [Next]_vars
      PROVE  I'
  <2>1. Typed' /\ CodingInv'
    BY <1>2, TypedNext, CodingNext
  <2>2. ~LateBuffer => HeardOut'
    BY <1>2, <2>1, HeardOutNext
  <2>3. FifoInv'
    BY <1>2, FifoNext
  <2> QED
    BY <2>1, <2>2, <2>3
<1> QED
  BY <1>1, <1>2, PTL DEF Spec

\* The reader never sends on the channel of a body that has been closed, which
\* would end the process: Abort fails only bodies nobody reads yet, and the reader
\* leaves a body before it closes it.  That holds for whatever is left in the
\* buffer of a connection that Abort closes, as long as the pass goes on.  One case
\* remains, and TLC finds it: BodyFetch on a closed connection queues a body it has
\* failed, and a reader that still has input may take it up; the pass has then been
\* left with that error (startMore), and the input is what the buffer held at Abort.
THEOREM NeverSendsOnClosedHolds ==
  Spec => [](NeverSendsOnClosed \/ (LateBuffer /\ ~Running /\ cli[src].closed))
<1>1. FifoInv => NeverSendsOnClosed \/ (LateBuffer /\ ~Running /\ cli[src].closed)
  BY Constants DEF FifoInv, NeverSendsOnClosed, Gone
<1>2. Spec => []FifoInv
  BY FifoHolds, PTL
<1> QED
  BY <1>1, <1>2, PTL

=============================================================================
