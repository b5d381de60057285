------------------------------- MODULE ImapServer -------------------------------
(***************************************************************************)
(* The server's end of an IMAP connection, as the client of                *)
(* internal/imapx meets it.  It is the project's own test server           *)
(* (internal/fakeimap/server.go) with the faults that server can be told   *)
(* to show: a dropped line, a lost acknowledgement, a hung server, refused *)
(* bodies.  One thing is added that it leaves to its tests: a message of   *)
(* the selected folder may vanish (Fleeting) while the client works on it. *)
(*                                                                         *)
(* up[k] is what the client has written on connection k and the server has *)
(* not read, down[k] what the server has written.  An element of either is *)
(* a line, a part of a literal, or its end.  z tells whether it went       *)
(* through the deflate stream.  A body is the sequence of its chunks.      *)
(***************************************************************************)
EXTENDS Integers, Sequences, FiniteSets

CONSTANTS
  Conn,        \* the connections
  Msg,         \* the messages of the source folder
  Size,        \* Size[m]: number of chunks (of 64 KiB) of the body of m
  Tiny,        \* the messages whose last chunk is no longer than a line end
  Fleeting,    \* the messages somebody may delete meanwhile
  None,        \* no message
  Faults,      \* what may go wrong (FaultKind)
  MaxFault     \* how often something goes wrong

ASSUME MessageAssumption ==
  /\ Size \in [Msg -> Nat]
  /\ Tiny \subseteq {m \in Msg : Size[m] > 0}
  /\ Fleeting \subseteq Msg
  /\ None \notin Msg

\* A line that breaks, a server that stops answering, a command that is refused,
\* a message that vanishes, and a kick of the client's own supervisor.
FaultKind == {"cut", "stall", "refuse", "vanish", "kick"}

ASSUME FaultAssumption == Faults \subseteq FaultKind /\ MaxFault \in Nat

VARIABLES
  up,      \* up[k]: on the way to the server
  down,    \* down[k]: on the way to the client
  srv,     \* srv[k]: what the goroutine that serves k knows
  box,     \* box[k]: the bodies appended on connection k
  here,    \* the messages that are still in the source folder
  faults   \* how often something may still go wrong

wire == <<up, down>>
peer == <<up, down, srv, box, here, faults>>

\* What a client writes: a line, with the size of the literal it announces; a
\* chunk of a literal; the end of a line.  sync: the literal waits for "+".
Line(verb, tag, m, size, sync, z) ==
  [verb |-> verb, tag |-> tag, msg |-> m, part |-> size, sync |-> sync, z |-> z]
Data(chunk, z) == Line("DATA", 0, chunk[1], chunk[2], FALSE, z)
LineEnd(z) == Line("CRLF", 0, None, 0, FALSE, z)
NoLine == Line("none", 0, None, 0, FALSE, FALSE)

\* What a server writes.
Reply(kind, tag, m, i, z) == [kind |-> kind, tag |-> tag, msg |-> m, part |-> i, z |-> z]

\* The body of a message, and bytes in its place that are not of it.
Body(m) == [i \in 1..Size[m] |-> <<m, i>>]
Stray == <<None, 0>>

Fault(kind) == kind \in Faults /\ faults > 0 /\ faults' = faults - 1

\* Start: the listener accepts k and greets it.
ServerInit ==
  /\ up = [k \in Conn |-> <<>>]
  /\ down = [k \in Conn |-> <<Reply("GREETING", 0, None, 0, FALSE)>>]
  /\ srv = [k \in Conn |-> [on |-> TRUE, peer |-> TRUE, hung |-> FALSE,
                            zip |-> FALSE, cmd |-> NoLine, got |-> <<>>]]
  /\ box = [k \in Conn |-> <<>>]
  /\ here = Msg
  /\ faults = MaxFault

-------------------------------------------------------------------------------
\* The responses to a command line e.  A message that is not there has no FETCH
\* response; the command is completed all the same.
Answer(k, e) ==
  LET z == srv[k].zip
      Ok == <<Reply("OK", e.tag, None, 0, z)>>
  IN CASE e.verb \in {"STARTTLS", "LOGIN", "ID", "COMPRESS", "SUBSCRIBE"} -> Ok
       [] e.verb = "CAPABILITY" -> <<Reply("CAPABILITY", 0, None, 0, z)>> \o Ok
       [] e.verb = "SELECT" -> <<Reply("UIDVALIDITY", 0, None, 0, z)>> \o Ok
       [] e.verb = "LOGOUT" -> <<Reply("BYE", 0, None, 0, z)>> \o Ok
       [] e.verb = "UID FETCH" ->
            IF e.msg \in here
            THEN <<Reply("BODY", 0, e.msg, Size[e.msg], z)>>
                   \o [i \in 1..Size[e.msg] |-> Reply("CHUNK", 0, e.msg, i, z)]
                   \o Ok
            ELSE Ok
       [] OTHER -> Ok

\* What the server writes, as long as the client's end is open.
Send(k, es) == IF srv[k].peer THEN [down EXCEPT ![k] = @ \o es] ELSE down

Reading(k) == srv[k].on /\ ~srv[k].hung /\ up[k] # <<>>

\* A command without a literal.  COMPRESS takes effect behind its own OK; after
\* LOGOUT the server closes the line.
ServeLine(k) ==
  LET e == Head(up[k])
  IN /\ Reading(k)
     /\ srv[k].cmd = NoLine
     /\ e.verb # "APPEND"
     /\ down' = Send(k, Answer(k, e))
     /\ srv' = [srv EXCEPT ![k].zip = @ \/ e.verb = "COMPRESS",
                           ![k].on = e.verb # "LOGOUT"]
     /\ up' = [up EXCEPT ![k] = Tail(@)]
     /\ UNCHANGED <<box, here, faults>>

\* The server does not do what it is asked for: LOGIN with bad credentials,
\* COMPRESS that is active already.
RefuseLine(k) ==
  LET e == Head(up[k])
  IN /\ Reading(k)
     /\ srv[k].cmd = NoLine
     /\ e.verb \in {"LOGIN", "COMPRESS"}
     /\ down' = Send(k, <<Reply("NO", e.tag, None, 0, srv[k].zip)>>)
     /\ up' = [up EXCEPT ![k] = Tail(@)]
     /\ Fault("refuse")
     /\ UNCHANGED <<srv, box, here>>

\* A line that ends in a literal: "+" if the client waits for it, and then
\* everything is literal until it is complete.
ServeAppend(k) ==
  LET e == Head(up[k])
  IN /\ Reading(k)
     /\ srv[k].cmd = NoLine
     /\ e.verb = "APPEND"
     /\ srv' = [srv EXCEPT ![k].cmd = e, ![k].got = <<>>]
     /\ down' = Send(k, IF e.sync THEN <<Reply("+", 0, None, 0, srv[k].zip)>> ELSE <<>>)
     /\ up' = [up EXCEPT ![k] = Tail(@)]
     /\ UNCHANGED <<box, here, faults>>

Missing(k) == srv[k].cmd.part - Len(srv[k].got)

\* readFull: what follows the line of an APPEND is its literal, whatever it was
\* meant to be.  A line fills a chunk only if that chunk is tiny.
ServeLiteral(k) ==
  LET e == Head(up[k])
      fills == e.verb = "DATA" \/ (Missing(k) = 1 /\ srv[k].cmd.msg \in Tiny)
  IN /\ Reading(k)
     /\ srv[k].cmd # NoLine
     /\ Missing(k) > 0
     /\ srv' = IF fills
               THEN [srv EXCEPT ![k].got =
                       Append(@, IF e.verb = "DATA" THEN <<e.msg, e.part>> ELSE Stray)]
               ELSE srv
     /\ up' = [up EXCEPT ![k] = Tail(@)]
     /\ UNCHANGED <<down, box, here, faults>>

\* The literal is complete: the rest of the line is read, and the body stored.
ServeBody(k) ==
  /\ Reading(k)
  /\ srv[k].cmd # NoLine
  /\ Missing(k) = 0
  /\ box' = [box EXCEPT ![k] = Append(@, [row |-> srv[k].cmd.msg, body |-> srv[k].got])]
  /\ srv' = [srv EXCEPT ![k].cmd = NoLine, ![k].got = <<>>]
  /\ down' = Send(k, <<Reply("OK", srv[k].cmd.tag, None, Len(box'[k]), srv[k].zip)>>)
  /\ up' = [up EXCEPT ![k] = Tail(@)]
  /\ UNCHANGED <<here, faults>>

\* AppendReject.
RefuseBody(k) ==
  /\ Reading(k)
  /\ srv[k].cmd # NoLine
  /\ Missing(k) = 0
  /\ srv' = [srv EXCEPT ![k].cmd = NoLine, ![k].got = <<>>]
  /\ down' = Send(k, <<Reply("NO", srv[k].cmd.tag, None, 0, srv[k].zip)>>)
  /\ up' = [up EXCEPT ![k] = Tail(@)]
  /\ Fault("refuse")
  /\ UNCHANGED <<box, here>>

\* AppendKill, DropAfterOKN, a network that fails: the line breaks, and of what
\* the server has written a beginning arrives.
Cut(k) ==
  /\ srv[k].on
  /\ srv' = [srv EXCEPT ![k].on = FALSE]
  /\ \E n \in 0..Len(down[k]) : down' = [down EXCEPT ![k] = SubSeq(@, 1, n)]
  /\ Fault("cut")
  /\ UNCHANGED <<up, box, here>>

\* StallAfterN: a server that never answers again.
Stall(k) ==
  /\ srv[k].on
  /\ ~srv[k].hung
  /\ srv' = [srv EXCEPT ![k].hung = TRUE]
  /\ Fault("stall")
  /\ UNCHANGED <<up, down, box, here>>

\* Another client, or the user, removes a message.
Vanish(m) ==
  /\ m \in here \cap Fleeting
  /\ here' = here \ {m}
  /\ Fault("vanish")
  /\ UNCHANGED <<up, down, srv, box>>

Serve(k) ==
  \/ ServeLine(k)
  \/ ServeAppend(k)
  \/ ServeLiteral(k)
  \/ ServeBody(k)

Trouble(k) ==
  \/ RefuseLine(k)
  \/ RefuseBody(k)
  \/ Cut(k)
  \/ Stall(k)
===============================================================================
