----------------------------- MODULE Selection -----------------------------
(***************************************************************************)
(* What a migration selects: the window of --from and --to                 *)
(* (internal/config/daterange.go, scheduler.go), the plan of the folders   *)
(* (planner.go) and the scan that records the messages of each             *)
(* (folder.go). Processes share one State Database; one at a time has the  *)
(* mailbox. They are started with flags of their own, killed and started   *)
(* again, while mail arrives at and leaves the source.                     *)
(***************************************************************************)
EXTENDS Planner, Intervals

CONSTANTS Worker,         \* the processes
          Zone,           \* their distance to UTC
          Flags,          \* what an operator may give as --from and --to
          WindowFirst,    \* the first to start gives a window
          DateOf,         \* the dates that can be read, and the instants they say
          Source,         \* the folders of the source, in the order of LIST
          Mail,           \* their messages: what may ever be there
          Arriving,       \* those that arrive later
          Leaving,        \* those that may be deleted
          Destination0,   \* the folders of the destination
          SourceNS, DestinationNS,  \* what NAMESPACE says
          StatusMayFail,  \* the source may refuse a STATUS
          Updates,        \* the source may tell of a flag that changed, amid an answer
          MaxStarts,      \* processes started
          MaxDeaths       \* ... and killed

VARIABLES stored,  \* the window in the database: run_ranges
          pc,      \* what a process does: "off", "saved", "ready", "in", "refused"
          range,   \* the window it applies
          lease,   \* who has the mailbox, or nobody
          box,     \* the UIDs in each folder of the source
          there,   \* the folders of the destination, in the order of LIST
          folders, \* the table folders: the destination of each folder
          rows,    \* the table messages: what is recorded of a message
          plan,    \* the plan of the session
          next,    \* the folder it is at
          heard,   \* the UIDs that SEARCH told
          lines,   \* the sets that are still to be fetched, as intervals
          scanned, \* the scan of the folder is complete
          started, died

window == <<stored, pc, range>>
account == <<box, there>>
tables == <<folders, rows>>
session == <<plan, next, heard, lines, scanned>>
vars == <<window, lease, account, tables, session, started, died>>

Nobody == "-"
Names == {Source[k].wire : k \in DOMAIN Source}

-----------------------------------------------------------------------------
(* The window. An instant counts half seconds; Open is no bound.             *)

Open == -1
Unrestricted == [active |-> FALSE, from |-> Open, to |-> Open]

\* parseISO: a bound without an offset is local time; a day that moves, and what
\* is no date, are refused.
Readable(b) == b.kind \notin {"relative", "garbage"}
Instant(b, zone) ==
  CASE b.kind = "none"  -> Open
    [] b.kind = "zoned" -> b.at
    [] b.kind = "local" -> b.at - zone

Resolvable(f, zone) ==
  /\ Readable(f.from) /\ Readable(f.to)
  /\ \/ Open \in {Instant(f.from, zone), Instant(f.to, zone)}
     \/ Instant(f.from, zone) <= Instant(f.to, zone)

ResolveRange(f, zone) ==
  [active |-> f.from.kind # "none" \/ f.to.kind # "none",
   from |-> Instant(f.from, zone), to |-> Instant(f.to, zone)]

\* RFC 3339 as the database keeps it: whole seconds.
Whole(t) == IF t = Open THEN Open ELSE t - (t % 2)
StoredRange(r) == [active |-> r.active, from |-> Whole(r.from), to |-> Whole(r.to)]

Includes(r, t) == /\ r.from = Open \/ t >= r.from
                  /\ r.to = Open \/ t <= r.to

\* A message without a readable date is outside every window.
IncludesRaw(r, date) ==
  \/ ~r.active
  \/ Len(date) = 1 /\ Head(date) \in DOMAIN DateOf /\ Includes(r, DateOf[Head(date)])

-----------------------------------------------------------------------------
(* What the servers say.                                                     *)

Line(segs, lits) == [segs |-> segs, lits |-> lits]
Number(n) == <<ToString(n)>>
Spaced(texts) == Join(texts, SP)

\* A folder: a server that has no hierarchy says NIL for the delimiter, and one
\* may send a name as a literal.
ListLine(f) ==
  LET envelope == <<"*", SP, "LIST", SP, "(">> \o Spaced(f.attrs) \o <<")", SP>>
                  \o (IF f.delim = <<>> THEN <<"NIL">> ELSE QuoteIMAP(f.delim)) \o <<SP>>
  IN  IF f.literal THEN Line(<<envelope, <<>>>>, <<f.wire>>)
      ELSE Line(<<envelope \o QuoteIMAP(f.wire)>>, <<>>)

SearchLine(uids) ==
  Line(<<<<"*", SP, "SEARCH">> \o FlattenSeq([k \in DOMAIN uids |-> <<SP>> \o Number(uids[k])])>>, <<>>)

StatusLine(n) == Line(<<<<"*", SP, "STATUS", SP, "name", SP, "(", "MESSAGES", SP>> \o Number(n)
                        \o <<")">>>>, <<>>)

\* A message; its date is quoted, its header a literal.
FetchLine(m) ==
  Line(<<<<"*", SP, "1", SP, "FETCH", SP, "(", "UID", SP>> \o Number(m.uid)
         \o <<SP, "FLAGS", SP, "(", BS, "Seen", ")", SP, "DATE", SP>> \o QuoteIMAP(m.date)
         \o <<SP, "SIZE", SP>> \o Number(m.size)
         \o <<SP, "BODY", "[", "HEADER", SP, "(", "DATE", ")", "]", SP>>, <<")">>>>,
       <<<<"header">>>>)

\* A flag of the message changed: the UID and the flags only.
UpdateLine(m) ==
  Line(<<<<"*", SP, "1", SP, "FETCH", SP, "(", "UID", SP>> \o Number(m.uid)
         \o <<SP, "FLAGS", SP, "(", ")", ")">>>>, <<>>)

\* What a command collects from the lines of its answer.
Collected(said) == [k \in DOMAIN said |-> ParseLine(said[k])]

Each(op(_), seq) == [k \in DOMAIN seq |-> op(seq[k])]

\* What LIST says of the source never changes.
SourceEntries == ListAll(Collected(Each(ListLine, Source)))

\* The messages estimated in a folder: 0 when STATUS is refused.
Estimates(failing) ==
  [w \in Names |-> IF w \in failing THEN 0
                   ELSE Status(Collected(<<StatusLine(Cardinality(box[w]))>>))[<<"messages">>]]

-----------------------------------------------------------------------------
(* Processes.                                                                *)

Init ==
  /\ stored = Unrestricted
  /\ pc = [w \in Worker |-> "off"] /\ range = [w \in Worker |-> Unrestricted]
  /\ lease = Nobody
  /\ box = [n \in Names |-> {m.uid : m \in {x \in Mail : x.folder = n}} \ {m.uid : m \in {x \in Arriving : x.folder = n}}]
  /\ there = Destination0
  /\ folders = <<>> /\ rows = {}
  /\ plan = <<>> /\ next = 1 /\ heard = {} /\ lines = <<>> /\ scanned = FALSE
  /\ started = 0 /\ died = 0

\* cmdMigrate and RunMigrationBus: the flags are resolved, and the window is
\* saved unless there is none or one is there.
Start(w) ==
  /\ pc[w] = "off" /\ started < MaxStarts
  /\ started' = started + 1
  /\ \E f \in Flags :
       IF ~Resolvable(f, Zone[w])
       THEN pc' = [pc EXCEPT ![w] = "refused"] /\ UNCHANGED <<stored, range>>
       ELSE LET r == ResolveRange(f, Zone[w])
            IN  /\ r.active \/ stored.active \/ ~WindowFirst
                /\ pc' = [pc EXCEPT ![w] = "saved"]
                /\ range' = [range EXCEPT ![w] = r]
                /\ stored' = IF r.active /\ ~stored.active THEN StoredRange(r) ELSE stored
  /\ UNCHANGED <<lease, account, tables, session, died>>

\* Mutant: the flags of this process win.
LoadOwn(w) ==
  /\ pc[w] = "saved"
  /\ pc' = [pc EXCEPT ![w] = "ready"]
  /\ range' = [range EXCEPT ![w] = IF @.active THEN @ ELSE stored]
  /\ UNCHANGED <<stored, lease, account, tables, session, started, died>>

\* The window that is stored wins.
Load(w) ==
  /\ pc[w] = "saved"
  /\ pc' = [pc EXCEPT ![w] = "ready"]
  /\ range' = [range EXCEPT ![w] = IF stored.active THEN stored ELSE @]
  /\ UNCHANGED <<stored, lease, account, tables, session, started, died>>

\* The mailbox is taken, the folders listed and planned.
Enter(w) ==
  /\ pc[w] = "ready" /\ lease = Nobody
  /\ lease' = w /\ pc' = [pc EXCEPT ![w] = "in"]
  /\ \E failing \in {{}} \cup (IF StatusMayFail THEN {{n} : n \in Names} ELSE {}) :
       plan' = BuildPlan(SourceEntries, SourceNS,
                         ListAll(Collected(Each(ListLine, there))), DestinationNS,
                         Estimates(failing))
  /\ next' = 1 /\ heard' = {} /\ lines' = <<>> /\ scanned' = FALSE
  /\ UNCHANGED <<stored, range, account, tables, started, died>>

Exists(wire) == \E k \in DOMAIN there : there[k].wire = wire
Known(n) == {r.uid : r \in {x \in rows : x.folder = n}}

\* A folder is opened: its row, the folder of the destination (created when
\* STATUS refuses it), the UIDs of the source less the known ones. What happens
\* in between to rows that are there already is FolderSync's.
OpenFolder(w) ==
  /\ lease = w /\ pc[w] = "in" /\ next \in DOMAIN plan /\ lines = <<>> /\ ~scanned
  /\ LET p == plan[next]
         uids == UIDSearchAll(Collected(<<SearchLine(Ascending(box[p.srcWire]))>>))
     IN  /\ folders' = (p.src :> p.dst) @@ folders
         /\ there' = IF Exists(p.dstWire) THEN there
                     ELSE Append(there, [attrs |-> <<>>, delim |-> DestinationNS.delim,
                                         literal |-> FALSE, wire |-> p.dstWire])
         /\ heard' = ToSet(uids)
         /\ lines' = SetStrings(IntervalsDiff(ToIntervals(uids), ToIntervals(Ascending(Known(p.srcWire)))))
         /\ scanned' = (lines' = <<>>)
  /\ UNCHANGED <<window, lease, box, rows, plan, next, started, died>>

\* A set is fetched: what is in the window is planned, INSERT OR IGNORE. What was
\* deleted since the search is not told of; an update may come first.
FetchSet(w) ==
  /\ lease = w /\ pc[w] = "in" /\ lines # <<>>
  /\ LET n == plan[next].srcWire
         uids == Ascending(UidsOf(Head(lines)) \cap box[n])
         mail == [k \in DOMAIN uids |-> CHOOSE m \in Mail : m.folder = n /\ m.uid = uids[k]]
     IN  \E changed \in {{}} \cup (IF Updates THEN {{m} : m \in ToSet(mail)} ELSE {}) :
           LET said == Each(UpdateLine, SetToSeq(changed)) \o Each(FetchLine, mail)
               metas == SelectSeq(UIDFetchMeta(Collected(said)),
                                  LAMBDA m : IncludesRaw(range[w], m.date) /\ m.uid \notin Known(n))
               First(m) == \A k \in DOMAIN metas : metas[k].uid = m.uid =>
                             \E j \in 1 .. k : metas[j] = m
           IN  rows' = rows \cup {[folder |-> n, uid |-> m.uid, size |-> m.size, date |-> m.date] :
                                    m \in {x \in ToSet(metas) : First(x)}}
  /\ lines' = Tail(lines) /\ scanned' = (Tail(lines) = <<>>)
  /\ UNCHANGED <<window, lease, account, folders, plan, next, heard, started, died>>

\* The folder is left for the next; after the last the process ends.
LeaveFolder(w) ==
  /\ lease = w /\ pc[w] = "in"
  /\ scanned \/ next \notin DOMAIN plan
  /\ scanned' = FALSE /\ heard' = {}
  /\ IF next < Len(plan)
     THEN next' = next + 1 /\ UNCHANGED <<pc, lease, plan>>
     ELSE /\ pc' = [pc EXCEPT ![w] = "off"] /\ lease' = Nobody
          /\ plan' = <<>> /\ next' = 1
  /\ UNCHANGED <<stored, range, account, tables, lines, started, died>>

\* A process is killed, and its lease runs out.
Die(w) ==
  /\ pc[w] \in {"saved", "ready", "in"} /\ died < MaxDeaths
  /\ died' = died + 1
  /\ pc' = [pc EXCEPT ![w] = "off"]
  /\ IF lease = w
     THEN /\ lease' = Nobody /\ plan' = <<>> /\ next' = 1
          /\ heard' = {} /\ lines' = <<>> /\ scanned' = FALSE
     ELSE UNCHANGED <<lease, session>>
  /\ UNCHANGED <<stored, range, account, tables, started>>

\* Mail arrives, above all that is there; mail is deleted.
Arrive ==
  /\ \E m \in Arriving :
       /\ m.uid \notin box[m.folder]
       /\ \A u \in box[m.folder] : u < m.uid
       /\ box' = [box EXCEPT ![m.folder] = @ \cup {m.uid}]
  /\ UNCHANGED <<window, lease, there, tables, session, started, died>>

Expunge ==
  /\ \E m \in Leaving :
       /\ m.uid \in box[m.folder]
       /\ box' = [box EXCEPT ![m.folder] = @ \ {m.uid}]
  /\ UNCHANGED <<window, lease, there, tables, session, started, died>>

Next ==
  \/ \E w \in Worker : Start(w) \/ Load(w) \/ Enter(w) \/ OpenFolder(w) \/ FetchSet(w)
                       \/ LeaveFolder(w) \/ Die(w)
  \/ Arrive \/ Expunge

Spec == Init /\ [][Next]_vars

-----------------------------------------------------------------------------

TypeOK ==
  /\ pc \in [Worker -> {"off", "saved", "ready", "in", "refused"}]
  /\ lease \in Worker \cup {Nobody}
  /\ lease # Nobody <=> \E w \in Worker : pc[w] = "in"
  /\ \A r \in rows : r.folder \in Names /\ r.uid \in Uid

\* When the scan of a folder is complete, of the messages that SEARCH told of
\* and that are still there those are recorded that lie in the one window of
\* the State Database, and no others: whatever the flags and the time zone of
\* the process that scans, of those before it, and wherever they were killed.
Selected(m) ==
  stored.active => /\ Head(m.date) \in DOMAIN DateOf
                   /\ stored.from = Open \/ stored.from <= DateOf[Head(m.date)]
                   /\ stored.to = Open \/ DateOf[Head(m.date)] <= stored.to
PlansTheWindow ==
  scanned =>
    \A m \in Mail :
      m.folder = plan[next].srcWire /\ m.uid \in heard \cap box[m.folder]
        => (m.uid \in Known(m.folder) <=> Selected(m))

\* The plan has every folder that is to be migrated under its own name, with
\* quotes, brackets, ampersands and foreign letters in it, and what is created
\* at the destination reads back as what was planned.
PlanIsComplete ==
  lease # Nobody =>
    /\ {<<p.src, p.srcWire>> : p \in ToSet(plan)}
         = {<<f.name, f.wire>> : f \in {x \in ToSet(Source) : x.wanted}}
    /\ \A p \in ToSet(plan) : DecodeMUTF7(p.dstWire) = p.dst

\* Two folders of the source never share a folder of the destination, not even
\* one whose name differs in case only (planner.go:213).
PlanKeepsApart ==
  \A j, k \in DOMAIN plan : j # k => ~EqualFold(plan[j].dst, plan[k].dst)

\* A folder of the source keeps its folder at the destination, from session to
\* session: else what it holds is copied a second time, beside the first.
DestinationsStay ==
  [][\A n \in DOMAIN folders : folders'[n] = folders[n]]_folders

\* What is recorded of a message is what the server has of it.
RowsAreWhole ==
  \A r \in rows : \E m \in Mail : m.folder = r.folder /\ m.uid = r.uid
                                  /\ m.size = r.size /\ m.date = r.date
=============================================================================
