------------------------------ MODULE Planner ------------------------------
(***************************************************************************)
(* From the folders of the source to their names at the destination        *)
(* (internal/engine/planner.go). An entry is what LIST tells of a folder:  *)
(* its attributes, its delimiter and its name on the wire.                 *)
(***************************************************************************)
EXTENDS Syntax

CONSTANTS Mapping,       \* --map: names of the source to names of the destination
          Include,       \* the patterns of --include, each the set of the names it matches
          Exclude,       \* the patterns of --exclude
          GmailAllMail   \* --gmail-all-mail

INBOX == <<"inbox">>

\* Attributes as LIST says them, in lower case.
Special(word) == <<BS, word>>
SpecialUse == {Special(w) : w \in {"sent", "drafts", "trash", "junk", "archive", "flagged"}}
GmailVirtual == {Special("all"), Special("important")}
Unselectable == {Special("noselect"), Special("nonexistent")}

\* What a name means where the server says nothing.
NameRoles ==
  (<<"sent">> :> Special("sent")) @@ (<<"sent", SP, "items">> :> Special("sent"))
  @@ (<<"sent", SP, "messages">> :> Special("sent")) @@ (<<"drafts">> :> Special("drafts"))
  @@ (<<"trash">> :> Special("trash")) @@ (<<"deleted", SP, "items">> :> Special("trash"))
  @@ (<<"junk">> :> Special("junk")) @@ (<<"spam">> :> Special("junk"))
  @@ (<<"junk", SP, "e-mail">> :> Special("junk")) @@ (<<"archive">> :> Special("archive"))

NoRole == <<>>

RoleOf(attrs, leaf) ==
  LET special == SelectSeq(attrs, LAMBDA a : a \in SpecialUse)
  IN  CASE special # <<>> -> Head(special)
        [] special = <<>> /\ Lower(leaf) \in DOMAIN NameRoles -> NameRoles[Lower(leaf)]
        [] OTHER -> NoRole

Leaf(name, delim) == Last(Split(name, delim))

\* The delimiter of an account: what NAMESPACE says, else the first that LIST
\* says, else a slash. A delimiter is a text of one glyph or none.
DelimiterOf(entries, ns) ==
  LET said == SelectSeq(<<ns>> \o [k \in DOMAIN entries |-> entries[k].delim],
                        LAMBDA d : d # <<>>)
  IN  IF said = <<>> THEN "/" ELSE Head(said)[1]

\* The prefixes of the namespaces: the destination's ends in its delimiter, the
\* source's only when it is INBOX.
SourcePrefix(prefix, delim) ==
  IF prefix # <<>> /\ Last(prefix) # delim /\ EqualFold(prefix, INBOX)
  THEN Append(prefix, delim) ELSE prefix
DestinationPrefix(prefix, delim) ==
  IF prefix # <<>> /\ Last(prefix) # delim THEN Append(prefix, delim) ELSE prefix

\* Mutant: the last folder of a role takes it.
LatestRoles(entries, delim) ==
  Through(LAMBDA roles, e :
             LET role == RoleOf(e.attrs, Leaf(DecodeMUTF7(e.wire), delim))
             IN  IF role = NoRole THEN roles ELSE (role :> e.wire) @@ roles,
           <<>>, entries)

\* The folder of the destination for each role: the first that LIST says.
DestinationRoles(entries, delim) ==
  Through(LAMBDA roles, e :
             LET role == RoleOf(e.attrs, Leaf(DecodeMUTF7(e.wire), delim))
             IN  IF role = NoRole THEN roles ELSE roles @@ (role :> e.wire),
           <<>>, entries)

Matches(patterns, name) == \E p \in patterns : name \in p

\* Folders that are planned: those one may open, not virtual ones, as asked.
Planned(e) ==
  LET name == DecodeMUTF7(e.wire)
  IN  /\ ToSet(e.attrs) \cap Unselectable = {}
      /\ ToSet(e.attrs) \cap GmailVirtual = {} \/ GmailAllMail
      /\ Include = {} \/ Matches(Include, name)
      /\ ~Matches(Exclude, name)

\* A name without prefix and empty parts, put together with the other delimiter.
Join(parts, delim) ==
  IF parts = <<>> THEN <<>>
  ELSE Through(LAMBDA name, p : name \o <<delim>> \o p, Head(parts), Tail(parts))

Translated(name, delim, srcPfx, dstPfx, dstDelim) ==
  LET body == IF srcPfx # <<>> /\ IsPrefix(srcPfx, name)
              THEN SubSeq(name, Len(srcPfx) + 1, Len(name)) ELSE name
      joined == Join(SelectSeq(Split(body, delim), LAMBDA p : p # <<>>), dstDelim)
  IN  IF EqualFold(joined, INBOX) THEN <<"INBOX">> ELSE dstPfx \o joined

\* Where a folder of the source goes.
Destination(e, delim, roles, srcPfx, dstPfx, dstDelim) ==
  LET name == DecodeMUTF7(e.wire)
      role == RoleOf(e.attrs, Leaf(name, delim))
  IN  CASE EqualFold(name, INBOX) -> <<"INBOX">>
        [] ~EqualFold(name, INBOX) /\ name \in DOMAIN Mapping -> Mapping[name]
        [] ~EqualFold(name, INBOX) /\ name \notin DOMAIN Mapping /\ role \in DOMAIN roles
             -> DecodeMUTF7(roles[role])
        [] OTHER -> Translated(name, delim, srcPfx, dstPfx, dstDelim)

\* INBOX first, then the largest; equal ones keep their order.
PlanLess(a, b) ==
  LET ai == IF EqualFold(a.src, INBOX) THEN 0 ELSE 1
      bi == IF EqualFold(b.src, INBOX) THEN 0 ELSE 1
  IN  IF ai # bi THEN ai < bi ELSE a.est > b.est

InPlanOrder(plans) ==
  Through(LAMBDA out, p :
             LET before == SelectSeq(out, LAMBDA q : ~PlanLess(p, q))
                 after == SelectSeq(out, LAMBDA q : PlanLess(p, q))
             IN  before \o <<p>> \o after,
           <<>>, plans)

\* Mutant: names that differ in case only are told apart.
ApartCaseSensitive(plans) ==
  Through(LAMBDA s, p :
             LET clash == p.dst \in DOMAIN s.seen /\ s.seen[p.dst] # p.src
                 dst == IF clash THEN Append(p.dst, "-mf") ELSE p.dst
             IN  [out |-> Append(s.out, [p EXCEPT !.dst = dst]),
                  seen |-> (dst :> p.src) @@ s.seen],
           [out |-> <<>>, seen |-> <<>>], plans).out

\* Two folders with one name at the destination: the second is told apart.
Apart(plans) ==
  Through(LAMBDA s, p :
             LET low == Lower(p.dst)
                 clash == low \in DOMAIN s.seen /\ s.seen[low] # p.src
                 dst == IF clash THEN Append(p.dst, "-mf") ELSE p.dst
             IN  [out |-> Append(s.out, [p EXCEPT !.dst = dst]),
                  seen |-> (Lower(dst) :> p.src) @@ s.seen],
           [out |-> <<>>, seen |-> <<>>], plans).out

\* estimates: what STATUS says of a folder of the source, 0 when it fails.
BuildPlan(srcEntries, srcNS, dstEntries, dstNS, estimates) ==
  LET srcDelim == DelimiterOf(srcEntries, srcNS.delim)
      dstDelim == DelimiterOf(dstEntries, dstNS.delim)
      srcPfx == SourcePrefix(DecodeMUTF7(srcNS.prefix), srcDelim)
      dstPfx == DestinationPrefix(DecodeMUTF7(dstNS.prefix), dstDelim)
      roles == DestinationRoles(dstEntries, dstDelim)
      chosen == SelectSeq(srcEntries, Planned)
      Plan(e) ==
        LET delim == IF e.delim = <<>> THEN srcDelim ELSE e.delim[1]
        IN  [src |-> DecodeMUTF7(e.wire), srcWire |-> e.wire, est |-> estimates[e.wire],
             dst |-> Destination(e, delim, roles, srcPfx, dstPfx, dstDelim)]
      plans == Apart(InPlanOrder([k \in DOMAIN chosen |-> Plan(chosen[k])]))
  IN  [k \in DOMAIN plans |-> [src |-> plans[k].src, srcWire |-> plans[k].srcWire,
                               dst |-> plans[k].dst, dstWire |-> EncodeMUTF7(plans[k].dst)]]
=============================================================================
