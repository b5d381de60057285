---------------------------- MODULE MCSelection ----------------------------
(***************************************************************************)
(* Instances of Selection.                                                 *)
(***************************************************************************)
EXTENDS Selection

\* Letters in two cases, and the letters outside ASCII.
TwoCases == ("INBOX" :> "inbox") @@ ("Sent" :> "sent") @@ ("Items" :> "items") @@ ("B" :> "b")
  @@ ("LIST" :> "list") @@ ("SEARCH" :> "search") @@ ("STATUS" :> "status") @@ ("FETCH" :> "fetch")
  @@ ("UID" :> "uid") @@ ("FLAGS" :> "flags") @@ ("DATE" :> "date") @@ ("SIZE" :> "size")
  @@ ("BODY" :> "body") @@ ("MESSAGES" :> "messages") @@ ("NIL" :> "nil")
Umlauts == {"oe", "ue"}
InBase64 == (<<"oe">> :> "APY") @@ (<<"ue">> :> "APw") @@ (<<"ue", "oe">> :> "APwA9g")

Folder(name, wire, attrs, literal, wanted) ==
  [name |-> name, wire |-> wire, attrs |-> attrs, delim |-> <<"/">>,
   literal |-> literal, wanted |-> wanted]

Inbox == <<"INBOX">>
SentItems == <<"Sent", SP, "Items">>
\* R&D "[(ue/oe)\
Odd == <<"R", "&", "D", SP, DQ, "[", "(", "ue", "/", "oe", ")", BS>>
OddWire == <<"R", "&", "-", "D", SP, DQ, "[", "(", "&", "APw", "-", "/", "&", "APY", "-", ")", BS>>
Backup == <<"Backup">>

Folders8 == <<
  Folder(SentItems, SentItems, <<>>, FALSE, TRUE),
  Folder(<<"a", ".", "B">>, <<"a", ".", "B">>, <<>>, FALSE, TRUE),
  Folder(<<"a", "/", "b">>, <<"a", "/", "b">>, <<<<BS, "haschildren">>>>, TRUE, TRUE),
  Folder(Inbox, Inbox, <<>>, FALSE, TRUE),
  Folder(<<"a">>, <<"a">>, <<<<BS, "noselect">>>>, FALSE, FALSE),
  Folder(Odd, OddWire, <<>>, FALSE, TRUE),
  Folder(<<"Everything">>, <<"Everything">>, <<<<BS, "all">>, <<BS, "hasnochildren">>>>, FALSE, FALSE),
  Folder(Backup, Backup, <<>>, FALSE, TRUE)>>

\* Two folders of sent mail.
FoldersSent == <<
  Folder(<<"Sent">>, <<"Sent">>, <<>>, FALSE, TRUE),
  Folder(SentItems, SentItems, <<>>, FALSE, TRUE)>>

\* A third one; and two folders that become one with the other delimiter.
FoldersThree == Append(FoldersSent, Folder(<<"Sent", SP, "messages">>, <<"Sent", SP, "messages">>, <<>>, FALSE, TRUE))
FoldersClash == SubSeq(Folders8, 2, 3)

Message(folder, uid, date) == [folder |-> folder, uid |-> uid, date |-> <<date>>, size |-> 7]
Late == {Message(SentItems, 14, "d2")}
Gone == {Message(Inbox, 11, "d2")}
AllMail == Late \cup Gone \cup
  {Message(Inbox, 9, "d1"), Message(Inbox, 15, "d4"), Message(SentItems, 12, "d2"), Message(Inbox, 13, "dx"), Message(Inbox, 14, "d2"), Message(<<"a", "/", "b">>, 1, "d1"),
   Message(<<"a", "/", "b">>, 2, "d2"), Message(<<"a", ".", "B">>, 1, "d2"), Message(OddWire, 1, "d1")}
MailClash == {m \in AllMail : m.folder \in {<<"a", "/", "b">>, <<"a", ".", "B">>}}
MailSent == {Message(<<"Sent">>, 1, "d1"), Message(SentItems, 1, "d2")}

Dates == ("d1" :> 4) @@ ("d2" :> 6) @@ ("d4" :> 12)

At(b) == [none |-> [kind |-> "none", at |-> 0],
          day |-> [kind |-> "relative", at |-> 0],
          five |-> [kind |-> "zoned", at |-> 5],
          local8 |-> [kind |-> "local", at |-> 8],
          nine |-> [kind |-> "zoned", at |-> 9]][b]
Given == {[from |-> At("none"), to |-> At("none")], [from |-> At("five"), to |-> At("none")],
          [from |-> At("five"), to |-> At("local8")], [from |-> At("nine"), to |-> At("local8")],
          [from |-> At("day"), to |-> At("none")]}
NoFlags == {[from |-> At("none"), to |-> At("none")]}

Hours == [w \in {"p", "q"} |-> IF w = "p" THEN 0 ELSE 2]
ToSent == Backup :> <<"INBOX", ".", "old", ".", "Sent">>
NoMapping == <<>>

Existing(name, attrs) == [attrs |-> attrs, delim |-> <<".">>, literal |-> FALSE, wire |-> name]
WithSent == <<Existing(Inbox, <<>>), Existing(<<"INBOX", ".", "Sent">>, <<<<BS, "Sent">>>>)>>
OnlyInbox == <<Existing(Inbox, <<>>)>>
AtRoot == [prefix |-> <<>>, delim |-> <<>>]
UnderInbox == [prefix |-> <<"INBOX", ".">>, delim |-> <<".">>]

\* Sets of UIDs at the top of their range become intervals and back.
Top == 2^(W - 1) .. 2^W - 1
AreIntervals(iv, uids) ==
  /\ UidsOf(iv) = uids
  /\ \A k \in 1 .. Len(iv) - 1 : iv[k].hi + 1 < iv[k + 1].lo
ASSUME IntervalsAreSets ==
  \A a, b \in SUBSET Top :
    LET d == IntervalsDiff(ToIntervals(Ascending(a)), ToIntervals(Ascending(b)))
    IN  /\ AreIntervals(d, a \ b)
        /\ UNION {UidsOf(SetStrings(d)[k]) : k \in DOMAIN SetStrings(d)} = a \ b
=============================================================================
