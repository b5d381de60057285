------------------------------- MODULE Syntax -------------------------------
(***************************************************************************)
(* The lines of an IMAP server as the client reads them: the tokenizer,    *)
(* the response parser and the attribute map (internal/imapx/parser.go),   *)
(* the answers to LIST, SEARCH, STATUS and FETCH (client.go) and the wire  *)
(* form of folder names (mutf7.go).                                        *)
(*                                                                         *)
(* A text is a sequence of glyphs. A glyph is one of the characters the    *)
(* grammar knows, or a word that has none of them. A line is what the      *)
(* client reads: the pieces between the literals, and the literals.        *)
(***************************************************************************)
EXTENDS Naturals, Sequences, SequencesExt, FiniteSets, TLC

CONSTANTS Folded,   \* words whose lower case differs, and that lower case
          Foreign,  \* the glyphs outside ASCII
          Base64,   \* their runs as modified base64, one word each
          MaxNum    \* the largest number a line may say

ASSUME SyntaxAssumption ==
  /\ MaxNum \in Nat
  /\ \A r, q \in DOMAIN Base64 : Base64[r] = Base64[q] => r = q

SP == " "
DQ == "\""
BS == "\\"

\* FoldLeft of SequencesExt in one pass over the positions: lines are long.
Through(op(_, _), base, seq) ==
  LET f[k \in 0 .. Len(seq)] == IF k = 0 THEN base ELSE op(f[k - 1], seq[k])
  IN  f[Len(seq)]

Fold(g) == IF g \in DOMAIN Folded THEN Folded[g] ELSE g
Lower(text) == [k \in DOMAIN text |-> Fold(text[k])]
EqualFold(a, b) == Lower(a) = Lower(b)

\* The parts of a text between the occurrences of a glyph.
Split(text, d) ==
  Through(LAMBDA parts, g : IF g = d THEN Append(parts, <<>>)
                                      ELSE [parts EXCEPT ![Len(parts)] = Append(@, g)],
           << <<>> >>, text)

\* A token is a text or a list of tokens; Nothing is neither.
Text(t) == [kind |-> "text", text |-> t, items |-> <<>>]
List(ts) == [kind |-> "list", text |-> <<>>, items |-> ts]
Nothing == [kind |-> "none", text |-> <<>>, items |-> <<>>]

-----------------------------------------------------------------------------
(* tokenize. stack holds the lists that are open, cur the token begun; in a  *)
(* "section" a token that began with a bracket ends with it, in an "inner"   *)
(* one the atom around the brackets goes on.                                 *)

PushToken(s, t) == [s EXCEPT !.stack[Len(s.stack)] = Append(@, t)]
Emit(s) == [PushToken(s, Text(s.cur)) EXCEPT !.mode = "none", !.cur = <<>>]

Pop(s) ==
  IF Len(s.stack) = 1 THEN s
  ELSE PushToken([s EXCEPT !.stack = Front(@)], List(Last(s.stack)))

Begin(s, g) ==
  CASE g = SP  -> s
    [] g = "(" -> [s EXCEPT !.stack = Append(@, <<>>)]
    [] g = ")" -> Pop(s)
    [] g = DQ  -> [s EXCEPT !.mode = "quote"]
    [] g = "[" -> [s EXCEPT !.mode = "section", !.depth = 1, !.cur = <<g>>]
    [] OTHER   -> [s EXCEPT !.mode = "atom", !.cur = <<g>>]

Bracket(s, g) ==
  LET d == s.depth + (IF g = "[" THEN 1 ELSE 0) - (IF g = "]" THEN 1 ELSE 0)
      t == [s EXCEPT !.cur = Append(@, g), !.depth = d]
  IN  IF g # "]" \/ d > 0 THEN t
      ELSE IF s.mode = "section" THEN Emit(t) ELSE [t EXCEPT !.mode = "atom"]

Read(s, g) ==
  CASE s.mode = "none" -> Begin(s, g)
    [] s.mode = "quote" ->
         IF g = DQ THEN Emit(s)
         ELSE IF g = BS THEN [s EXCEPT !.mode = "escape"]
         ELSE [s EXCEPT !.cur = Append(@, g)]
    [] s.mode = "escape" -> [s EXCEPT !.mode = "quote", !.cur = Append(@, g)]
    [] s.mode = "atom" ->
         IF g \in {SP, "(", ")"} THEN Begin(Emit(s), g)
         ELSE IF g = "[" THEN [s EXCEPT !.mode = "inner", !.depth = 1, !.cur = Append(@, g)]
         ELSE [s EXCEPT !.cur = Append(@, g)]
    [] OTHER -> Bracket(s, g)

\* A piece of the line ends, whatever is open in it.
EndSegment(s) ==
  IF s.mode = "none" THEN s
  ELSE Emit(IF s.mode = "escape" THEN [s EXCEPT !.cur = Append(@, BS)] ELSE s)

Tokenize(segs, lits) ==
  LET Segment(s, k) ==
        LET t == EndSegment(Through(Read, s, segs[k]))
        IN  IF k <= Len(lits) THEN PushToken(t, Text(lits[k])) ELSE t
  IN  Through(Segment, [stack |-> << <<>> >>, mode |-> "none", depth |-> 0, cur |-> <<>>],
               [k \in DOMAIN segs |-> k]).stack[1]

-----------------------------------------------------------------------------
\* What a token says.
IsText(t) == t.kind = "text"
NumbersSaid(text) == {n \in 0 .. MaxNum : <<ToString(n)>> = text}
IsNumber(t) == IsText(t) /\ NumbersSaid(t.text) # {}
TokUint(t) == CHOOSE n \in NumbersSaid(t.text) : TRUE

\* The text before and after the first space; all of it when there is none.
HeadOf(text) == Split(text, SP)[1]
AfterHead(text) == SubSeq(text, Len(HeadOf(text)) + 2, Len(text))

StatusWords == {<<"ok">>, <<"no">>, <<"bad">>, <<"preauth">>, <<"bye">>}

Response == [tag |-> <<>>, status |-> <<>>, type |-> <<>>, code |-> <<>>,
             text |-> <<>>, tokens |-> <<>>]

\* OK, NO, ...: a code in brackets, then words for people.
StatusResponse(r, word, text) ==
  LET end == SelectInSeq(text, LAMBDA g : g = "]")
      said == SubSeq(text, end + 1, Len(text))
  IN  IF text # <<>> /\ Head(text) = "[" /\ end > 0
      THEN [r EXCEPT !.status = word,
                     !.code = Tokenize(<<SubSeq(text, 2, end - 1)>>, <<>>),
                     !.text = IF said # <<>> /\ Head(said) = SP THEN Tail(said) ELSE said]
      ELSE [r EXCEPT !.status = word, !.text = text]

\* A line with a tag and a space; any other the reader logs and passes over.
ParseLine(line) ==
  LET first == line.segs[1]
      tag == HeadOf(first)
      after == AfterHead(first)
      counted == tag = <<"*">> /\ NumbersSaid(HeadOf(after)) # {}
      rest == IF counted THEN AfterHead(after) ELSE after
      word == Lower(HeadOf(rest))
      r == [Response EXCEPT !.tag = tag]
  IN  CASE tag = <<"+">> -> [r EXCEPT !.text = after]
        [] tag # <<"+">> /\ word \in StatusWords -> StatusResponse(r, word, AfterHead(rest))
        [] OTHER -> [r EXCEPT !.type = word,
                              !.tokens = Tokenize(<<AfterHead(rest)>> \o Tail(line.segs), line.lits)]

-----------------------------------------------------------------------------
(* The answers. data is what a command collected: one response per line.     *)

TextOr(t, default) == IF IsText(t) THEN t.text ELSE default

\* Names: attributes in order, delimiter (none when the server says NIL), name.
ListEntry(r) ==
  [attrs |-> LET as == SelectSeq(r.tokens[1].items, IsText)
             IN  [k \in DOMAIN as |-> Lower(as[k].text)],
   delim |-> IF EqualFold(TextOr(r.tokens[2], <<>>), <<"nil">>) THEN <<>>
             ELSE TextOr(r.tokens[2], <<>>),
   wire |-> TextOr(r.tokens[3], <<>>)]

ListAll(data) ==
  LET heard == SelectSeq(data, LAMBDA r : Len(r.tokens) >= 3)
  IN  [k \in DOMAIN heard |-> ListEntry(heard[k])]

UIDSearchAll(data) ==
  LET words == FlattenSeq([k \in DOMAIN data |-> SelectSeq(data[k].tokens, IsNumber)])
  IN  [k \in DOMAIN words |-> TokUint(words[k])]

\* The pairs of a list as a set of keys and values: a key is a text, in lower
\* case and cut at its bracket; a later value of the same key replaces it.
FetchAttrs(tokens) ==
  LET lists == SelectSeq(tokens, LAMBDA t : t.kind = "list")
      pairs == IF lists = <<>> THEN tokens ELSE Head(lists).items
      Key(t) == LET at == SelectInSeq(t.text, LAMBDA g : g = "[")
                IN  Lower(IF at > 1 THEN SubSeq(t.text, 1, at - 1) \o <<"[", "]">> ELSE t.text)
      Scan(s, k) ==
        IF k < s.next \/ k = Len(pairs) THEN s
        ELSE IF ~IsText(pairs[k]) THEN [s EXCEPT !.next = k + 1]
        ELSE [next |-> k + 2, map |-> (Key(pairs[k]) :> pairs[k + 1]) @@ s.map]
  IN  Through(Scan, [next |-> 1, map |-> <<>>], [k \in DOMAIN pairs |-> k]).map

Attr(map, key) == IF key \in DOMAIN map THEN map[key] ELSE Nothing

\* A FETCH that does not tell the UID is none of ours.
UIDFetchMeta(data) ==
  LET maps == [k \in DOMAIN data |-> FetchAttrs(data[k].tokens)]
      ours == SelectSeq(maps, LAMBDA m : IsNumber(Attr(m, <<"uid">>)))
  IN  [k \in DOMAIN ours |->
         [uid |-> TokUint(Attr(ours[k], <<"uid">>)),
          size |-> IF IsNumber(Attr(ours[k], <<"size">>)) THEN TokUint(Attr(ours[k], <<"size">>)) ELSE 0,
          flags |-> LET fs == SelectSeq(Attr(ours[k], <<"flags">>).items, IsText)
                    IN  [j \in DOMAIN fs |-> fs[j].text],
          date |-> TextOr(Attr(ours[k], <<"date">>), <<>>),
          header |-> TextOr(Attr(ours[k], <<"body", "[", "]">>), <<>>)]]

\* STATUS: a list of words and numbers.
Status(data) ==
  LET lists == FlattenSeq([k \in DOMAIN data |->
                 SelectSeq(data[k].tokens, LAMBDA t : t.kind = "list")])
      Pairs(items) == {k \in DOMAIN items : k % 2 = 1 /\ k < Len(items)
                                           /\ IsText(items[k]) /\ IsNumber(items[k + 1])}
  IN  Through(LAMBDA map, l : [key \in {Lower(l.items[k].text) : k \in Pairs(l.items)} |->
                 TokUint(l.items[1 + (CHOOSE k \in Pairs(l.items) :
                                        Lower(l.items[k].text) = key)])] @@ map,
               <<>>, lists)

-----------------------------------------------------------------------------
(* Folder names. Runs of foreign glyphs become base64 between an ampersand   *)
(* and a hyphen; the ampersand itself becomes an empty run.                  *)

FlushRun(s) ==
  IF s.run = <<>> THEN s
  ELSE [out |-> s.out \o <<"&", Base64[s.run], "-">>, run |-> <<>>]

\* Mutant: an ampersand is written as it is.
EncodeOneRaw(s, g) ==
  IF g \in Foreign THEN [s EXCEPT !.run = Append(@, g)]
  ELSE [FlushRun(s) EXCEPT !.out = Append(@, g)]

EncodeOne(s, g) ==
  IF g \in Foreign THEN [s EXCEPT !.run = Append(@, g)]
  ELSE [FlushRun(s) EXCEPT !.out = @ \o (IF g = "&" THEN <<"&", "-">> ELSE <<g>>)]

EncodeMUTF7(name) ==
  FlushRun(Through(EncodeOne, [out |-> <<>>, run |-> <<>>], name)).out

\* What stands between an ampersand and the next hyphen; what is not base64 of
\* anything stays as it is.
DecodeRun(seg) ==
  IF seg = <<>> THEN <<"&">>
  ELSE IF \E r \in DOMAIN Base64 : <<Base64[r]>> = seg
  THEN CHOOSE r \in DOMAIN Base64 : <<Base64[r]>> = seg
  ELSE <<"&">> \o seg \o <<"-">>

DecodeMUTF7(wire) ==
  LET Scan(s, g) ==
        IF ~s.open THEN IF g = "&" THEN [s EXCEPT !.open = TRUE, !.seg = <<>>]
                                   ELSE [s EXCEPT !.out = Append(@, g)]
        ELSE IF g = "-" THEN [s EXCEPT !.open = FALSE, !.out = @ \o DecodeRun(s.seg)]
        ELSE [s EXCEPT !.seg = Append(@, g)]
      end == Through(Scan, [out |-> <<>>, open |-> FALSE, seg |-> <<>>], wire)
  IN  IF end.open THEN end.out \o <<"&">> \o end.seg ELSE end.out

\* A string in a command.
QuoteIMAP(text) ==
  <<DQ>> \o FlattenSeq([k \in DOMAIN text |->
              IF text[k] \in {BS, DQ} THEN <<BS, text[k]>> ELSE <<text[k]>>]) \o <<DQ>>
=============================================================================
