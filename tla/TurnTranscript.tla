--------------------------- MODULE TurnTranscript ---------------------------
(***************************************************************************)
(* relay_message_activity (daemon/activity_relay.py): the blocks of the    *)
(* messages the CLI streams become entries of the surface's feed; and the  *)
(* picker among them is answered and read back from its answer string.     *)
(*                                                                         *)
(* What the model writes is a document: pieces of prose, code, pages and   *)
(* notes, of which it writes the text.  The reader is to see the document. *)
(***************************************************************************)
EXTENDS RenderSegments, AskAnswer

CONSTANTS
    Pieces,     \* what a document is made of: [kind, body]
    Cuts,       \* what may end it when the reply was cut
    Questions,  \* the group of questions the picker asks
    Texts,      \* free texts a user may give
    MaxPieces   \* bound: pieces and other blocks the model writes; an ask counts for two

Kinds  == {"prose", "span", "fence", "artifact", "doing", "verb"}
Fields == {"answer", "custom", "question"}
Tags   == [q : Nat, head : STRING, field : Fields]
Lines  == [tags : Seq(Tags), text : Seq(STRING)]

ASSUME TranscriptAssumption ==
    /\ MaxPieces \in Nat
    /\ Pieces \cup Cuts \subseteq [kind : Kinds, body : Seq(STRING)]
    /\ <<>> \in Texts /\ Texts \subseteq Seq(Lines)
    /\ Questions \in Seq([head : STRING, multiSelect : BOOLEAN, options : Seq(Seq(STRING))])

VARIABLES
    feed,    \* the entries recorded on the surface
    meant,   \* history: the entries the model's documents stand for
    given,   \* history: the responses the user gave, <<>> before
    written  \* history: pieces and blocks so far

vars == <<feed, meant, given, written>>

\* The text of a piece, as the model writes it.
Text(piece) ==
    CASE piece.kind = "prose"    -> piece.body
      [] piece.kind = "span"     -> <<Tick>> \o piece.body \o <<Tick>>
      [] piece.kind = "fence"    -> <<Tick, Tick, Tick>> \o piece.body \o <<Tick, Tick, Tick>>
      [] piece.kind = "artifact" -> <<"<artifact>">> \o piece.body \o <<"</artifact>">>
      [] piece.kind = "doing"    -> <<"<doing>">> \o piece.body \o <<"</doing>">>
      [] piece.kind = "verb"     -> <<"<doing verb>">> \o piece.body \o <<"</doing>">>

TextOf(doc) == FlattenSeq([i \in 1 .. Len(doc) |-> Text(doc[i])])

\* The entries a document stands for: its pages and notes, and between two of
\* them the prose and code in one piece.
Shown(piece) ==
    CASE piece.kind = "artifact" -> <<Segment("artifact", Strip(piece.body), "")>>
      [] piece.kind = "doing"    -> NoteOf("<doing>", piece.body)
      [] piece.kind = "verb"     -> NoteOf("<doing verb>", piece.body)

Verbatim(doc, from, to) == TextOf(SubSeq(doc, from, to))
Breaks(doc) == {i \in 1 .. Len(doc) : doc[i].kind \in {"artifact", "doing", "verb"}}
Before(doc, i) == LET b == {k \in Breaks(doc) : k < i}
                  IN  IF b = {} THEN 1 ELSE 1 + CHOOSE k \in b : \A l \in b : l <= k
EntriesAt(doc, i) ==
    IF i <= Len(doc) /\ i \notin Breaks(doc) THEN <<>>
    ELSE Flush(Verbatim(doc, Before(doc, i), i - 1))
         \o IF i <= Len(doc) THEN Shown(doc[i]) ELSE <<>>
EntriesOf(doc) == FlattenSeq([i \in 1 .. Len(doc) + 1 |-> EntriesAt(doc, i)])

Entry(seg)  == [kind |-> seg.kind, body |-> seg.body, verb |-> seg.verb, answer |-> <<>>]
Entries(ss) == [i \in 1 .. Len(ss) |-> Entry(ss[i])]
Writes(n)   == written + n <= MaxPieces /\ written' = written + n

Init == feed = <<>> /\ meant = <<>> /\ given = <<>> /\ written = 0

RelayText(doc) ==
    /\ Writes(Len(doc))
    /\ feed' = feed \o Entries(Split(TextOf(doc)))
    /\ meant' = meant \o EntriesOf(doc)
    /\ UNCHANGED given

\* A tool call is one line; a result ends the turn.
RelayLine(kind) ==
    /\ Writes(1)
    /\ feed' = Append(feed, Entry(Segment(kind, <<>>, "")))
    /\ meant' = Append(meant, Segment(kind, <<>>, ""))
    /\ UNCHANGED given

Asked == {i \in 1 .. Len(feed) : feed[i].kind = "ask"}

RelayAsk ==
    /\ Asked = {}
    /\ Writes(2)
    /\ feed' = Append(feed, Entry(Segment("ask", <<>>, "")))
    /\ meant' = Append(meant, Segment("ask", <<>>, ""))
    /\ UNCHANGED given

\* The card is sent once, when every question is addressed (Groups).
Unanswered == {i \in Asked : feed[i].answer = <<>>}
Answer(rs) ==
    /\ \E i \in Unanswered :
          feed' = [feed EXCEPT ![i].answer = FormatGroupAnswer(Questions, rs)]
    /\ given' = rs
    /\ UNCHANGED <<meant, written>>

Docs(n)   == UNION {[1 .. k -> Pieces] : k \in 0 .. n}
Documents == LET n == MaxPieces - written
             IN  (Docs(n) \ {<<>>}) \cup {d \o <<c>> : d \in Docs(n - 1), c \in Cuts}

Picks(question) == IF question.multiSelect THEN SUBSET (1 .. Len(question.options))
                   ELSE {{}} \cup {{i} : i \in 1 .. Len(question.options)}
Responses(question) == [chosen : Picks(question), custom : Texts, question : Texts]
Groups[n \in 0 .. Len(Questions)] ==
    IF n = 0 THEN {<<>>}
    ELSE {Append(rs, r) : rs \in Groups[n - 1], r \in {x \in Responses(Questions[n]) : IsAddressed(x)}}

Next ==
    \/ written < MaxPieces /\ \E doc \in Documents : RelayText(doc)
    \/ \E kind \in {"tool", "result"} : RelayLine(kind)
    \/ RelayAsk
    \/ Unanswered # {} /\ \E rs \in Groups[Len(Questions)] : Answer(rs)

Spec == Init /\ [][Next]_vars

(***************************************************************************)
(* Properties.                                                             *)
(***************************************************************************)
\* What a piece is made of belongs to it: prose has no backtick and opens no
\* tag, code and pages end where they should.  What a cut reply left open is
\* never closed.
Proper(piece) ==
    LET Has(toks) == \E i \in DOMAIN piece.body : piece.body[i] \in toks
    IN  /\ piece.kind = "prose" => ~Has({Tick} \cup Page.open \cup Note.open)
        /\ piece.kind = "span" => piece.body # <<>> /\ ~Has({Tick, Newline})
        /\ piece.kind = "fence" =>
              \A q \in DOMAIN piece.body : ~Fenced(piece.body \o <<Tick, Tick, Tick>>, q)
        /\ piece.kind = "artifact" => ~Has({Page.close})
        /\ piece.kind \in {"doing", "verb"} => ~Has({Note.close})

Open(piece) ==
    /\ piece.kind = "prose"
    /\ \A tag \in {Page, Note} : \A i, j \in DOMAIN piece.body :
          piece.body[i] \in tag.open /\ i <= j => piece.body[j] # tag.close

Closed == (\A piece \in Pieces : Proper(piece)) /\ (\A piece \in Cuts : Open(piece))

FeedShown == [i \in 1 .. Len(feed) |-> [kind |-> feed[i].kind, body |-> feed[i].body,
                                        verb |-> feed[i].verb]] = meant

\* The feed shows what the model wrote: every word, in reading order, pages
\* and notes as such, and a tag inside code, or one that is never closed, as
\* the prose it is; except when what a cut reply left open holds a whole page
\* or note.
FeedAsWritten == Closed => FeedShown

\* A typed line that could be taken for the start of a field.
Ambiguous(lines) == \E i \in 2 .. Len(lines) : Starts(Questions, lines[i])
Clear(rs) == \A q \in 1 .. Len(Questions) :
    /\ IsInjective(Questions[q].options)
    /\ ~Ambiguous(Trim(rs[q].custom)) /\ ~Ambiguous(Trim(rs[q].question))
    /\ Questions[q].multiSelect => \A i \in rs[q].chosen : Len(Questions[q].options[i]) = 1

Trimmed(rs) == [q \in 1 .. Len(Questions) |->
    [chosen |-> rs[q].chosen, custom |-> Trim(rs[q].custom), question |-> Trim(rs[q].question)]]

ReadBack == \A i \in Asked : feed[i].answer # <<>> =>
    ParseGroupAnswer(Questions, feed[i].answer) = Trimmed(given)

\* The card shown again after a reload has the picks and the texts the user
\* gave to each question, also when headers repeat and texts have several
\* lines or begin like a tag; except when a later line of a text is exactly a
\* tag of the group, a label of a multi-select question contains ", ", or two
\* options of a question have one label.
AnswerReadBack == (given # <<>> => Clear(given)) => ReadBack

\* "free text that merely looks like a marker [does not] confuse the parser".
TextIsNoMarker == ReadBack
=============================================================================
