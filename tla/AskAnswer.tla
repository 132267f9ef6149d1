------------------------------ MODULE AskAnswer ------------------------------
(***************************************************************************)
(* askAnswer.ts: the responses to a group of questions are folded into one *)
(* answer string, and read back from it when the card is shown again.      *)
(*                                                                         *)
(* A line of the string is the tags it starts with and the text after      *)
(* them: the code puts one tag before a field's first line, a line the     *)
(* user typed may bring tags of its own.  A text is the sequence of its    *)
(* pieces between ", "; a text of several lines is a sequence of lines,    *)
(* <<>> when there is none.  An option's label is such a text too.         *)
(***************************************************************************)
EXTENDS Naturals, Sequences, SequencesExt

Line(tags, text)    == [tags |-> tags, text |-> text]
Tag(q, head, field) == [q |-> q, head |-> head, field |-> field]
BlankLine == Line(<<>>, <<>>)

\* trim(): blank lines at the ends go.
Trim(lines) ==
    LET ink == {i \in 1 .. Len(lines) : lines[i] # BlankLine}
    IN  IF ink = {} THEN <<>>
        ELSE SubSeq(lines, CHOOSE i \in ink : \A j \in ink : i <= j,
                           CHOOSE i \in ink : \A j \in ink : i >= j)

\* A response: the options picked, and two free texts.
IsAddressed(r) == r.chosen # {} \/ Trim(r.custom) # <<>> \/ Trim(r.question) # <<>>

\* The labels of the picked options in the order of the options.
Picked(question, chosen) ==
    FlattenSeq([i \in 1 .. Len(question.options) |->
                  IF i \in chosen THEN question.options[i] ELSE <<>>])

\* The tag goes before the first line only.
Field(tag, lines) ==
    IF lines = <<>> THEN <<>>
    ELSE <<Line(<<tag>> \o lines[1].tags, lines[1].text)>> \o Tail(lines)

FormatGroupAnswer(questions, rs) ==
    FlattenSeq([q \in 1 .. Len(questions) |->
        LET T(field) == Tag(q, questions[q].head, field)
        IN  Field(T("answer"), IF rs[q].chosen = {} THEN <<>>
                               ELSE <<Line(<<>>, Picked(questions[q], rs[q].chosen))>>)
            \o Field(T("custom"), Trim(rs[q].custom))
            \o Field(T("question"), Trim(rs[q].question))])

\* A line starts a field when its tag names a question and has its header.
Starts(questions, line) ==
    /\ line.tags # <<>>
    /\ line.tags[1].q \in 1 .. Len(questions)
    /\ line.tags[1].head = questions[line.tags[1].q].head

\* The question a started field is for.
Target_ByHeader(questions, tag) ==
    CHOOSE q \in 1 .. Len(questions) :
        /\ questions[q].head = tag.head
        /\ \A k \in 1 .. q - 1 : questions[k].head # tag.head
Target(questions, tag) == tag.q

\* What a field was last given: its tagged line, and the lines up to the next
\* line that starts a field.
Value(questions, answer, q, field) ==
    LET starts == {i \in 1 .. Len(answer) : Starts(questions, answer[i])}
        mine == {i \in starts : /\ answer[i].tags[1].field = field
                                /\ Target(questions, answer[i].tags[1]) = q}
        at   == CHOOSE i \in mine : \A j \in mine : j <= i
        end  == CHOOSE e \in at .. Len(answer) :
                  /\ \A i \in at + 1 .. e : i \notin starts
                  /\ e = Len(answer) \/ e + 1 \in starts
    IN  IF mine = {} THEN <<>>
        ELSE <<Line(Tail(answer[at].tags), answer[at].text)>> \o SubSeq(answer, at + 1, end)

\* The labels split(", ") finds in an answer: a piece next to a line break or
\* to a tag is glued to it.
Whole(lines, i, k) == /\ k = 1 => i = 1 /\ lines[i].tags = <<>>
                      /\ k = Len(lines[i].text) => i = Len(lines)
Labels(lines) ==
    UNION {{<<lines[i].text[k]>> : k \in {n \in DOMAIN lines[i].text : Whole(lines, i, n)}}
             : i \in DOMAIN lines}

Chosen(question, lines) ==
    {i \in 1 .. Len(question.options) :
        IF question.multiSelect THEN question.options[i] \in Labels(lines)
        ELSE lines = <<Line(<<>>, question.options[i])>>}

ParseGroupAnswer(questions, answer) ==
    [q \in 1 .. Len(questions) |->
        [chosen   |-> Chosen(questions[q], Value(questions, answer, q, "answer")),
         custom   |-> Value(questions, answer, q, "custom"),
         question |-> Value(questions, answer, q, "question")]]
=============================================================================
