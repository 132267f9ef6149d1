--------------------------- MODULE RenderSegments ---------------------------
(***************************************************************************)
(* split_render_segments (daemon/activity_relay.py): a text block of the   *)
(* model is cut into prose, pages to render and process notes.             *)
(*                                                                         *)
(* A text is a sequence of tokens: a backtick, a newline, a blank, an      *)
(* opening or closing tag with its attributes, or a word.  Tick is a       *)
(* token of its own because a fence that is never closed is read again as  *)
(* inline code.                                                            *)
(***************************************************************************)
EXTENDS Integers, Sequences, SequencesExt

Tick    == "tick"
Newline == "NL"
Blank   == "_"
Page    == [open |-> {"<artifact>"}, close |-> "</artifact>"]
Note    == [open |-> {"<doing>", "<doing verb>"}, close |-> "</doing>"]

\* The first index from p on where tok stands, 0 when there is none.
Find(t, p, tok) == LET found == {q \in p .. Len(t) : t[q] = tok}
                   IN  IF found = {} THEN 0 ELSE CHOOSE q \in found : \A r \in found : q <= r

Fenced(t, p) == p + 2 <= Len(t) /\ \A q \in p .. p + 2 : t[q] = Tick

\* The alternatives of _SEGMENT_SCANNER at position p: the position after
\* the match, 0 when it does not match.
FenceEnd(t, p) ==
    LET closing == {q \in p + 3 .. Len(t) : Fenced(t, q)}
    IN  IF ~Fenced(t, p) \/ closing = {} THEN 0
        ELSE 3 + CHOOSE q \in closing : \A r \in closing : q <= r

InlineEnd(t, p) ==
    LET q == Find(t, p + 1, Tick)
    IN  IF t[p] # Tick \/ q = 0 \/ \E r \in p .. q : t[r] = Newline THEN 0 ELSE q + 1

TagEnd(t, p, tag) ==
    IF t[p] \notin tag.open \/ Find(t, p, tag.close) = 0 THEN 0 ELSE Find(t, p, tag.close) + 1

\* The order of the alternatives: code before tags.
CodeEnd_FenceOnly(t, p) == FenceEnd(t, p)
CodeEnd(t, p) == IF FenceEnd(t, p) # 0 THEN FenceEnd(t, p) ELSE InlineEnd(t, p)

Strip(t) ==
    LET ink == {p \in 1 .. Len(t) : t[p] \notin {Blank, Newline}}
    IN  IF ink = {} THEN <<>>
        ELSE SubSeq(t, CHOOSE p \in ink : \A q \in ink : p <= q,
                       CHOOSE p \in ink : \A q \in ink : p >= q)

Segment(kind, body, verb) == [kind |-> kind, body |-> body, verb |-> verb]

\* Whitespace-only prose is dropped, and a note with neither words nor a verb.
Flush(buf) == IF Strip(buf) = <<>> THEN <<>> ELSE <<Segment("text", Strip(buf), "")>>
NoteOf(open, body) ==
    IF Strip(body) = <<>> /\ open = "<doing>" THEN <<>>
    ELSE <<Segment("doing", Strip(body), IF open = "<doing>" THEN "doing" ELSE "verb")>>

\* scan[p] reads the text from p on: the prose before the first segment, and
\* the segments.
Split(t) ==
    LET Inner(p, after) == SubSeq(t, p + 1, after - 2)
        scan[p \in 1 .. Len(t) + 1] ==
          IF p > Len(t) THEN [prose |-> <<>>, segments |-> <<>>]
          ELSE LET code == CodeEnd(t, p)
                   page == TagEnd(t, p, Page)
                   note == TagEnd(t, p, Note)
                   Rest(after, made) == [prose |-> <<>>, segments |->
                       made \o Flush(scan[after].prose) \o scan[after].segments]
                   Prose(after) == [scan[after] EXCEPT !.prose = SubSeq(t, p, after - 1) \o @]
               IN  IF code # 0 THEN Prose(code)
                   ELSE IF page # 0 THEN Rest(page, <<Segment("artifact", Strip(Inner(p, page)), "")>>)
                   ELSE IF note # 0 THEN Rest(note, NoteOf(t[p], Inner(p, note)))
                   ELSE Prose(p + 1)
    IN  Flush(scan[1].prose) \o scan[1].segments
=============================================================================
