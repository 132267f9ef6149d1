-------------------------- MODULE MCTurnTranscript --------------------------
(* Instances of TurnTranscript for TLC. *)
EXTENDS TurnTranscript, TLC

Piece(kind, body) == [kind |-> kind, body |-> body]
PageTags == <<"<artifact>", "w", "</artifact>">>
NoteTags == <<"<doing>", "w", "</doing>">>

SomePieces ==
    {Piece("prose", b) : b \in {<<"u">>, <<Blank>>, <<Newline>>}}
    \cup {Piece("span", b) : b \in {<<"v">>, PageTags, <<"<doing>">>}}
    \cup {Piece("fence", b) : b \in {NoteTags, <<Newline>> \o PageTags, <<Tick, "v">>}}
    \cup {Piece("artifact", b) : b \in {<<"w">>, <<Blank, "w", Tick>>, NoteTags,
                                        <<Tick, Tick, Tick, "w", Tick, Tick, Tick>>}}
    \cup {Piece("doing", b) : b \in {<<"x">>, <<Blank>>, PageTags}}
    \cup {Piece("verb", b) : b \in {<<>>, <<"x", Tick>>}}

SomeCuts == {Piece("prose", b) : b \in {<<"<artifact>", "y">>, <<"<doing verb>">>, <<Tick, "y">>,
                                        <<Tick, Tick, Tick, "y">>}}
OpenFence == {Piece("prose", <<Tick, Tick, Tick, Newline>> \o PageTags)}

TwoQuestions == <<[head |-> "H", multiSelect |-> FALSE, options |-> <<<<"a">>, <<"a", "b">>>>],
                  [head |-> "H", multiSelect |-> TRUE,
                   options |-> <<<<"a">>, <<"b">>, <<"a", "b">>>>]>>

Plain     == Line(<<>>, <<"p">>)
LooksLike == Line(<<Tag(2, "H", "custom")>>, <<"p">>)
NotATag   == Line(<<Tag(2, "G", "custom")>>, <<"p">>)
SomeTexts == {<<>>, <<BlankLine>>, <<LooksLike, NotATag>>, <<Plain, LooksLike>>}
=============================================================================
