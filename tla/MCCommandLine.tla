--------------------------- MODULE MCCommandLine ---------------------------
(* Instances of CommandLine for TLC. *)
EXTENDS CommandLine

\* Assignments: of values that fill the line, of other variables, of dollars
\* that name nothing, with several "=", and the strange ones.
MCAssignments ==
    {<<w>> : w \in {
        <<"a", "=", "b", "c", "b">>, <<"a", "=", "c", "b">>, <<"a", "=">>, <<"a", "=", "&">>,
        <<"b", "=", "c">>, <<"b", "=", "$", "a">>, <<"a", "=", "$", "b">>, <<"b", "=", "a", "=", "c">>,
        <<"a", "=", "$", "a", "$", "b">>, <<"a", "=", "$", "b", "$", "a">>,
        <<"a", "b", "=", "$", "a">>, <<"b", "=", "a", "$">>, <<"b", "=", "$", "$", "a">>,
        <<"b", "=", "$", "$">>, <<"=", "a", "$">>, <<"=", "=">>, <<"$", "a", "=", "b">>}}
    \cup {<< <<"a", "=", "b">>, <<"&">> >>, << <<"a", "=", "c">>, <<"$", "a">> >>,
          << <<"a", "=", "b">>, <<"|">>, <<"c">> >>, << <<"a", "=", "$", "c", "|", "b">> >>,
          << <<"$", "a", "|", "b">>, <<"c">> >>}

\* Every word of up to three dollars and names, and longer ones that overflow.
MCExpansions ==
    {<<w>> : w \in (BoundedSeq({"$", "a", "b"}, 4) \ {<<>>})}
    \cup {<<w>> : w \in {<<"b", "$", "a", "$", "a", "$", "a">>, <<"$", "a", "$", "a", "$", "$", "$">>,
                         <<"b", "$", "a", "$", "a", "$">>, <<"$", "a", "$", "b", "$", "a", "b">>}}
    \cup {<< <<"$", "a">>, <<"$", "b">> >>, << <<"exit">> >>, << <<"$", "a">>, <<"|">>, <<"$", "b">> >>}

\* Every line of up to three words and bars, joined in every way.
MCPipelines ==
    LET words == {<<"c">>, <<"d">>, <<"|">>, <<"c", "|">>, <<"|", "c">>, <<"c", "|", "d">>, <<"|", "|">>}
    IN (BoundedSeq(words, 3) \ {<<>>})
       \cup {<< <<"c">>, <<"d">>, <<"|">>, <<"&">> >>, << <<"c">>, <<"|", "d">>, <<"&">> >>, << <<"&">> >>}

MCLines == {l \in MCAssignments \cup MCExpansions \cup MCPipelines :
                Len(FlattenSeq(l)) + Len(l) - 1 <= MaxStr}

MCPipesOnly == {l \in MCPipelines : Len(FlattenSeq(l)) + Len(l) - 1 <= MaxStr}
=============================================================================
