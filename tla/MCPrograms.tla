---------------------------- MODULE MCPrograms ------------------------------
(* Inputs of the small programs.  Codes: 32 blank, 35 '#', 37 '%', 43 '+', *)
(* 45 '-', 61 '=', 91 and 93 brackets; a wide character is <<-56, 65>>,    *)
(* whose second byte is an 'A'.                                            *)
EXTENDS Programs

Words(S, k) == UNION {[1 .. j -> S] : j \in 0 .. k}

MCTexts ==
    {t \in Words({<<37>>, <<43>>, <<50>>, <<97>>, <<66>>, <<45>>, <<32>>, <<-56, 65>>, <<-50, -40>>}, 4) :
        Len(Flat(t)) <= 5}

(* Bytes of three bits, words of twelve.                                   *)
MCHashKeys ==
    {front \o back : front \in {<<>>, <<7, 0, 5, 3>>, <<1, 2, 4, 0, 6, 1, 7, 3>>},
                     back \in Words(0 .. 7, 3)}

(* One line in a section; or two files with repeated sections and keys,    *)
(* comments and bad lines.                                                 *)
SectionA == <<91, 97, 93, 10>>
SectionB == <<91, 98, 93, 10>>
OneLine ==
    {word \o <<10>> : word \in Words({97, 32, 61, 35, 91, 93, -56, 9}, 4) \cup Words({97, 32, 61, 35}, 6)}
    \cup {<<91, 93>>, <<97, 61, 97>>}
SomeLines ==
    {SectionA, SectionB, <<107, 61, 49, 10>>, <<107, 32, 61, 32, 45, 50, 32, 35, 99, 10>>,
     <<98, 97, 100, 10>>, <<108, 61, 10>>}
SecondFiles == {<<SectionA, <<107, 61, 49, 10>>>>, <<SectionB, <<108, 61, 10>>, SectionA, <<107, 61, 10>>>>}
MCFileLists ==
    {<<<<SectionA, line>>>> : line \in OneLine}
    \cup {<<first, second>> : first \in Words(SomeLines, 3), second \in SecondFiles}
MCStrayBytes == {120, 32}

MCMakers == {"p", "q", "r"}
MCPathSets == [MCMakers -> {<<>>, <<"a">>, <<"a", "b">>, <<"a", "b", "c">>, <<"a", "d">>}]
MCTrees ==
    {[dirs |-> {<<>>}, plain |-> {}], [dirs |-> {<<>>}, plain |-> {<<"a">>}],
     [dirs |-> {<<>>, <<"a">>}, plain |-> {<<"a", "b">>}]}

MCDirectories == [{"x", "y", "z"} -> {"file", "dir"}]
=============================================================================
