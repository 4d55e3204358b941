------------------------------- MODULE MCNames -------------------------------
(***************************************************************************)
(* Names with at most two characters before the dot and one after it, in   *)
(* the root and in directories below it, and an array of two of them.      *)
(***************************************************************************)
EXTENDS Names

mcChar == {"a", "A", "d", "D"} \cup Special

mcUpperOf == [c \in {"a", "d"} |-> IF c = "a" THEN "A" ELSE "D"]

mcPattern == {<<"*", ".", "*">>, <<"*">>, <<"?", ".", "A">>, <<"A", "*", ".", "?">>}

mcDosDir == {<<>>, <<"D">>, <<"d">>}

\* Names of every shape up to three characters one at a time, and longer ones
\* whose parts are too long or just fit.
Letters == {"a", "A", "."}
Singles == UNION {[1 .. n -> Letters] : n \in 1 .. 3}
           \cup {<<"A", "A", ".", "a">>, <<"A", ".", "A", "A">>, <<"A", ".", "A", ".">>,
                 <<"A", "A", "A", "A">>, <<"A", "A", ".", "A", "A">>,
                 <<"A", "A", "A", ".", "A">>, <<"d", ".", "A">>}

\* Pairs of those that might meet, and directories that have more names than the
\* array has places, listed or not.
Met == {<<"A">>, <<"a">>, <<"A", ".">>, <<"A", ".", "A">>, <<"A", ".", "a">>, <<"A", "A", ".", "A">>}
Full == {{<<"A", ".", "A">>, <<"A", "A", ".", "A">>, m} :
            m \in {<<"A">>, <<"a", ".", "A">>}}

\* In the root, where the directory below takes a place, or in that directory.
Below == <<"/", "D">>
Holding(r, d) == [x \in {Root, Below} |-> IF x = Root THEN r ELSE d]

\* A directory beside the file, with its name in another case or not.
Beside(n, x) == [y \in {Root, Below, Below \o <<"/">> \o x} |-> IF y = Below THEN {n} ELSE {}]

mcTrees == {Holding({n}, {}) : n \in Met} \cup {Holding({}, {n}) : n \in Singles}
           \cup {Holding({}, {m, n}) : m, n \in Met} \cup {Holding({}, t) : t \in Full}
           \cup {Holding({m}, {<<"A", ".", "A">>}) : m \in {<<"A">>, <<"a">>}}
           \cup {Beside(n, x) : n \in {<<"A">>, <<"A", ".", "A">>},
                                x \in {<<"a">>, <<"a", ".", "A">>}}
=============================================================================
