---------------------------- MODULE MCFileAnalysis ----------------------------
(* Instances of FileAnalysis for TLC: reports of up to three flows, programs *)
(* of four methods, texts of one window and of several.                      *)
EXTENDS FileAnalysis

Live(l)    == [at |-> l, sanitized |-> FALSE]
Blocked(l) == [at |-> l, sanitized |-> TRUE]

Reports == {<<Live(1)>>, <<Blocked(1)>>, <<Live(1), Live(2)>>, <<Live(2), Live(1), Live(1)>>,
            <<Blocked(1), Live(1), Live(2)>>}

\* Calls of each method: none that matches, one to a single match, to two.
SomeCalls == {{}, {{3}}, {{1}, {4}}, {{2, 3}}}

SomeConstructors == {{}, {2, 3, 4}}

SomeRoots == {<<>>, <<1>>, <<2, 1>>}
=============================================================================
