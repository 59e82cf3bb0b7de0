------------------------------- MODULE MCOGGit ------------------------------
(* Repositories for the model checker. *)
EXTENDS OGGit

CONSTANTS main, dev

MCNames == <<"a", "b", "c">>
MCPaths == <<<<>>, <<"a">>, <<"a", "">>, <<"a", "b">>, <<"c">>>>
MCBranch == {main, dev}

\* The contents of a tree: a file a, a directory a, a file c.
Fs(a, ab, c) ==
    [p \in (IF a = 0 THEN {} ELSE {<<"a">>}) \cup (IF ab = 0 THEN {} ELSE {<<"a", "b">>})
            \cup (IF c = 0 THEN {} ELSE {<<"c">>})
        |-> IF p = <<"a">> THEN a ELSE IF p = <<"c">> THEN c ELSE ab]
AllTrees == {Fs(x[1], x[2], c) : x \in {<<0, 0>>, <<1, 0>>, <<2, 0>>, <<0, 1>>, <<0, 2>>}, c \in {0, 1}}
SomeTrees == {Fs(1, 0, 0), Fs(2, 0, 0), Fs(0, 1, 0)}
TwoTrees == {Fs(1, 0, 0), Fs(2, 0, 1)}

\* A history of a given shape, its commits filled with trees; the refs name
\* the last two commits.
Filled(parents, trees) ==
    {[i \in DOMAIN parents |-> [files |-> f[i], parents |-> parents[i]]]
        : f \in [DOMAIN parents -> trees]}
Start(history, n) ==
    [history |-> history, ops |-> n,
     refs |-> CASE history = <<>> -> Empty
                [] Len(history) = 1 -> [b \in {main} |-> 1]
                [] OTHER -> [b \in {main, dev} |-> IF b = main THEN Len(history) ELSE Len(history) - 1]]
Family(parents, trees, n) == {Start(h, n) : h \in Filled(parents, trees)}

Fork == <<<<>>, <<1>>, <<1>>>>
CrissCross == <<<<>>, <<1>>, <<1>>, <<2, 3>>, <<3, 2>>>>
SideMerge == <<<<>>, <<1>>, <<2>>, <<1>>, <<3, 4>>, <<2>>>>
Unrelated == <<<<>>, <<>>>>
Line == <<<<>>, <<1>>>>

MCStarts ==
    Family(Fork, AllTrees, 1)
    \cup Family(Fork, TwoTrees, 2)
    \cup Family(CrissCross, SomeTrees, 1)
    \cup Family(SideMerge, TwoTrees, 1)
    \cup Family(Unrelated, SomeTrees, 1)
    \cup Family(Line, SomeTrees, 2)
    \cup Family(<<<<>>>>, {Fs(1, 0, 0)}, 3)
    \cup {Start(<<>>, 5)}
=============================================================================
