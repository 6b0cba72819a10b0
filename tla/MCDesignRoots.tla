---------------------------- MODULE MCDesignRoots ---------------------------
EXTENDS DesignRoots

D(kind, name) == [kind |-> kind, name |-> name, insts |-> {}, initial |-> FALSE, param |-> FALSE, nested |-> {}]
Module(name, insts, initial) == [D("module", name) EXCEPT !.insts = insts, !.initial = initial]

NoLibrary == [n \in {} |-> D("module", n)]
Cells == [n \in {4, 5} |-> [D("module", n) EXCEPT !.insts = IF n = 4 THEN {5, 2} ELSE {}, !.param = TRUE]]
MCLibraries == {NoLibrary, Cells}

\* Modules 1 to 3, a class and a typedef of the names of modules, package 6.
MCDescs == {Module(1, {}, TRUE), Module(1, {2}, FALSE), Module(2, {4}, TRUE), Module(3, {1}, FALSE),
            [D("module", 3) EXCEPT !.nested = {1}, !.param = TRUE],
            [D("program", 2) EXCEPT !.initial = TRUE], D("interface", 1),
            D("class", 1), D("typedef", 1), D("forward", 1),
            D("udp", 3), D("checker", 2), D("package", 6), D("class", 3), D("package", 3)}
=============================================================================
