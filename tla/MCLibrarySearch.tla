--------------------------- MODULE MCLibrarySearch --------------------------
EXTENDS LibrarySearch

MCLibFiles == <<"v1", "v2">>
MCDirFiles == <<"b.v", "b.sv", "c.v", "misc.v">>
MCStem == [f \in {"b.v", "b.sv", "c.v", "misc.v"} |->
             CASE f \in {"b.v", "b.sv"} -> "b" [] f = "c.v" -> "c" [] f = "misc.v" -> "misc"]

File(defs, typedefs, readable) == [defs |-> defs, typedefs |-> typedefs, readable |-> readable]
Nothing == [n \in {} |-> {}]
Unreadable == File(Nothing, {}, FALSE)

\* Libraries whose files define what they are named after, more, less or
\* something else; with cycles; and with a file that cannot be read.
MCTexts ==
  {[f \in {"v1", "v2", "b.v", "b.sv", "c.v", "misc.v"} |->
      CASE f = "v1" -> v1
        [] f = "v2" -> File([n \in {"a", "d"} |-> IF n = "a" THEN {"c"} ELSE {}], {}, TRUE)
        [] f = "b.v" -> b
        [] f = "b.sv" -> File([n \in {"b"} |-> {"a"}], {}, TRUE)
        [] f = "c.v" -> c
        [] f = "misc.v" -> m] :
     v1 \in {File([n \in {"a"} |-> {"b"}], {}, TRUE), Unreadable},
     b \in {File([n \in {"b"} |-> {"c"}], {}, TRUE), File([n \in {"b", "c"} |-> {"d"}], {}, TRUE), Unreadable,
            File(Nothing, {"t"}, TRUE)},
     c \in {File([n \in {"c"} |-> {"b", "d"}], {}, TRUE), File(Nothing, {}, TRUE)},
     m \in {File([n \in {"c", "d", "e"} |-> IF n = "e" THEN {"a"} ELSE {}], {"t"}, TRUE)}}

MCDesigns ==
  {[defs |-> [n \in {"top", "t"} |-> IF n = "top" THEN i ELSE {}], binds |-> more[1], forward |-> more[2]] :
     i \in {{"a", "x"}, {"b", "c"}, {"e", "top"}}, more \in {<<{}, {"t"}>>, <<{"c"}, {}>>}}
=============================================================================
