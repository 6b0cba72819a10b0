--------------------------- MODULE MCPreprocessor --------------------------
EXTENDS Preprocessor

T == [k |-> "text"]
Dir(k) == [k |-> k]
On(k, mac) == [k |-> k, m |-> mac]
Def(mac, body) == [k |-> "define", m |-> mac, body |-> body]

\* A macro whose body is a conditional on the other one, and one that
\* undefines the other.
Guarded == <<On("ifdef", "B"), T, Dir("else"), On("use", "B"), Dir("endif")>>
Undefines == <<T, On("undef", "A"), T>>

\* Conditionals: nested, with stray directives, and with definitions in them.
CondLines == {T, Def("A", <<T>>), Def("B", Undefines), On("use", "B"),
              On("ifdef", "A"), On("ifndef", "B"), On("elsif", "A"), On("elsif", "B"), Dir("else"), Dir("endif")}

\* Places: everything that moves the cursor or the output.
MapLines == {T, Def("A", <<T, T>>), Def("B", Guarded), On("use", "A"), On("use", "B"), On("ifdef", "A"), Dir("endif"), Dir("undefineall"),
             [k |-> "include", file |-> "f"], [k |-> "include", file |-> "missing"],
             [k |-> "line", file |-> "g", n |-> 7], Dir("protect"),
             [k |-> "timescale", ts |-> "1ns"], Dir("resetall"), [k |-> "module", name |-> "top"]}
\* The lines of the bodies are lines too.
MCLines == CondLines \cup MapLines \cup ToSet(Guarded) \cup ToSet(Undefines)
MCInputs == {[lines |-> CondLines, reads |-> 5, files |-> 1, joined |-> 0, steps |-> {1}],
             [lines |-> MapLines, reads |-> 4, files |-> 2, joined |-> 1, steps |-> {0, 1}]}
=============================================================================
