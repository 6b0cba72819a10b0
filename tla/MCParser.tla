------------------------------- MODULE MCParser -------------------------------
(***************************************************************************)
(* The texts the parser is given: legal ones for every construct; the same *)
(* texts with one token missing, or cut off after any of their tokens; and *)
(* sequences of operators and operands, every short one over a small       *)
(* alphabet included, each with the trees the grammar gives it (Trees).    *)
(***************************************************************************)
EXTENDS Parser

-----------------------------------------------------------------------------
(* Legal SystemVerilog texts, as the token kinds the lexer gives: one or more  *)
(* for every construct of Annex A of IEEE 1800 that the parser reads.          *)

I == "Identifier"
N == "IntegerLiteral"
LP == "LParen"
RP == "RParen"
LB == "LBracket"
RB == "RBracket"
LC == "LBrace"
RC == "RBrace"
TC == "ApostropheLBrace"
SC == "Semicolon"
CM == "Comma"
CO == "Colon"
EQ == "Assign"
HA == "Hash"
DC == "DoubleColon"
DT == "Dot"
AT == "At"


--------------------------------------------------------------------------------
Statements ==
    {<<I, EQ, N, SC>>,
     <<I, LB, N, RB, "Leq", HA, N, I, SC>>,
     <<I, EQ, HA, LP, N, CO, N, CO, N, RP, I, SC>>,
     <<I, EQ, "KwRepeat", LP, N, RP, AT, LP, "KwPosedge", I, RP, I, SC>>,
     <<"KwBegin", CO, I, "KwInt", I, EQ, N, SC, I, "PlusAssign", N, SC, "KwEnd", CO, I>>,
     <<I, CO, "KwBegin", "KwStatic", "KwLogic", I, SC, I, "Increment", SC, "KwEnd", CO, I>>,
     <<"KwFork", I, SC, "KwDisable", "KwFork", SC, "KwWait", "KwFork", SC, "KwJoin_none">>,
     <<"KwIf", LP, I, RP, I, EQ, N, SC, "KwElse", "KwIf", LP, I, RP, SC>>,
     <<"KwIf", LP, I, "KwMatches", "KwTagged", I, TC, DT, I, CM, DT, "Star", RC, RP, SC>>,
     <<"KwUnique", "KwCase", LP, I, RP, "KwInside", LB, N, CO, N, RB, CM, N, CO, SC,
       "KwDefault", CO, SC, "KwEndcase">>,
     <<"KwCase", LP, I, RP, "KwMatches", "KwTagged", I, DT, I, "LogAnd", "BitAnd", I, CO, SC,
       "KwDefault", SC, "KwEndcase">>,
     <<"KwFor", LP, "KwInt", I, EQ, N, CM, I, EQ, N, SC, I, "Lt", N, SC, I, "Increment", CM,
       I, "PlusAssign", N, RP, I, SC>>,
     <<"KwFor", LP, I, EQ, N, SC, I, SC, RP, "KwBreak", SC>>,
     <<"KwForeach", LP, I, DT, I, LB, I, CM, CM, I, RB, RP, "KwContinue", SC>>,
     <<"KwWhile", LP, I, RP, "KwReturn", SC>>,
     <<"KwDo", I, SC, "KwWhile", LP, I, RP, SC>>,
     <<"KwRepeat", LP, N, RP, AT, LP, "KwPosedge", I, "KwOr", I, "KwIff", I, RP, SC>>,
     <<"KwForever", HA, N, I, EQ, "BitNot", I, SC>>,
     <<HA, LP, N, CO, N, CO, N, RP, "Arrow", I, SC>>,
     <<AT, LP, LP, "KwPosedge", I, CM, I, RP, "KwOr", LP, I, "Plus", I, RP, RP, SC>>,
     <<AT, "Star", "HashHash", N, SC>>,
     <<"KwWait_order", LP, I, CM, I, RP, SC, "KwElse", SC>>,
     <<"KwWait", LP, I, RP, "KwDisable", I, DT, I, SC>>,
     <<"KwForce", I, EQ, N, SC>>,
     <<"KwDeassign", LC, I, CM, I, RC, SC>>,
     <<"KwConst", "KwVar", "KwAutomatic", "KwLogic", LB, N, CO, N, RB, I, EQ, N, SC>>,
     <<"KwBegin", I, I, LB, N, RB, SC, I, DC, I, I, SC, I, LB, N, CO, N, RB, I, SC,
       I, DC, I, EQ, N, SC, "KwEnd">>,
     <<"KwBegin", I, HA, LP, "KwInt", CM, N, RP, I, EQ, "KwNew", LP, N, RP, SC,
       I, HA, LP, N, RP, DC, I, LP, RP, SC, "KwEnd">>,
     <<"KwAssert", "KwFinal", LP, I, RP, SC>>,
     <<"KwAssert", HA, N, LP, I, RP, I, SC, "KwElse", I, SC>>,
     <<"KwVoid", "Tick", LP, I, DT, "randomize", LP, RP, "KwWith", LC, I, "Lt", N, SC, RC, RP, SC>>,
     <<I, DT, "randomize", LP, I, RP, "KwWith", LP, I, RP, LC, I, SC, RC, SC>>,
     <<"KwRandcase", N, CO, SC, I, CO, I, SC, "KwEndcase">>,
     <<"KwRandsequence", LP, I, RP, "KwVoid", I, LP, "KwInt", I, RP, CO, I, LP, N, RP,
       "ColonAssign", N, "BitOr", "KwIf", LP, I, RP, I, "KwElse", I, SC,
       I, CO, "KwRand", "KwJoin", I, I, "BitOr", LC, I, SC, RC, SC,
       I, CO, "KwCase", LP, I, RP, N, CO, I, SC, "KwDefault", CO, I, SC, "KwEndcase", SC,
       I, CO, "KwRepeat", LP, N, RP, I, SC, "KwEndsequence">>,
     <<"KwBegin", "KwLet", I, LP, "KwLogic", I, CM, I, EQ, N, RP, EQ, I, "Plus", I, SC, "KwEnd">>,
     <<"KwTypedef", "KwEnum", "KwBit", LB, N, CO, N, RB, LC, I, EQ, N, CM, I, LB, N, CO, N, RB,
       RC, I, SC>>,
     <<"KwTypedef", "KwStruct", "KwPacked", "KwSigned", LC, "KwLogic", I, CM, I, SC, I, I, SC, RC,
       I, SC>>,
     <<"KwTypedef", "KwUnion", "KwTagged", LC, "KwVoid", I, SC, "KwInt", I, SC, RC, I, SC>>,
     <<"KwVirtual", "KwInterface", I, HA, LP, N, RP, DT, I, I, SC>>,
     <<"KwInt", I, LB, "KwString", RB, LB, "Dollar", CO, N, RB, LB, RB, LB, "Star", RB, CM,
       I, LB, I, DC, I, "Plus", N, RB, SC>>,
     <<"KwEvent", I, SC>>,
     <<"SystemIdentifier", LP, "StringLiteral", CM, CM, I, RP, SC>>,
     <<LC, I, CM, I, LB, I, "PlusColon", N, RB, RC, EQ, LC, N, LC, I, RC, RC, SC>>,
     <<I, EQ, TC, I, CO, N, CM, "KwDefault", CO, N, RC, SC>>,
     <<I, EQ, I, TC, N, LC, I, RC, RC, SC>>,
     <<I, EQ, LC, "ShiftLeft", N, LC, I, "KwWith", LB, N, CO, N, RB, RC, RC, SC>>,
     <<I, EQ, "KwInt", "Tick", LP, I, RP, "Plus", N, "Tick", LP, I, RP, "Plus",
       I, DC, I, "Tick", LP, I, RP, SC>>,
     <<I, EQ, I, DT, "KwAnd", LP, I, RP, "KwWith", LP, I, "Gt", N, RP, SC>>,
     <<I, EQ, I, "KwInside", LC, N, CM, LB, N, CO, "Dollar", RB, RC, SC>>,
     <<I, EQ, "KwNew", LB, N, RB, LP, I, RP, SC>>,
     <<I, EQ, "KwNew", I, SC>>,
     <<I, EQ, "$root", DT, I, LB, N, RB, DT, I, SC>>,
     <<I, EQ, "$past", LP, I, CM, N, CM, CM, AT, LP, "KwPosedge", I, RP, RP, SC>>,
     <<I, EQ, "KwThis", DT, "KwSuper", DT, I, LP, DT, I, LP, N, RP, CM, DT, I, LP, RP, RP, SC>>}

Constraints ==
    {<<"KwSolve", I, CM, I, LB, N, RB, "KwBefore", I, DT, I, LP, RP, SC>>,
     <<I, "KwInside", LC, LB, N, CO, N, RB, CM, N, RC, SC>>,
     <<I, "KwDist", LC, N, "ColonAssign", N, CM, LB, N, CO, N, RB, "ColonSlash", N, RC, SC>>,
     <<LP, I, "KwDist", LC, N, RC, RP, SC>>,
     <<I, "Arrow", LC, I, "Eq", N, SC, RC>>,
     <<I, "Arrow", LC, I, CM, I, RC, "Eq", N, SC>>,
     <<"KwIf", LP, I, RP, I, "Arrow", I, SC, "KwElse", LC, "KwSoft", I, "Eq", N, SC, RC>>,
     <<"KwForeach", LP, I, LB, I, CM, I, RB, RP, I, LB, I, RB, "Lt", N, SC>>,
     <<"KwUnique", LC, I, CM, I, RC, SC, "KwDisable", "KwSoft", I, SC>>}

Ports == <<LP, "KwInput", "KwInt", I, CM, "KwRef", "KwLogic", LB, N, CO, N, RB, I, CM, I, I, EQ, N, RP>>
ClassItems ==
    {<<"KwRand", "KwBit", LB, N, CO, N, RB, I, CM, I, SC, "KwLocal", "KwStatic", I, I, EQ, N, SC>>,
     <<"KwVirtual", "KwFunction", "KwVoid", I>> \o Ports
       \o <<SC, I, EQ, N, SC, "KwEndfunction", CO, I>>,
     <<"KwExtern", "KwFunction", "KwNew", LP, "KwInt", I, EQ, N, RP, SC,
       "KwPure", "KwVirtual", "KwTask", I, LP, RP, SC>>,
     <<"KwFunction", "KwNew", LP, I, I, RP, SC, "KwSuper", DT, "KwNew", LP, I, RP, SC,
       "KwEndfunction", CO, "KwNew">>,
     <<"KwTask", "KwAutomatic", I, SC, "KwInput", I, CM, I, SC, "KwOutput", "KwLogic", I, SC,
       "KwReturn", SC, "KwEndtask">>,
     <<"KwTypedef", I, HA, LP, I, RP, I, SC, "KwParameter", "KwInt", I, EQ, N, SC>>,
     <<"KwExtern", "KwConstraint", I, SC>>,
     <<"KwClass", I, SC, "KwEndclass">>}
CovergroupItems ==
    {<<"option", DT, I, EQ, N, SC>>,
     <<I, CO, "KwCoverpoint", I, "KwIff", LP, I, RP, LC, "KwWildcard", "KwBins", I, LB, N, RB, EQ,
       LC, N, CM, LB, N, CO, N, RB, RC, "KwWith", LP, I, RP, SC,
       "KwIllegal_bins", I, EQ, "KwDefault", SC, "option", DT, I, EQ, N, SC, RC>>,
     <<"KwCoverpoint", I, LC, "KwBins", I, LB, RB, EQ, LP, N, CM, N, "FatArrow", N, LB, "Star", N, RB,
       RP, CM, LP, N, "FatArrow", N, RP, SC, RC>>,
     <<I, CO, "KwCross", I, CM, I, LC, "KwIgnore_bins", I, EQ, "LogNot", "KwBinsof", LP, I, DT, I, RP,
       "KwIntersect", LC, N, CM, LB, N, CO, N, RB, RC, "LogOr", LP, "KwBinsof", LP, I, RP, "LogAnd",
       I, "KwWith", LP, I, RP, RP, SC, RC>>,
     <<"KwCross", I, CM, I, SC>>}

Class(items) == <<"KwClass", I, SC>> \o items \o <<"KwEndclass">>
Abstract(items) == <<"KwVirtual", "KwClass", I, SC>> \o items \o <<"KwEndclass">>
Constraint(c) == <<"KwConstraint", I, LC>> \o c \o <<RC>>
Covergroup(c) == <<"KwCovergroup", I, SC>> \o c \o <<"KwEndgroup">>

--------------------------------------------------------------------------------
\* Properties and sequences, as the body of an assertion.
Properties ==
    {<<I, "OrMinusArrow", "HashHash", N, I>>,
     <<I, "HashHash", LB, N, CO, "Dollar", RB, I, "KwThroughout", I>>,
     <<I, "HashHash", I, LP, I, RP, "OrFatArrow", I, LB, "Star", N, CO, N, RB>>,
     <<LP, I, CM, I, LP, RP, RP, "HashHash", N, "KwFirst_match", LP, I, RP>>,
     <<"KwNot", I, "KwUntil_with", I, "KwAnd", "KwS_eventually", I>>,
     <<"KwIf", LP, I, RP, I, "KwElse", I, "KwOr", I>>,
     <<"KwStrong", LP, I, "HashHash", N, I, RP>>,
     <<AT, LP, "KwPosedge", I, RP, "KwDisable", "KwIff", LP, I, RP,
       I, "HashMinusHash", "KwAlways", I, "KwIntersect", I>>}

Items ==
    {<<"KwInput", "KwLogic", I, CM, I, SC, "KwOutput", "KwReg", LB, N, CO, N, RB, I, EQ, N, SC,
       "KwInout", I, LB, N, CO, N, RB, I, SC>>,
     <<"KwWire", LP, "KwStrong0", CM, "KwPull1", RP, LB, N, CO, N, RB, HA, LP, N, CM, N, RP, I, EQ, I, SC>>,
     <<"KwTrireg", LP, "KwSmall", RP, HA, N, I, CM, I, SC, "KwWire", I, I, SC>>,
     <<"KwDefparam", I, DT, I, EQ, N, CM, I, DT, I, EQ, N, SC>>,
     <<"KwParameter", "KwType", I, EQ, "KwInt", CM, I, EQ, I, SC, "KwLocalparam", LB, N, CO, N, RB, I, EQ, N, SC>>,
     <<"KwAssign", LP, "KwStrong0", CM, "KwStrong1", RP, HA, LP, N, CM, N, CM, N, RP, I, EQ, I, CM, I, EQ, I, SC>>,
     <<"KwAlias", I, EQ, I, EQ, I, SC, "KwNettype", I, I, "KwWith", I, SC>>,
     <<"KwAlways_ff", AT, LP, "KwPosedge", I, CM, "KwNegedge", I, RP, I, "Leq", I, SC>>,
     <<"KwGenvar", I, SC, "KwGenerate", "KwFor", LP, I, EQ, N, SC, I, "Lt", N, SC, I, "Increment", RP,
       "KwBegin", CO, I, "KwWire", I, SC, "KwEnd", CO, I, "KwEndgenerate">>,
     <<"KwIf", LP, I, RP, "KwBegin", I, I, LP, RP, SC, "KwEnd", "KwElse", "KwIf", LP, I, RP, "KwWire", I, SC,
       "KwElse", SC>>,
     <<"KwCase", LP, I, RP, N, CM, N, CO, "KwWire", I, SC, "KwDefault", CO, SC, "KwEndcase">>,
     <<"KwFor", LP, "KwGenvar", I, EQ, N, SC, I, "Lt", N, SC, I, "PlusAssign", N, RP, I, I, LP, I, RP, SC>>,
     <<"KwAnd", LP, "KwStrong0", CM, "KwStrong1", RP, HA, LP, N, CM, N, RP, I, LP, I, CM, I, RP, CM, LP, I, CM, I, RP, SC>>,
     <<"KwPullup", I, LB, N, CO, N, RB, LP, I, RP, SC>>,
     <<I, HA, LP, DT, I, LP, N, RP, CM, DT, I, LP, "KwInt", RP, RP, I, LB, N, CO, N, RB, LP, DT, I, LP, I, RP, CM, DT, "Star", RP,
       CM, I, LP, DT, I, RP, SC>>,
     <<I, HA, LP, N, CM, I, RP, I, LP, I, CM, CM, N, RP, SC, I, HA, N, I, LP, RP, SC>>,
     <<I, I, EQ, N, CM, I, SC, I, LB, N, CO, N, RB, I, SC, I, DC, I, I, SC>>,
     <<I, HA, LP, N, RP, DC, I, I, SC, I, DT, I, I, SC>>,
     <<"KwSpecify", LP, I, "FatArrow", I, RP, EQ, LP, N, CM, N, RP, SC,
       "KwIf", LP, I, RP, LP, "KwPosedge", I, "Star", "Gt", LP, I, "Plus", CO, I, RP, RP, EQ, N, SC,
       "KwSpecparam", I, EQ, N, SC, "$setuphold", LP, I, CM, I, CM, N, RP, SC, "KwEndspecify">>,
     <<"KwSpecparam", LB, N, CO, N, RB, I, EQ, N, CM, I, EQ, N, SC>>,
     <<"KwModport", I, LP, "KwInput", I, CM, I, CM, "KwOutput", DT, I, LP, I, RP, RP, CM, I, LP, "KwImport", I, RP, SC>>,
     <<"KwDefault", "KwClocking", I, AT, LP, "KwPosedge", I, RP, SC, "KwDefault", "KwInput", HA, N, "KwOutput", HA, N, SC,
       "KwInput", "KwNegedge", I, CM, I, EQ, I, SC, "KwOutput", I, SC, "KwEndclocking", CO, I>>,
     <<"KwDefault", "KwClocking", I, SC, "KwDefault", "KwDisable", "KwIff", I, SC, "KwGlobal", "KwClocking", I, AT, LP, I, RP, SC, "KwEndclocking">>,
     <<"KwProperty", I, LP, I, CM, "KwLocal", "KwInput", "KwInt", I, RP, SC, "KwInt", I, SC, I, "OrMinusArrow", I, SC, "KwEndproperty", CO, I>>,
     <<"KwSequence", I, SC, AT, LP, "KwPosedge", I, RP, I, "HashHash", N, I, SC, "KwEndsequence">>,
     <<"KwRestrict", "KwProperty", LP, I, LP, I, RP, RP, SC, "KwCover", "KwSequence", LP, I, "HashHash", N, I, RP, SC>>,
     <<"KwFunction", "KwAutomatic", "KwInt", I, LP, "KwInput", I, I, CM, I, LB, "Dollar", RB, RP, SC, "KwReturn", I, SC, "KwEndfunction">>,
     <<"KwFunction", LB, N, CO, N, RB, I, SC, "KwInput", LB, N, CO, N, RB, I, SC, I, EQ, I, SC, "KwEndfunction", CO, I>>,
     <<"KwFunction", I, DC, I, I, DC, I, LP, RP, SC, "KwEndfunction", "KwTask", I, DC, I, LP, RP, SC, "KwEndtask">>,
     <<"KwImport", "StringLiteral", "KwPure", I, EQ, "KwFunction", "KwInt", I, LP, "KwInput", "KwInt", CM, "KwInt", I, RP, SC,
       "KwExport", "StringLiteral", "KwFunction", I, SC>>,
     <<"KwImport", I, DC, "Star", CM, I, DC, I, SC>>,
     <<"KwBind", I, CO, I, DT, I, CM, I, I, HA, LP, N, RP, I, LP, DT, "Star", RP, SC>>,
     <<"KwChecker", I, LP, I, RP, SC, "KwAssert", "KwProperty", LP, I, RP, SC, "KwEndchecker">>,
     <<"KwLet", I, LP, "KwUntyped", I, CM, I, LB, N, CO, N, RB, I, RP, EQ, I, SC>>,
     <<"KwConstraint", I, DC, I, LC, I, SC, RC>>,
     <<"KwTimeunit", "TimeLiteral", "Slash", "TimeLiteral", SC, "SystemIdentifier", LP, I, RP, SC, SC>>,
     <<"KwVar", I, EQ, N, SC, "KwVar", "KwLogic", I, SC, "KwVirtual", I, I, SC, "KwEvent", I, SC>>}

Module(items) == <<"KwModule", I, SC>> \o items \o <<"KwEndmodule">>
Initial(stmt) == Module(<<"KwInitial">> \o stmt)
Assertion(p) == Module(<<"KwAssert", "KwProperty", LP>> \o p \o <<RP, SC>>)

Descriptions ==
    {<<"KwModule", I, "KwImport", I, DC, "Star", SC, HA, LP, "KwParameter", I, EQ, N, CM, "KwInt", I, EQ, N, RP, LP,
       "KwInput", "KwWire", "KwLogic", I, CM, I, CM, "KwOutput", "KwVar", "KwInt", I, EQ, N, CM, I, DT, I, I, RP, SC,
       "KwEndmodule", CO, I>>,
     <<"KwModule", I, LP, I, CM, DT, I, LP, LC, I, CM, I, RC, RP, CM, I, LB, N, RB, CM, RP, SC, "KwEndmodule">>,
     <<"KwInterface", I, LP, "KwInput", I, RP, SC, "KwEndinterface", "KwProgram", I, SC, "KwEndprogram">>,
     <<"KwPackage", I, SC, "KwExport", "Star", DC, "Star", SC, "KwClass", I, SC, "KwEndclass",
       "KwConstraint", I, DC, I, LC, I, SC, RC, "KwInt", I, SC, "KwEndpackage", CO, I>>,
     <<"KwPrimitive", I, LP, I, CM, I, RP, SC, "KwOutput", I, SC, "KwInput", I, SC, "KwTable", N, CO, N, SC,
       "KwEndtable", "KwEndprimitive">>,
     <<"KwConfig", I, SC, "KwEndconfig", CO, I, "KwExtern", "KwModule", I, LP, I, RP, SC, "Directive",
       "KwTimeprecision", "TimeLiteral", SC, "KwImport", I, DC, "Star", SC>>,
     <<"KwFunction", "KwInt", I, LP, RP, SC, "KwEndfunction", "KwInt", I, SC, I, I, SC, "KwWire", I, SC,
       "KwTypedef", "KwClass", I, SC, "KwBind", I, I, I, LP, RP, SC>>,
     <<"KwInterface", "KwClass", I, "KwExtends", I, CM, I, SC, "KwPure", "KwVirtual", "KwFunction", "KwVoid", I, LP, RP, SC,
       "KwEndclass">>,
     <<"KwClass", I, HA, LP, "KwType", I, EQ, "KwInt", CM, "KwInt", I, EQ, N, RP, "KwExtends", I, HA, LP, I, RP,
       "KwImplements", I, CM, I, SC, "KwCovergroup", I, LP, "KwInt", I, RP, AT, LP, "KwPosedge", I, RP, SC,
       "KwEndgroup", "KwEndclass", CO, I>>}

\* IEEE 1800-2023.
New2023 ==
    {<<"KwClass", CO, "KwFinal", I, "KwExtends", I, LP, "KwDefault", RP, SC, "KwFunction", CO, "KwExtends", "KwVoid", I, LP, RP, SC,
       "KwEndfunction", "KwFunction", "KwNew", LP, "KwDefault", RP, SC, "KwSuper", DT, "KwNew", LP, "KwDefault", RP, SC,
       "KwEndfunction", "KwEndclass">>,
     Module(<<"KwAssign", I, EQ, I, "KwInside", LC, LB, N, "Plus", "Slash", "Minus", N, RB, CM, LB, I, "Minus", N, CO, N, RB, RC, SC>>),
     Module(<<"KwFunction", "KwVoid", I, LP, "KwRef", "KwStatic", "KwInt", I, RP, SC, "KwEndfunction",
              "KwTypedef", "KwUnion", "KwSoft", LC, "KwInt", I, SC, RC, I, SC>>)}

Legal2017 ==
    {Initial(s) : s \in Statements}
      \cup {Class(i) : i \in ClassItems}
      \cup {Class(Constraint(c)) : c \in Constraints}
      \cup {Module(Covergroup(c)) : c \in CovergroupItems}
      \cup {Assertion(p) : p \in Properties}
      \cup {Module(i) : i \in Items}
      \cup {Abstract(<<"KwPure", "KwConstraint", I, SC>>)}
      \cup Descriptions

-----------------------------------------------------------------------------
(* The reference for expressions: the trees that the operator precedences  *)
(* and associativities of IEEE 1800 (Table 11-2) give a sequence of tokens *)
(* of names, prefix and infix operators, ?: and selects.  It is declarative *)
(* and knows nothing of binding powers: an operator splits a text wherever *)
(* both sides have trees of a high enough level.  `->` is left out of the  *)
(* texts that hold `?`; the operand of a prefix operator may be another    *)
(* prefix operator, where the standard wants a primary.                    *)

Infix ==
    [Arrow |-> 0, LogOr |-> 2, LogAnd |-> 3, BitOr |-> 4, BitXor |-> 5, BitXnor |-> 5,
     BitAnd |-> 6, Eq |-> 7, Neq |-> 7, CaseEq |-> 7, CaseNeq |-> 7, WildcardEq |-> 7,
     WildcardNeq |-> 7, Lt |-> 8, Gt |-> 8, Leq |-> 8, Geq |-> 8, ShiftLeft |-> 9,
     ShiftRight |-> 9, ArithShiftLeft |-> 9, ArithShiftRight |-> 9, Plus |-> 10,
     Minus |-> 10, Star |-> 11, Slash |-> 11, Percent |-> 11, DoubleStar |-> 12]
Prefix == {"Plus", "Minus", "LogNot", "BitNot", "BitAnd", "BitOr", "BitXor"}
RightAssociative == {"Arrow"}
ConditionalLevel == 1
PrefixLevel == 13
PrimaryLevel == 14

\* The trees of t[p .. q] whose outermost operator is of level v or above.
Trees(t) ==
    LET Spans == (1 .. Len(t) + 1) \X (0 .. Len(t)) \X (0 .. PrimaryLevel)
        f[x \in Spans] ==
          LET p == x[1]
              q == x[2]
              v == x[3]
              Names == {<<"Ident", i>> : i \in {i \in {p} : p = q /\ t[i] = "Identifier"}}
              Selects ==
                UNION {{<<"Index", b, i>> : b \in f[<<p, o - 1, PrimaryLevel>>], i \in f[<<o + 1, q - 1, 0>>]} :
                         o \in {o \in p + 1 .. q - 1 : t[o] = "LBracket" /\ t[q] = "RBracket"}}
              Ranges ==
                UNION {{<<"RangeSelect", b, l, r>> : b \in f[<<p, oc[1] - 1, PrimaryLevel>>],
                          l \in f[<<oc[1] + 1, oc[2] - 1, 0>>], r \in f[<<oc[2] + 1, q - 1, 0>>]} :
                         oc \in {oc \in (p + 1 .. q) \X (p + 2 .. q) :
                                   /\ oc[1] < oc[2] /\ oc[2] < q
                                   /\ t[oc[1]] = "LBracket" /\ t[oc[2]] = "Colon" /\ t[q] = "RBracket"}}
              Unaries ==
                UNION {{<<"Unary", <<"Op", i>>, e>> : e \in f[<<i + 1, q, PrefixLevel>>]} :
                         i \in {i \in {p} : p < q /\ t[i] \in Prefix /\ v <= PrefixLevel}}
              Binaries ==
                UNION {LET w == Infix[t[i]]
                           right == IF t[i] \in RightAssociative THEN 1 ELSE 0
                       IN  {<<"Binary", <<"Op", i>>, l, r>> :
                              l \in f[<<p, i - 1, w + right>>], r \in f[<<i + 1, q, w + 1 - right>>]} :
                         i \in {i \in p + 1 .. q - 1 : t[i] \in DOMAIN Infix /\ Infix[t[i]] >= v}}
              Conditionals ==
                UNION {{<<"Conditional", c, a, b>> :
                          c \in f[<<p, ij[1] - 1, ConditionalLevel + 1>>],
                          a \in f[<<ij[1] + 1, ij[2] - 1, 0>>], b \in f[<<ij[2] + 1, q, ConditionalLevel>>]} :
                         ij \in {ij \in (p + 1 .. q - 1) \X (p + 2 .. q - 1) :
                                   /\ ij[1] < ij[2] /\ v <= ConditionalLevel
                                   /\ t[ij[1]] = "Question" /\ t[ij[2]] = "Colon"}}
          IN  IF p > q THEN {} ELSE Names \cup Selects \cup Ranges \cup Unaries \cup Binaries \cup Conditionals
    IN  f[<<1, Len(t), 0>>]

-----------------------------------------------------------------------------
(* The sources *)

\* judged: whether the text is legal is known; meaning: the results of a
\* parse of it, none if it is not legal.
Source(t, entry, v, judged, meaning) ==
    [tokens |-> Append(t, "Eof"), entry |-> entry, sva |-> FALSE,
     sv2023 |-> v, strict |-> TRUE, judged |-> judged, meaning |-> meaning]
Sound(t, v) == Source(t, "parse_source_text", v, TRUE, {<<>>})
Damaged(t, v) ==
    {Source(SubSeq(t, 1, n - 1) \o rest, "parse_source_text", v, FALSE, {}) :
        <<n, rest>> \in UNION {{<<n, <<>>>>, <<n, SubSeq(t, n + 1, Len(t))>>} : n \in 1 .. Len(t)}}
Expression(t) ==
    Source(t, "parse_expression", FALSE, TRUE, {<<tree>> : tree \in Trees(t)})

Operators ==
    {"Arrow", "LogOr", "LogAnd", "BitOr", "BitXor", "BitAnd", "Eq", "Lt", "ShiftLeft", "Minus",
     "Star", "DoubleStar"}
Chains ==
    {<<I, a, I, b, I>> : a, b \in Operators}
      \cup {<<I, a, I, b, I, c, I>> : a, b, c \in {"Arrow", "LogOr", "Minus", "DoubleStar"}}
      \cup {<<"BitAnd", I, a, "Minus", I, "Question", I, b, I, CO, I>> : a, b \in Operators \ {"Arrow"}}
MaxLength == 4
Strings == UNION {[1 .. n -> {I, "Minus", "Question", CO, LB, RB}] : n \in 1 .. MaxLength}

Texts ==
    {Sound(t, FALSE) : t \in Legal2017} \cup {Sound(t, TRUE) : t \in New2023}
      \cup UNION {Damaged(t, FALSE) : t \in Legal2017} \cup UNION {Damaged(t, TRUE) : t \in New2023}
MCSources == Texts \cup {Expression(t) : t \in Chains \cup Strings}

--------------------------------------------------------------------------------
Accepted == errors = 0 /\ Kind = "Eof"

\* A legal text is read to its end without a report, and an expression as
\* the tree the grammar gives it; a string that is no expression is reported
\* or not read to its end (parse_expr_bp_ctx and all that calls it).
ReadsTheGrammar ==
    Done /\ source.judged =>
        IF source.meaning = {} THEN ~Accepted ELSE Accepted /\ out \in source.meaning

\* Whatever a routine reads, legal or not, and however it returns, it leaves
\* the context of its caller as it was: in_sva_seq, in_constraint and
\* prototype_ports, the generate depth and the let scopes.
Scoped == {"in_sva_seq", "in_constraint", "prototype_ports", "generate_depth", "let_scopes"}
ContextRestored ==
    stack # <<>> /\ fr.pc = 0 => \A f \in Scoped : ctx[f] = fr.entered[f]

\* An attempt that is given up (the cursor set back, the reports taken back)
\* has changed nothing of the parser.  Only the names bound by a pattern
\* remain; who reads them clears them first.
GivenUp == fr.pc # 0 /\ Code[fr.r][fr.pc][1] = "do" /\ Code[fr.r][fr.pc][2] \in {Rewind, Retract}
SpeculationUndone ==
    stack # <<>> /\ GivenUp =>
        \A f \in DOMAIN ctx \ {"bindings"} : ctx[f] = fr.mark.ctx[f]

\* No text keeps the parser in a loop: every loop that passes over text it
\* cannot read consumes some of it.
ParseEnds == <>Done

===============================================================================
