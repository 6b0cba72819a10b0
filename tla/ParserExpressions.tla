--------------------------- MODULE ParserExpressions ---------------------------
(***************************************************************************)
(* Expressions: parse/expressions.rs, a precedence climbing loop           *)
(* (parse_expr_bp_ctx) over primaries (parse_prefix).                      *)
(***************************************************************************)
EXTENDS ParserCode

AssignOps ==
    {"Assign", "PlusAssign", "MinusAssign", "StarAssign", "SlashAssign",
     "PercentAssign", "AndAssign", "OrAssign", "XorAssign",
     "ShiftLeftAssign", "ShiftRightAssign"}
\* The target of one of these is not recognized as such by
\* parse_lvalue_or_expr, and is read again as an expression.
ArithAssignOps == {"ArithShiftLeftAssign", "ArithShiftRightAssign"}

DataTypeKeyword ==
    {"KwBit", "KwLogic", "KwReg", "KwByte", "KwShortint", "KwInt",
     "KwLongint", "KwInteger", "KwTime", "KwReal", "KwShortreal",
     "KwRealtime", "KwString", "KwChandle", "KwEvent", "KwVoid", "KwStruct",
     "KwUnion", "KwEnum", "KwSigned", "KwUnsigned", "KwInterface"}
CastKeyword ==
    {"KwLogic", "KwBit", "KwByte", "KwInt", "KwShortint", "KwLongint",
     "KwInteger", "KwReg", "KwSigned", "KwUnsigned", "KwVoid", "KwString",
     "KwReal", "KwShortreal", "KwRealtime"}

--------------------------------------------------------------------------------
parse_expression == <<Expr(0)>>

parse_identifier == <<If(At(Name), <<Bump>>, <<Error>>)>>

\* Calls the parser makes up: kept as SystemCall nodes under these names.
SystemCalls ==
    {"SystemCall", "$sva_rep", "$sva_follow", "$sva_match", "$sva_first_match",
     "$sva_strong", "$__xz_size_cast", "$__xz_type_cast", "$__xz_named_cast"}

\* `.and`, `.or`, `.new` ... : keywords that name array methods.
MemberName ==
    If(At({"KwNew", "KwAnd", "KwOr", "KwXor", "KwUnique"}),
       <<Bump>>, <<Call("parse_identifier")>>)
ScopeMember == If(At({"KwNew"}), <<Bump>>, <<Call("parse_identifier")>>)

\* [i], [l:r], [i+:w], [i-:w] after the bracket.
SelectBody ==
    <<Expr(0),
      If(At({"Colon", "PlusColon", "MinusColon"}),
         <<Bump, Expr(0), Expect("RBracket"), Build("RangeSelect", 3)>>,
         <<Expect("RBracket"), Build("Index", 2)>>)>>

\* The target of a statement: a primary and its selects.  Anything not
\* followed by an assignment operator is parsed again as an expression.
parse_lvalue_or_expr ==
    <<Mark, Call("parse_prefix"),
      Loop(<<Switch(<<
          <<At({"LBracket"}), <<Bump>> \o SelectBody>>,
          <<At({"LParen"}), <<Call("parse_call_args"), Node("Call")>>>>,
          <<At({"Dot"}), <<Bump, MemberName, Member>>>>,
          <<At({"DoubleColon"}), <<Bump, ScopeMember, Member>>>> >>,
          <<Break>>)>>),
      When(Not(At(AssignOps \cup {"Leq"})),
           <<Rewind, Drop, Expr(0)>>)>>

parse_pattern ==
    <<Switch(<<
        <<At({"KwTagged"}),
          <<Bump, Call("parse_identifier"),
            When(At({"ApostropheLBrace", "KwTagged", "Dot"}),
                 <<Call("parse_pattern")>>)>>>>,
        <<At({"Dot"}),
          <<Bump, If(At({"Star"}), <<Bump>>,
                     <<Call("parse_identifier"), Add("bindings")>>)>>>>,
        <<At({"ApostropheLBrace"}),
          <<Bump,
            ClosedList("RBrace",
                <<When(AllOf(<<At(Name), Ahead(1, {"Colon"})>>), <<Bump, Bump>>),
                  Call("parse_pattern")>>),
            Expect("RBrace")>>>> >>,
        <<Expr(26)>>)>>

\* The constraints of an inline block, after its opening brace.
ConstraintBlock ==
    <<While(Not(At({"RBrace", "Eof"})), <<Call("parse_constraint_item")>>),
      Expect("RBrace")>>

parse_randomize_with ==
    <<When(At({"LParen"}),
           <<Bump,
             When(Not(At({"RParen"})), <<CommaList(<<Call("parse_identifier")>>)>>),
             Expect("RParen")>>),
      Expect("LBrace")>> \o ConstraintBlock

\* `( filter )` or `{ constraints }` after the `with` of a call.
CallWithClause ==
    <<When(At({"LParen"}),
           <<Bump, Expr(0), Expect("RParen"), Build("With", 2)>>),
      When(At({"LBrace"}),
           <<Bump>> \o ConstraintBlock \o <<Build("RandomizeWith", 1)>>)>>

--------------------------------------------------------------------------------
(***************************************************************************)
(* The binding powers of the infix operators: <<left, right>>.             *)
(***************************************************************************)
Powers ==
    [OrMinusArrow |-> <<1, 1>>, OrFatArrow |-> <<1, 1>>,
     HashHash |-> <<6, 7>>, KwIff |-> <<1, 2>>,
     KwThroughout |-> <<2, 3>>, KwWithin |-> <<2, 3>>, KwUntil |-> <<2, 3>>,
     KwS_until |-> <<2, 3>>, KwUntil_with |-> <<2, 3>>,
     KwS_until_with |-> <<2, 3>>, KwIntersect |-> <<4, 5>>,
     KwAnd |-> <<4, 5>>, KwOr |-> <<3, 4>>,
     Arrow |-> <<2, 1>>, LogEquiv |-> <<1, 2>>,
     LogOr |-> <<13, 14>>, LogAnd |-> <<15, 16>>,
     BitOr |-> <<17, 18>>, BitXor |-> <<19, 20>>, BitXnor |-> <<19, 20>>,
     BitAnd |-> <<21, 22>>,
     Eq |-> <<23, 24>>, Neq |-> <<23, 24>>, CaseEq |-> <<23, 24>>,
     CaseNeq |-> <<23, 24>>, WildcardEq |-> <<23, 24>>,
     WildcardNeq |-> <<23, 24>>,
     Lt |-> <<25, 26>>, Gt |-> <<25, 26>>, Leq |-> <<25, 26>>,
     Geq |-> <<25, 26>>,
     ShiftLeft |-> <<27, 28>>, ShiftRight |-> <<27, 28>>,
     ArithShiftLeft |-> <<27, 28>>, ArithShiftRight |-> <<27, 28>>,
     Plus |-> <<29, 30>>, Minus |-> <<29, 30>>,
     Star |-> <<31, 32>>, Slash |-> <<31, 32>>, Percent |-> <<31, 32>>,
     DoubleStar |-> <<33, 34>>]
\* As if a prefix operator took a whole power as its operand.
PrefixBelowPower == 33
prefix_bp == 35
postfix_bp == 37
ternary_bp == 1

\* Whether the current token is an infix operator here.
IsInfix ==
    AllOf(<<At(DOMAIN Powers),
          AnyOf(<<Not(At({"KwAnd", "KwOr"})), Ctx("in_sva_seq")>>),
          Not(AllOf(<<At({"Arrow"}), Look("no_arrow")>>))>>)

Tolerance ==
    AnyOf(<<AllOf(<<At({"Plus"}), Ahead(1, {"Slash"}), Ahead(2, {"Minus"})>>),
          AllOf(<<At({"Plus"}), Ahead(1, {"Percent"}), Ahead(2, {"Minus"})>>)>>)

\* One [lo:hi], [c +/- d] or [c +%- d] of an inside list.
InsideRange ==
    <<Bump,
      If(Ctx("sv2023"),
         <<Expr(31),
           Loop(<<BreakIf(AnyOf(<<Tolerance, Not(At({"Plus", "Minus"}))>>)),
                  Bump, Expr(30), Build("Add", 2)>>)>>,
         <<Expr(0)>>),
      If(AllOf(<<Ctx("sv2023"), Tolerance>>),
         <<Bump, Bump, Bump, Expr(0), Expect("RBracket"), Build("Range", 2)>>,
         <<Expect("Colon"), Expr(0), Expect("RBracket"), Build("Range", 2)>>)>>

LoopInside ==
    <<Tight(25), Bump, Expect("LBrace"),
      ClosedList("RBrace", <<If(At({"LBracket"}), InsideRange, <<Expr(0)>>)>>),
      Expect("RBrace"), Node("Inside")>>

LoopMember ==
    <<Bump, MemberName, Member,
      When(At({"LParen"}),
           <<Call("parse_call_args"), Node("Call"),
             When(At({"KwWith"}),
                  <<Bump, If(Look("is_randomize_receiver"),
                             <<Call("parse_randomize_with"),
                               Build("RandomizeWith", 1)>>,
                             CallWithClause)>>)>>)>>

\* `#( ... )` after a scoped name: skipped to its closing parenthesis.
ParameterText ==
    <<Call("check_param_list_form"), Balanced("LParen", "RParen"), Eat("RParen")>>

LoopScope ==
    <<Bump, ScopeMember, Member,
      When(AllOf(<<At({"Hash"}), Ahead(1, {"LParen"})>>),
           <<Bump, Bump>> \o ParameterText \o <<Build("Specialization", 1)>>)>>

LoopCall ==
    <<Call("parse_call_args"), Node("Call"),
      When(At({"KwWith"}), <<Bump>> \o CallWithClause)>>

\* The repetition [*n:m], [=n:m], [->n:m] of a sequence.
Repetition ==
    <<Bump,
      Switch(<<
        <<At({"RBracket"}), <<Leaf("Number"), Leaf("Dollar")>>>>,
        <<At({"Plus"}), <<Bump, Leaf("Number"), Leaf("Dollar")>>>> >>,
        <<Expr(0), If(At({"Colon"}), <<Bump, Expr(0)>>, <<Dup>>)>>),
      Until({"RBracket"}), Eat("RBracket"), Build("$sva_rep", 3)>>

LoopSelect ==
    <<Bump,
      Switch(<<
        <<At({"Star", "Assign", "Arrow"}), Repetition>>,
        <<Result({"New"}), <<Expr(0), Expect("RBracket"), Build("Call", 2)>>>> >>,
        SelectBody)>>

LoopWith ==
    <<If(Ahead(1, {"LBracket"}),
         <<Bump, Bump, Expr(0), Keep(1, 2),
           When(At({"Colon", "PlusColon", "MinusColon"}),
                <<Bump, Expr(0), Keep(1, 2)>>),
           Expect("RBracket"), Build("Paren", 1)>>,
         <<Bump,
           If(Look("is_randomize_receiver"),
              <<Call("parse_randomize_with"), Build("RandomizeWith", 1)>>,
              <<Expect("LParen"), Expr(0), Expect("RParen"),
                Build("With", 2)>>)>>)>>

\* size'(e), type'(e), name'(e): the operand that sizes or types the cast
\* is kept, any other one dropped.
LoopCast ==
    <<Bump, Bump, PeelParens,
      Switch(<<
        <<Result({"Number", "Unary", "Binary", "SeqAnd", "Conditional",
                   "Call"}
                   \cup SystemCalls),
          <<Expr(0), Expect("RParen"), Build("$__xz_size_cast", 2)>>>>,
        <<Result({"TypeLiteral"}),
          <<Expr(0), Expect("RParen"), Build("$__xz_type_cast", 2)>>>>,
        <<Look("scoped_name_expr"),
          <<Expr(0), Expect("RParen"), Build("$__xz_named_cast", 2)>>>> >>,
        <<Drop, Expr(0), Expect("RParen"), Build("Paren", 1)>>)>>

TypedPattern ==
    <<Bump, Call("parse_assignment_pattern_items"), Expect("RBrace"),
      Node("TypedPattern")>>

DelayCount ==
    If(At({"LBracket"}), <<Call("parse_sva_delay_range")>>,
       <<Call("parse_sva_delay_count")>>)

\* a op b.  `##` counts first; `until_with` requires both at the end.
LoopInfix ==
    <<Tight(0), Leaf("Op"),
      Switch(<<
        <<At({"HashHash"}),
          <<Bump, DelayCount, Operand(1), Build("Binary", 3), Build("SeqAnd", 2)>>>>,
        <<At({"KwUntil_with", "KwS_until_with"}),
          <<Bump, Operand(0), UntilWith, InfixNode>>>> >>,
        <<Bump, Operand(0), InfixNode>>)>>

\* What may follow an operand.
operator_loop ==
    <<Switch(<<
        <<At({"KwMatches"}),
          <<Tight(25), Bump, Call("parse_pattern"), Build("Matches", 1)>>>>,
        <<At({"KwInside"}), LoopInside>>,
        <<At({"Increment", "Decrement"}),
          <<Tight(postfix_bp), Leaf("Op"), Bump, Swap, Build("Unary", 2)>>>>,
        <<AllOf(<<Ctx("in_sva_seq"), At({"HashMinusHash", "HashEqualHash"})>>),
          <<Tight(1), Bump, Expr(1), Build("$sva_follow", 2)>>>>,
        <<IsInfix, LoopInfix>>,
        <<AllOf(<<At({"ApostropheLBrace"}), Look("scoped_name_expr")>>), TypedPattern>>,
        <<At({"Question"}),
          <<Tight(ternary_bp), Bump, Expr(0), Expect("Colon"),
            ExprCtx(ternary_bp), Build("Conditional", 3)>>>>,
        <<At({"Dot"}), LoopMember>>,
        <<At({"DoubleColon"}), LoopScope>>,
        <<At({"LParen"}), LoopCall>>,
        <<At({"LBracket"}), LoopSelect>>,
        <<At({"KwWith"}), LoopWith>>,
        <<AllOf(<<At({"Tick"}), Ahead(1, {"LParen"})>>), LoopCast>> >>,
        <<Break>>)>>
parse_expr_bp_ctx == <<Call("parse_prefix"), Loop(operator_loop)>>

\* The head of a constraint: `->` is left to parse_constraint_item.
parse_constraint_left_expr == <<<<"call", "parse_expr_bp_ctx", 0, TRUE>>>>

--------------------------------------------------------------------------------
(***************************************************************************)
(* Primaries: the arms of parse_prefix.                                    *)
(***************************************************************************)
PrefixClockingArg ==
    <<Leaf("Number"), Bump,
      If(At({"LParen"}),
         <<Bump, When(At({"KwPosedge", "KwNegedge", "KwEdge"}), <<Bump>>),
           Expr(0), Expect("RParen")>>,
         <<When(At(Name), <<Call("parse_hierarchical_identifier")>>)>>),
      Node("SystemCall")>>
PrefixSequenceClock ==
    <<Bump, When(At({"LParen"}), <<Bump, Balanced("LParen", "RParen")>>), Expr(0)>>

UnaryToken ==
    {"Plus", "Minus", "LogNot", "BitNot", "BitAnd", "BitOr", "BitXor",
     "BitNand", "BitNor", "BitXnor", "Increment", "Decrement"}
PrefixUnary == <<Leaf("Op"), Bump, Expr(prefix_bp), Node("Unary")>>

PrefixParen ==
    <<Bump, Expr(0), Call("parse_mintypmax_rest"),
      When(AllOf(<<Ctx("in_constraint"), At({"KwDist"})>>),
           <<Bump, Call("parse_dist_body"), Add("paren_dist"),
             Expect("RParen"), Return>>),
      Call("parse_paren_assign_tail"),
      When(AllOf(<<Ctx("in_sva_seq"), At({"Comma"})>>),
           <<While(At({"Comma"}),
                   <<Bump, Expr(0), Call("parse_paren_assign_tail")>>),
             Expect("RParen"), Node("$sva_match"), Return>>),
      Expect("RParen"), Node("Paren")>>

\* `: typ : max`: the typical value stands for the triple.
parse_mintypmax_rest ==
    <<When(AllOf(<<Not(Ctx("in_constraint")), At({"Colon"})>>),
           <<Bump, Expr(0), Keep(2, 2), Expect("Colon"), Expr(0), Keep(1, 2)>>)>>
parse_paren_assign_tail ==
    <<When(At(AssignOps \cup ArithAssignOps),
           <<Bump, Expr(0), Build("AssignExpr", 2)>>)>>

\* type( ... ): the operand is skipped, the expression a constant.
PrefixType ==
    <<Bump, Expect("LParen"), Leaf("Number"), Balanced("LParen", "RParen"),
      Expect("RParen")>>

PrefixTagged ==
    <<Leaf("Name"), Bump, When(At(Name), <<Call("parse_identifier")>>),
      Switch(<<
        <<At({"LParen"}), <<Bump, Expr(0), Expect("RParen")>>>>,
        <<At({"ApostropheLBrace"}),
          <<Bump, Call("parse_assignment_pattern_items"), Expect("RBrace")>>>> >>,
        <<>>),
      Node("Tagged")>>

\* A number, and the size cast n'(e).
PrefixNumber ==
    <<Leaf("Number"), Bump,
      When(AllOf(<<At({"Tick"}), Ahead(1, {"LParen"})>>),
           <<Bump, Expect("LParen"), Expr(0), Expect("RParen"),
             Node("$__xz_size_cast")>>)>>

PrefixUnit == <<Bump, Bump, Call("parse_hierarchical_identifier")>>
PrefixSystem ==
    <<Switch(<<
        <<AllOf(<<At({"$root"}), Ahead(1, {"Dot"})>>),
          <<Call("parse_hierarchical_identifier")>>>>,
        <<At({"$past"}),
          <<Leaf("Name"), Bump,
            When(At({"LParen"}), <<CallWith("parse_call_args_inner", 1)>>),
            Node("SystemCall")>>>> >>,
        <<Leaf("Name"), Bump,
          When(At({"LParen"}), <<Call("parse_call_args_inner")>>),
          Node("SystemCall")>>)>>

PrefixThis ==
    <<If(AllOf(<<Ahead(1, {"Dot"}), Ahead(2, {"KwSuper"})>>),
         <<Bump, Bump, Call("parse_prefix")>>, <<Leaf("This"), Bump>>)>>

PrefixLocal == <<Bump, Bump, Call("parse_hierarchical_identifier")>>

\* An identifier: with #( ), as a cast, a typed pattern or a call.
PrefixIdentifier ==
    <<Leaf("Ident"), Bump,
      When(At({"Hash"}),
           <<Bump, When(At({"LParen"}),
                 <<Bump>> \o ParameterText \o <<Build("Specialization", 1)>>)>>),
      When(AllOf(<<At({"Tick"}), Ahead(1, {"LParen"})>>),
           <<Bump, Bump,
             If(Result({"Ident"}),
                <<Expr(0), Expect("RParen"), Node("$__xz_named_cast")>>,
                <<Drop, Expr(0), Expect("RParen"), Node("Paren")>>),
             Return>>),
      When(AllOf(<<At({"ApostropheLBrace"}), Result({"Ident"})>>),
           TypedPattern \o <<Return>>),
      When(AllOf(<<At({"LParen"}), Not(Saved("sva_delay_count"))>>),
           <<Call("parse_call_args"), Node("Call"),
             When(AllOf(<<At({"KwWith"}), Ahead(1, {"LBrace"})>>),
                  <<Bump, Bump>> \o ConstraintBlock
                      \o <<Build("RandomizeWith", 1)>>)>>)>>

\* int'(e), signed'(e); and void'(e), whose operand must be a call.
PrefixCast ==
    <<Leaf("TypeLiteral"), Bump, Bump, Expect("LParen"), Expr(0),
      Expect("RParen"), Node("$__xz_type_cast")>>
PrefixVoidCast ==
    <<Bump, Bump, Expect("LParen"), Expr(0), Expect("RParen"),
      Dup, PeelParens,
      When(AllOf(<<Ctx("strict"),
                 Result({"Number", "StringLiteral", "Unary", "Binary",
                         "Conditional", "Concatenation", "Replication"})>>),
           <<Error>>),
      Drop, Node("Paren")>>

PrefixNew ==
    <<Leaf("New"), Bump,
      When(At(PlainName \cup {"KwThis", "KwSuper"}),
           <<Expr(40), Node("ShallowCopy")>>)>>

\* not, always, nexttime, s_eventually ...
PropertyOperator ==
    {"KwS_eventually", "KwS_always", "KwAlways", "KwNexttime", "KwS_nexttime",
     "KwNot"}
PrefixProperty == <<Leaf("Op"), Bump, Expr(3), Node("Unary")>>

PrefixFirstMatch ==
    <<Bump,
      When(Not(At({"LParen"})), <<Error, Leaf("Number"), Return>>),
      Bump, Expr(0), Balanced("LParen", "RParen"), Eat("RParen"),
      Node("$sva_first_match")>>

PrefixIf ==
    <<Bump,
      When(Not(At({"LParen"})), <<Error, Leaf("Number"), Return>>),
      Leaf("Op"),
      Bump, Expr(0), Eat("RParen"), Expr(3),
      When(At({"KwElse"}), <<Bump, Expr(3)>>), Node("Binary")>>

PrefixStrong ==
    <<Bump, Eat("LParen"), Expr(0), Eat("RParen"), Node("$sva_strong")>>

PrefixDelay ==
    <<Leaf("Op"), Bump, DelayCount,
      If(At({"SystemIdentifier", "$past", "$root", "$unit", "LParen",
             "IntegerLiteral", "Tick", "HashHash"} \cup PlainName
              \cup (UnaryToken \ {"Increment", "Decrement"})),
         <<Expr(3), Node("Binary")>>, <<Node("Unary")>>)>>

parse_prefix ==
    <<Save("sva_delay_count"), Set("sva_delay_count", FALSE),
      Switch(<<
        <<AllOf(<<At({"At"}), Not(Ctx("in_sva_seq"))>>), PrefixClockingArg>>,
        <<At({"At"}), PrefixSequenceClock>>,
        <<At(UnaryToken), PrefixUnary>>,
        <<At({"LParen"}), PrefixParen>>,
        <<AllOf(<<At({"KwType"}), Ahead(1, {"LParen"})>>), PrefixType>>,
        <<At({"LBrace"}), <<Call("parse_concatenation")>>>>,
        <<At({"KwTagged"}), PrefixTagged>>,
        <<At({"ApostropheLBrace"}),
          <<Bump, Call("parse_assignment_pattern_items"), Expect("RBrace"),
            Node("AssignmentPattern")>>>>,
        <<At(Numeral), PrefixNumber>>,
        <<At({"UnbasedUnsizedLiteral"}), <<Leaf("Number"), Bump>>>>,
        <<At({"StringLiteral", "TripleStringLiteral"}),
          <<Leaf("StringLiteral"), Bump>>>>,
        <<AllOf(<<At({"$unit"}), Ahead(1, {"DoubleColon"})>>), PrefixUnit>>,
        <<At(SysName), PrefixSystem>>,
        <<At({"Dollar", "KwNull"}), <<Leaf("Atom"), Bump>>>>,
        <<At({"KwThis"}), PrefixThis>>,
        <<At({"KwSuper"}), <<Leaf("Ident"), Bump>>>>,
        <<AllOf(<<At({"KwLocal"}), Ahead(1, {"DoubleColon"})>>), PrefixLocal>>,
        <<At(Name), PrefixIdentifier>>,
        <<AllOf(<<At({"KwVoid"}), Ahead(1, {"Tick"})>>), PrefixVoidCast>>,
        <<AllOf(<<At(CastKeyword), Ahead(1, {"Tick"})>>), PrefixCast>>,
        <<At({"KwNew"}), PrefixNew>>,
        <<At(DataTypeKeyword), <<Leaf("TypeLiteral"), Call("parse_data_type")>>>>,
        <<At(PropertyOperator), PrefixProperty>>,
        <<At({"KwFirst_match"}), PrefixFirstMatch>>,
        <<At({"KwIf"}), PrefixIf>>,
        <<At({"KwStrong", "KwWeak"}), PrefixStrong>>,
        <<At({"HashHash"}), PrefixDelay>> >>,
        <<Error, Leaf("Empty"), Bump>>)>>

--------------------------------------------------------------------------------
\* `'{ ... }` up to its closing brace.  The replication form n{ ... } is
\* read only as the first item.
parse_assignment_pattern_items ==
    <<Let("first", TRUE),
      ClosedList("RBrace", <<
        Switch(<<
          <<At({"KwDefault"}), <<Bump, Expect("Colon"), Expr(0), Build("Keyed", 1)>>>>,
          <<AllOf(<<At(DataTypeKeyword), Ahead(1, {"Colon"})>>),
            <<Call("parse_data_type"), Expect("Colon"), Expr(0), Build("Keyed", 1)>>>>,
          <<AllOf(<<At(Name), Ahead(1, {"Colon"})>>),
            <<Bump, Bump, Expr(0), Build("Keyed", 1)>>>>,
          <<AllOf(<<At({"StringLiteral"}), Ahead(1, {"Colon"})>>),
            <<Expr(0), Expect("Colon"), Expr(0), Build("Keyed", 2)>>>> >>,
          <<Expr(0),
            Switch(<<
              <<At({"Colon"}), <<Bump, Expr(0), Build("Keyed", 2)>>>>,
              <<AllOf(<<Saved("first"), At({"LBrace"})>>),
                <<Bump, CommaList(<<Expr(0), Build("Replication", 2)>>),
                  Expect("RBrace")>>>>,
              <<Result({"Replication"}), <<Build("Paren", 1)>>>> >>, <<>>)>>),
        Let("first", FALSE)>>)>>

\* { >> n { ... } }, { n { ... } }, { a, b }.
parse_concatenation ==
    <<Expect("LBrace"),
      Switch(<<
        <<At({"ShiftRight", "ShiftLeft"}),
          <<Bump,
            When(Not(At({"LBrace"})),
                 <<If(At({"KwByte", "KwShortint", "KwInt", "KwInteger", "KwLongint"}),
                      <<Bump>>, <<Expr(0)>>)>>),
            Expect("LBrace"), ClosedList("RBrace", <<Expr(0)>>),
            Expect("RBrace"), Expect("RBrace"), Node("StreamOp")>>>>,
        <<At({"RBrace"}), <<Bump, Node("Concatenation")>>>> >>,
        <<Expr(0),
          If(At({"LBrace"}),
             <<Bump, ClosedList("RBrace", <<Expr(0)>>),
               Expect("RBrace"), Expect("RBrace"), Node("Replication")>>,
             <<While(At({"Comma"}),
                     <<Bump, BreakIf(At({"RBrace", "Eof"})), Expr(0)>>),
               Expect("RBrace"), Node("Concatenation")>>)>>)>>

parse_call_args == <<Call("parse_call_args_inner")>>

\* Arguments: empty, a bare type keyword, .name(e) or an expression, which
\* leaves the sequence context when it is the clock of a sampled value.
parse_call_args_inner ==
    <<Expect("LParen"),
      When(At({"RParen"}), <<Bump, Return>>),
      Loop(<<
        BreakIf(At({"RParen", "Eof"})),
        Switch(<<
          <<At({"Comma"}), <<Leaf("Empty")>>>>,
          <<AnyOf(<<AllOf(<<At(DataTypeKeyword), Ahead(1, {"RParen", "Comma"})>>),
                  AllOf(<<Ctx("sv2023"), At({"KwDefault"}), Ahead(1, {"RParen"})>>)>>),
            <<Leaf("Ident"), Bump>>>>,
          <<At({"Dot"}),
            <<Leaf("NamedArg"), Bump, Call("parse_identifier"),
              When(At({"LParen"}),
                   <<Bump, When(Not(At({"RParen"})), <<Expr(0), Keep(1, 2)>>),
                     Expect("RParen")>>)>>>> >>,
          <<Save("in_sva_seq"),
            When(AllOf(<<Arg(1), At({"At"})>>), <<Set("in_sva_seq", FALSE)>>),
            Expr(0), Restore("in_sva_seq")>>),
        EatOrBreak("Comma"),
        When(At({"RParen"}), <<Leaf("Empty"), Break>>)>>),
      Expect("RParen")>>

parse_hierarchical_identifier ==
    <<When(AllOf(<<At({"KwThis"}), Ahead(1, {"Dot"}), Ahead(2, {"KwSuper"})>>),
           <<Bump, Bump>>),
      Leaf("Ident"),
      If(At({"KwThis", "KwSuper"} \cup SysName), <<Bump>>,
         <<Call("parse_identifier")>>),
      Loop(<<Switch(<<
        <<At({"Dot"}), <<Bump, Drop, Leaf("Hier"), Call("parse_identifier")>>>>,
        <<At({"DoubleColon"}), <<Bump, Drop, Leaf("Hier"), ScopeMember>>>>,
        <<AllOf(<<At({"LBracket"}), Look("select_inside_path")>>),
          <<Bump, Expr(0), Drop, Expect("RBracket"), Relabel("Hier")>>>> >>,
        <<Break>>)>>)>>

parse_hierarchical_identifier_expr ==
    <<Leaf("Ident"), Call("parse_identifier"),
      Loop(<<Switch(<<
        <<At({"Dot", "DoubleColon"}), <<Bump, Call("parse_identifier"), Member>>>>,
        <<At({"LBracket"}), <<Bump, Expr(0), Expect("RBracket"), Build("Index", 2)>>>> >>,
        <<Break>>)>>)>>

\* # delay: one primary, so that `#d (a, b)` is not a call.
parse_delay_value ==
    <<Switch(<<
        <<At(Numeral), <<Leaf("Number"), Bump>>>>,
        <<AllOf(<<At(PlainName), Not(Ahead(1, {"DoubleColon", "Dot"}))>>),
          <<Leaf("Ident"), Bump>>>> >>,
        <<Expr(3)>>)>>

\* ## count: a constant primary, so that `##N (b)` is not a call.
parse_sva_delay_count ==
    <<Set("sva_delay_count", TRUE), Call("parse_prefix"),
      While(AllOf(<<Result({"Ident", "Hier", "New", "Member"}), At({"DoubleColon"}),
                  Ahead(1, Name)>>),
            <<Bump, Call("parse_identifier"), Member>>)>>

parse_sva_delay_range ==
    <<Bump,
      If(At({"Star", "Plus"}), <<Leaf("Unbounded"), Bump>>,
         <<Expr(0), When(At({"Colon"}), <<Bump, Expr(0), Build("Range", 2)>>)>>),
      Until({"RBracket"}), Eat("RBracket")>>

\* As if a clocking event were only ever read inside a sequence.
ClockEventInSequence ==
    <<Set("in_sva_seq", FALSE),
      If(At({"LParen"}),
         <<Bump, Call("parse_event_expression_list"), Expect("RParen")>>,
         <<Call("parse_event_expression_term")>>),
      Set("in_sva_seq", TRUE)>>
parse_sva_clock_event ==
    <<Save("in_sva_seq"), Set("in_sva_seq", FALSE),
      If(At({"LParen"}),
         <<Bump, Call("parse_event_expression_list"), Expect("RParen")>>,
         <<Call("parse_event_expression_term")>>),
      Restore("in_sva_seq")>>

--------------------------------------------------------------------------------
\* parse/helpers.rs.
\* A parameter value list is all ordered or all named, without a last comma.
check_param_list_form ==
    <<When(Ctx("strict"),
           <<When(AnyOf(<<Look("mixed_parameters"), Look("trailing_comma")>>),
                  <<Error>>)>>)>>

\* An undefined macro and its arguments stand for nothing.
recover_undefined_macro ==
    <<Bump,
      When(At({"LParen"}),
           <<Bump,
             If(Look("closes"), <<Balanced("LParen", "RParen"), Bump>>,
                <<Until({"KwEnd", "KwJoin", "KwJoin_any", "KwJoin_none",
                         "KwEndfunction", "KwEndtask", "KwEndmodule",
                         "KwEndclass", "Semicolon"}),
                  Error>>)>>)>>

parse_end_label ==
    <<When(At({"Colon"}),
           <<Bump, If(At({"KwNew"}), <<Bump>>, <<Call("parse_identifier")>>),
             Eat("Semicolon")>>)>>

parse_optional_method_specifier ==
    <<When(AllOf(<<Ctx("sv2023"), At({"Colon"}),
                 Ahead(1, {"KwFinal", "KwExtends", "KwInitial"})>>),
           <<Bump, Bump>>)>>
===============================================================================
