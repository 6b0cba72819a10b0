---------------------------- MODULE ParserStatements ----------------------------
(***************************************************************************)
(* Data types and dimensions (parse/types.rs); statements, event controls  *)
(* and let declarations (parse/statements.rs, parse/lets.rs).              *)
(***************************************************************************)
EXTENDS ParserExpressions

-----------------------------------------------------------------------------
(* Types *)

NetTypeKeyword ==
    {"KwWire", "KwTri", "KwWand", "KwWor", "KwTriand", "KwTrior", "KwTri0",
     "KwTri1", "KwTrireg", "KwSupply0", "KwSupply1", "KwUwire", "KwWreal"}
PortDirection == {"KwInput", "KwOutput", "KwInout", "KwRef"}

is_type_start == At(DataTypeKeyword \cup PlainName)
parse_optional_signing == When(At({"KwSigned", "KwUnsigned"}), <<Bump>>)
parse_optional_lifetime == When(At({"KwStatic", "KwAutomatic"}), <<Bump>>)
parse_optional_net_type == When(At(NetTypeKeyword \cup {"KwInterconnect"}), <<Bump>>)
parse_optional_direction ==
    When(At(PortDirection),
         <<If(At({"KwRef"}),
              <<Bump, When(AllOf(<<Ctx("sv2023"), At({"KwStatic"})>>), <<Bump>>)>>,
              <<Bump>>)>>)

OptModport == When(At({"Dot"}), <<Bump, Call("parse_identifier")>>)
OptInit == When(At({"Assign"}), <<Bump, Expr(0)>>)
\* name [dimensions] [= init], and a list of them.
Declarator ==
    <<Call("parse_identifier"), Call("parse_unpacked_dimensions"), OptInit>>
Declarators == CommaList(Declarator)

\* A type: anything else is the implicit type, and consumes nothing.
\* The types that a keyword does not open: enumerations and structures, a bare signing or
\* dimension, and the name of a type or of an interface with its modport.
ComposedTypes ==
    <<  <<At({"KwEnum"}), <<Call("parse_enum_type")>>>>,
        <<At({"KwStruct", "KwUnion"}), <<Call("parse_struct_type")>>>>,
        <<At({"KwSigned", "KwUnsigned"}),
          <<parse_optional_signing, Call("parse_packed_dimensions")>>>>,
        <<At(PlainName),
          <<Call("parse_type_name"), Call("parse_type_args_hash"),
            When(AllOf(<<Result({"TypeName"}), At({"Dot"})>>),
                 <<Bump, Call("parse_identifier")>>),
            Call("parse_packed_dimensions")>>>>,
        <<At({"LBracket"}), <<Call("parse_packed_dimensions")>>>> >>

parse_data_type ==
    <<Switch(<<
        <<At({"KwVirtual"}),
          <<Bump, Eat("KwInterface"), Call("parse_identifier"),
            When(At({"Hash"}), <<Call("parse_type_args_hash")>>), OptModport>>>>,
        <<AllOf(<<At({"KwType"}), Ahead(1, {"LParen"})>>),
          <<Bump, Bump, Balanced("LParen", "RParen"), Eat("RParen")>>>>,
        <<At({"KwBit", "KwLogic", "KwReg"}),
          <<Bump, parse_optional_signing, Call("parse_packed_dimensions")>>>>,
        <<At({"KwByte", "KwShortint", "KwInt", "KwLongint", "KwInteger", "KwTime"}),
          <<Bump, parse_optional_signing>>>>,
        <<At({"KwReal", "KwShortreal", "KwRealtime", "KwString", "KwChandle",
              "KwEvent", "KwVoid"}), <<Bump>>>>,
        <<At({"KwInterface"}),
          <<Bump, Call("parse_identifier"), Call("parse_type_args_hash"), OptModport>>>> >>
        \o ComposedTypes, <<>>)>>

\* A keyword that names a type here is read as a type, not as a cast.
TypeOrExpr == If(At(DataTypeKeyword), <<Call("parse_data_type")>>, <<Expr(0)>>)
parse_type_args_hash ==
    <<When(At({"Hash"}),
      <<Bump,
        When(At({"LParen"}),
        <<Bump, Call("check_param_list_form"),
          When(Not(At({"RParen"})),
               <<CommaList(<<
                   Switch(<<
                     <<At({"Dot"}),
                       <<Bump, Call("parse_identifier"), Expect("LParen"),
                         When(Not(At({"RParen"})), <<TypeOrExpr>>),
                         Expect("RParen")>>>>,
                     <<AllOf(<<At({"KwVirtual"}),
                             Ahead(1, {"KwInterface"} \cup PlainName)>>),
                       <<Call("parse_data_type")>>>> >>,
                     <<TypeOrExpr>>)>>)>>),
          Expect("RParen")>>)>>)>>

\* a::b, a#(...)::b: a #( ) not followed by :: belongs to the whole name.
parse_type_name ==
    <<Leaf("TypeName"), Call("parse_identifier"),
      Loop(<<Switch(<<
        <<At({"DoubleColon"}),
          <<Bump, Call("parse_identifier"), Relabel("ScopedName")>>>>,
        <<AllOf(<<At({"Hash"}), Ahead(1, {"LParen"}), Look("hash_paren_is_scope_link")>>),
          <<Call("parse_type_args_hash"), Expect("DoubleColon"),
            Call("parse_identifier"), Relabel("ScopedName")>>>> >>,
        <<Break>>)>>)>>

skip_optional_attribute ==
    When(AllOf(<<At({"LParen"}), Ahead(1, {"Star"})>>),
         <<Bump, Bump,
           While(Not(At({"Eof"})),
                 <<When(AllOf(<<At({"Star"}), Ahead(1, {"RParen"})>>),
                        <<Bump, Bump, Break>>),
                   Bump>>)>>)

\* [l:r], []; a lone size is an error, and only after a built-in type is it
\* told apart from a range that lacks its second half.
SizedBase ==
    {"KwBit", "KwLogic", "KwReg", "KwByte", "KwShortint", "KwInt", "KwLongint",
     "KwInteger", "KwTime", "KwSigned", "KwUnsigned"}
parse_packed_dimensions ==
    <<While(At({"LBracket"}),
      <<Bump,
        If(At({"RBracket"}), <<Bump>>,
           <<Let("size_only", FALSE), When(Behind(2, SizedBase), <<Let("size_only", TRUE)>>),
             Expr(0),
             Switch(<<
               <<At({"Colon"}), <<Bump, Expr(0), Expect("RBracket")>>>>,
               <<AllOf(<<At({"RBracket"}), Saved("size_only")>>), <<Error, Bump>>>> >>,
               <<Expect("Colon"), Expr(0), Expect("RBracket")>>)>>)>>)>>

DimensionExpr ==
    <<Expr(0), When(At({"Colon"}), <<Bump, Expr(0)>>), Expect("RBracket")>>
is_associative_index_type_start ==
    AnyOf(<<At(DataTypeKeyword),
          AllOf(<<At(PlainName), Ahead(1, {"RBracket", "DoubleColon", "Hash"})>>)>>)
\* What might be a type is tried as one and else read again as an expression.
parse_unpacked_dimensions ==
    <<While(At({"LBracket"}),
      <<Bump,
        Switch(<<
          <<At({"RBracket"}), <<Bump>>>>,
          <<At({"Dollar"}),
            <<Bump, When(At({"Colon"}), <<Bump, Expr(0)>>), Expect("RBracket")>>>>,
          <<At({"Star"}), <<Bump, Expect("RBracket")>>>>,
          <<is_associative_index_type_start,
            <<Mark, Call("parse_data_type"),
              If(AllOf(<<At({"RBracket"}), Clean>>), <<Bump>>,
                 <<Rewind, Retract>> \o DimensionExpr)>>>> >>,
          DimensionExpr)>>)>>

EnumMembers ==
    <<Expect("LBrace"),
      Loop(<<BreakIf(At({"RBrace", "Eof"})),
             Mark, Call("parse_identifier"),
             When(At({"LBracket"}), <<Bump>> \o DimensionExpr),
             OptInit,
             When(Idle, <<Bump>>),
             EatOrBreak("Comma")>>),
      Expect("RBrace")>>
parse_enum_type ==
    <<Expect("KwEnum"),
      When(AllOf(<<At(PlainName), Ahead(1, {"Semicolon", "Comma"})>>), <<Return>>),
      When(At(DataTypeKeyword \cup PlainName), <<Call("parse_data_type")>>),
      When(At(PlainName), <<Call("parse_identifier")>>),
      When(Not(At({"LBrace"})), <<Return>>)>> \o EnumMembers \o <<Call("parse_packed_dimensions")>>

parse_struct_type ==
    <<If(At({"KwUnion"}),
         <<Bump, Eat("KwTagged"), When(Ctx("sv2023"), <<Eat("KwSoft")>>)>>,
         <<Expect("KwStruct"), Eat("KwTagged")>>),
      Eat("KwPacked"), Eat("KwTagged"), parse_optional_signing,
      When(Not(At({"LBrace"})), <<Return>>),
      Expect("LBrace"),
      While(Not(At({"RBrace", "Eof"})),
            <<Mark, When(At({"KwRand", "KwRandc"}), <<Bump>>),
              Call("parse_data_type"), Declarators, Expect("Semicolon"),
              When(Idle, <<Bump>>)>>),
      Expect("RBrace"), Call("parse_packed_dimensions")>>

-----------------------------------------------------------------------------
(* Statements *)

CaseKeyword == {"KwCase", "KwCasex", "KwCasez"}
EdgeKeyword == {"KwPosedge", "KwNegedge", "KwEdge"}
JoinKeyword == {"KwJoin", "KwJoin_any", "KwJoin_none"}

DeclareVars == <<Declarators, Expect("Semicolon")>>
OptStatement(k) == When(At({k}), <<Bump, Call("parse_statement")>>)
Condition == <<Expect("LParen"), Expr(0), Expect("RParen")>>
SkipParens == <<Bump, Balanced("LParen", "RParen"), Eat("RParen")>>

\* label : statement.  An identifier and a colon are a label only before
\* what can start a statement.
StmtStarter ==
    {"KwAssert", "KwAssume", "KwCover", "KwRestrict", "KwExpect", "KwBegin",
     "KwFork", "KwIf", "KwCase", "KwCasex", "KwCasez", "KwFor", "KwForeach",
     "KwWhile", "KwDo", "KwRepeat", "KwForever", "Hash", "At", "KwWait",
     "KwDisable", "KwVoid", "KwReturn", "KwBreak", "KwContinue"}
       \cup Name \cup SysName
StatementLabel == AllOf(<<At(Name), Ahead(1, {"Colon"}), Ahead(2, StmtStarter)>>)

\* A macro that no file defines stands for a statement; a compiler
\* directive is passed over.
StatementDirective ==
    <<If(At({"UndefinedMacro"}), <<Call("recover_undefined_macro"), Eat("Semicolon")>>,
         <<Bump, Call("parse_statement")>>)>>

StatementLoop ==
    <<Add("let_scopes"),
      If(At({"KwFor"}), <<Call("parse_for_statement")>>, <<Call("parse_foreach_statement")>>),
      Sub("let_scopes")>>

StatementReturn == <<Bump, When(Not(At({"Semicolon"})), <<Expr(0)>>), Expect("Semicolon")>>

StatementWaitOrder ==
    <<Bump, Expect("LParen"), CommaList(<<Call("parse_identifier")>>), Expect("RParen"),
      If(At({"Semicolon"}), <<Bump>>,
         <<When(Not(At({"KwElse"})), <<Call("parse_statement")>>)>>),
      OptStatement("KwElse")>>
StatementWait ==
    <<Bump, If(At({"KwFork"}), <<Bump, Expect("Semicolon")>>,
               Condition \o <<Call("parse_statement")>>)>>

\* [local] [static | automatic] type names ;
StatementLifetime ==
    <<If(At({"KwLocal"}), <<Bump, parse_optional_lifetime>>, <<Bump>>),
      When(At(DataTypeKeyword \cup PlainName), <<Call("parse_data_type")>>)>> \o DeclareVars

StatementDisable ==
    <<Bump,
      If(At({"KwFork"}), <<Bump>>,
         <<Call("parse_identifier"), While(At({"Dot"}), <<Bump, Call("parse_identifier")>>)>>),
      Expect("Semicolon")>>

\* assign and force; deassign, release and a coverpoint.
StatementForce == <<Bump, Expr(0), Expect("Assign"), Expr(0), Expect("Semicolon")>>
StatementRelease == <<Bump, Expr(0), Expect("Semicolon")>>
StatementCross == <<Bump, CommaList(<<Expr(0)>>), Expect("Semicolon")>>

StatementEvent == <<Call("parse_event_control"), Call("parse_statement")>>
StatementTrigger == <<Bump, Expr(0), Expect("Semicolon")>>
StatementDelay ==
    <<Bump,
      If(At({"LParen"}),
         <<Bump, Expr(0), When(At({"Colon"}), <<Bump, Expr(0), Expect("Colon"), Expr(0)>>),
           Expect("RParen")>>,
         <<Expr(3)>>),
      Call("parse_statement")>>
StatementCycleDelay ==
    <<Bump, If(At({"LParen"}), <<Bump, Expr(0), Expect("RParen")>>, <<Expr(3)>>),
      Call("parse_statement")>>

\* const and var: after var, a lone name has the implicit type.
StatementConst ==
    <<Eat("KwConst"), Let("var", FALSE), When(At({"KwVar"}), <<Bump, Let("var", TRUE)>>),
      parse_optional_lifetime,
      When(Not(AllOf(<<Saved("var"), At(PlainName),
                       Ahead(1, {"Semicolon", "Comma", "Assign"})>>)),
           <<Call("parse_data_type")>>)>> \o DeclareVars

StatementEventDecl == <<Bump>> \o DeclareVars

\* A name that another name, #, :: or dimensions and a name follow is the
\* type of a declaration.
UserTypeDeclaration ==
    AllOf(<<At(PlainName), Not(Look("class_scope")),
            AnyOf(<<Ahead(1, PlainName \cup {"Hash", "DoubleColon"}),
                    AllOf(<<Ahead(1, {"LBracket"}), Look("dims_then_name")>>)>>)>>)
TypedDeclaration == <<Call("parse_data_type")>> \o DeclareVars

StatementAssign ==
    <<Call("parse_lvalue_or_expr"),
      Switch(<<
        <<At({"Assign", "Leq"}), <<Bump, Call("skip_intra_assignment_timing"), Expr(0)>>>>,
        <<At(AssignOps \cup ArithAssignOps), <<Bump, Expr(0)>>>> >>, <<>>),
      Expect("Semicolon")>>

parse_statement ==
    <<When(StatementLabel,
           <<Call("parse_identifier"), Expect("Colon"), Call("parse_statement"), Return>>),
      Switch(<<
        <<At({"Directive", "UndefinedMacro", "ClosingDirective"}), StatementDirective>>,
        <<At({"KwBegin"}), <<Call("parse_seq_block")>>>>,
        <<At({"KwFork"}), <<Call("parse_par_block")>>>>,
        <<At({"KwLet"}), <<Call("parse_let_declaration")>>>>,
        <<At({"KwIf", "KwUnique", "KwUnique0", "KwPriority"}), <<Call("parse_if_or_case")>>>>,
        <<At(CaseKeyword), <<Call("parse_case_with_priority")>>>>,
        <<At({"KwParameter", "KwLocalparam"}), <<Call("parse_parameter_decl_stmt")>>>>,
        <<At({"KwRandcase"}), <<Call("parse_randcase")>>>>,
        <<At({"KwRandsequence"}), <<Call("parse_randsequence")>>>>,
        <<At({"KwFor", "KwForeach"}), StatementLoop>>,
        <<At({"KwWhile"}), <<Call("parse_while_statement")>>>>,
        <<At({"KwDo"}), <<Call("parse_do_while_statement")>>>>,
        <<At({"KwRepeat"}), <<Call("parse_repeat_statement")>>>>,
        <<At({"KwForever"}), <<Bump, Call("parse_statement")>>>>,
        <<At({"KwReturn"}), StatementReturn>>,
        <<At({"KwBreak", "KwContinue"}), <<Bump, Expect("Semicolon")>>>>,
        <<At({"KwWait_order"}), StatementWaitOrder>>,
        <<At({"KwWait"}), StatementWait>>,
        <<At({"KwStatic", "KwAutomatic", "KwLocal"}), StatementLifetime>>,
        <<At({"KwTypedef"}), <<Call("parse_typedef_declaration")>>>>,
        <<At({"KwDisable"}), StatementDisable>>,
        <<At({"KwExpect", "KwAssert", "KwAssume", "KwCover"}),
          <<Call("parse_assertion_statement")>>>>,
        <<At({"KwRestrict"}), <<Call("skip_restrict_property")>>>>,
        <<At({"KwAssign", "KwForce"}), StatementForce>>,
        <<At({"KwDeassign", "KwRelease", "KwCoverpoint"}), StatementRelease>>,
        <<At({"KwCross"}), StatementCross>>,
        <<At({"At"}), StatementEvent>>,
        <<At({"Arrow", "DoubleArrow"}), StatementTrigger>>,
        <<At({"Hash"}), StatementDelay>>,
        <<At({"HashHash"}), StatementCycleDelay>>,
        <<At({"KwImport"}), <<Call("parse_import_declaration")>>>>,
        <<At({"KwConst", "KwVar"}), StatementConst>>,
        <<AllOf(<<At({"KwVirtual"}), Ahead(1, PlainName \cup {"KwInterface"})>>),
          TypedDeclaration>>,
        <<AllOf(<<At(DataTypeKeyword \ {"KwEvent"}), Not(Ahead(1, {"Tick"}))>>),
          TypedDeclaration>>,
        <<At(PortDirection), <<Bump>> \o SkipTo({"Semicolon"}, "Semicolon")>>,
        <<At({"Semicolon"}), <<Bump>>>>,
        <<At({"KwEvent"}), StatementEventDecl>>,
        <<UserTypeDeclaration, TypedDeclaration>> >>,
        StatementAssign)>>

\* An item of a block.  Closing directives are passed over, and one that
\* was the last thing of the block leaves no statement to read.
parse_block_item ==
    <<Let("skipped", FALSE),
      While(At({"ClosingDirective"}), <<Bump, Let("skipped", TRUE)>>),
      When(AllOf(<<Saved("skipped"),
                   At({"KwEnd", "KwEndfunction", "KwEndtask", "Eof"} \cup JoinKeyword)>>),
           <<Return>>),
      If(At({"KwLet"}), <<Call("parse_let_declaration")>>, <<Call("parse_statement")>>)>>

after_block_label == AllOf(<<Behind(1, {"Colon"}), Behind(2, Name)>>)
BlockName ==
    <<Let("named", FALSE),
      When(At({"Colon"}), <<Bump, Call("parse_identifier"), Let("named", TRUE)>>)>>
\* Only a block with a name, or a label before it, may have an end label.
BlockEndLabel ==
    <<When(AllOf(<<At({"Colon"}), Ctx("strict"), Not(Saved("named")), Not(Saved("prefixed"))>>),
           <<Error>>),
      Call("parse_end_label")>>
BlockPrefix ==
    <<Let("prefixed", FALSE), When(after_block_label, <<Let("prefixed", TRUE)>>)>>
BlockItems(ends) ==
    <<Add("let_scopes"), While(Not(At(ends \cup {"Eof"})), <<Call("parse_block_item")>>),
      Sub("let_scopes")>>

parse_seq_block ==
    BlockPrefix \o <<Expect("KwBegin")>> \o BlockName
      \o BlockItems({"KwEnd"}) \o <<Expect("KwEnd")>> \o BlockEndLabel
parse_par_block ==
    BlockPrefix \o <<Expect("KwFork")>> \o BlockName
      \o BlockItems(JoinKeyword)
      \o <<If(At({"KwJoin_any", "KwJoin_none"}), <<Bump>>, <<Expect("KwJoin")>>)>>
      \o BlockEndLabel

parse_if_or_case ==
    <<When(At({"KwUnique", "KwUnique0", "KwPriority"}), <<Bump>>),
      If(At(CaseKeyword), <<Call("parse_case_with_priority")>>,
         <<Call("parse_if_with_priority")>>)>>
\* The names a pattern binds are dropped before and after the condition.
parse_if_with_priority ==
    <<Expect("KwIf"), Expect("LParen"), Drain("bindings"), Expr(0), Expect("RParen"),
      Drain("bindings"), Call("parse_statement"), OptStatement("KwElse")>>

CaseDefault == <<Bump, Eat("Colon"), Call("parse_statement")>>
CasePattern ==
    <<Drain("bindings"), Call("parse_pattern"),
      When(AllOf(<<At({"LogAnd"}), Ahead(1, {"BitAnd"})>>), <<Bump, Bump, Expr(0)>>),
      Expect("Colon"), Drain("bindings"), Call("parse_statement")>>
CaseItem ==
    <<CommaList(<<If(AllOf(<<Saved("inside"), At({"LBracket"})>>),
                     <<Bump, Expr(0), Expect("Colon"), Expr(0), Expect("RBracket")>>,
                     <<Expr(0)>>)>>),
      Expect("Colon"), Call("parse_statement")>>
parse_case_with_priority ==
    <<Let("case", FALSE), When(Not(At({"KwCasex", "KwCasez"})), <<Let("case", TRUE)>>), Bump>>
      \o Condition \o
    <<Let("inside", FALSE),
      When(AllOf(<<Saved("case"), At({"KwInside"})>>), <<Bump, Let("inside", TRUE)>>),
      If(At({"KwMatches"}),
         <<Bump, While(Not(At({"KwEndcase", "Eof"})),
                 <<Mark, If(At({"KwDefault"}), CaseDefault, CasePattern),
                   When(Idle, <<Bump>>)>>)>>,
         <<While(Not(At({"KwEndcase", "Eof"})),
                 <<If(At({"KwDefault"}), CaseDefault, CaseItem)>>)>>),
      Expect("KwEndcase")>>

--------------------------------------------------------------------------------
\* for ( declarations or assignments ; condition ; steps ) body
ForInit ==
    <<Let("var", FALSE),
      When(At({"KwVar", "KwConst"}),
           <<Bump, Let("var", TRUE),
             When(AllOf(<<Ctx("strict"), At({"LBracket", "KwSigned", "KwUnsigned"})>>),
                  <<Error>>)>>),
      Switch(<<
        <<AnyOf(<<Saved("var"), At(DataTypeKeyword),
                  AllOf(<<At(PlainName), Ahead(1, PlainName \cup {"DoubleColon", "Hash"})>>)>>),
          <<Call("parse_data_type"), Call("parse_identifier"), Expect("Assign"), Expr(0),
            Let("declared", TRUE)>>>>,
        <<AllOf(<<Saved("declared"), At(PlainName), Ahead(1, {"Assign"})>>),
          <<Call("parse_identifier"), Expect("Assign"), Expr(0)>>>> >>,
        <<Expr(0), Expect("Assign"), Expr(0)>>)>>
ForStep ==
    <<Call("parse_lvalue_or_expr"),
      When(At(AssignOps \cup ArithAssignOps), <<Bump, Expr(0)>>)>>
parse_for_statement ==
    <<Expect("KwFor"), Expect("LParen"), Let("declared", FALSE),
      When(Not(At({"Semicolon"})), <<CommaList(ForInit)>>),
      Expect("Semicolon"), When(Not(At({"Semicolon"})), <<Expr(0)>>),
      Expect("Semicolon"), When(Not(At({"RParen"})), <<CommaList(ForStep)>>),
      Expect("RParen"), Call("parse_statement")>>

parse_foreach_statement ==
    <<Expect("KwForeach"), Expect("LParen"), Call("parse_hierarchical_identifier"),
      Expect("LBracket"),
      Loop(<<BreakIf(At({"RBracket"})),
             When(Not(At({"Comma"})), <<Call("parse_identifier")>>),
             EatOrBreak("Comma")>>),
      Expect("RBracket"), Expect("RParen"), Call("parse_statement")>>

parse_while_statement == <<Expect("KwWhile")>> \o Condition \o <<Call("parse_statement")>>
parse_do_while_statement ==
    <<Expect("KwDo"), Call("parse_statement"), Expect("KwWhile")>> \o Condition
      \o <<Expect("Semicolon")>>
parse_repeat_statement == <<Expect("KwRepeat")>> \o Condition \o <<Call("parse_statement")>>

\* a = #d b, a = @(e) b, a = repeat (n) @(e) b: the timing is dropped.
skip_intra_assignment_timing ==
    <<Switch(<<
        <<At({"KwRepeat"}),
          <<Bump, When(At({"LParen"}), <<Bump, Expr(0), Expect("RParen")>>),
            When(At({"At"}), <<Call("parse_event_control")>>)>>>>,
        <<At({"At"}), <<Call("parse_event_control")>>>>,
        <<At({"Hash"}),
          <<Bump,
            If(At({"LParen"}),
               <<Bump, Expr(0), Call("parse_mintypmax_rest"), Expect("RParen")>>,
               <<Bump>>)>>>> >>, <<>>)>>

parse_event_control ==
    <<Expect("At"),
      Switch(<<
        <<At({"Star"}), <<Bump>>>>,
        <<At({"LParen"}),
          <<Bump, If(At({"Star"}), <<Bump>>, <<Call("parse_event_expression_list")>>),
            Expect("RParen")>>>> >>,
        <<Call("parse_hierarchical_identifier_expr")>>)>>

parse_event_expression_list ==
    <<Call("parse_event_expression_term"),
      While(At({"KwOr", "Comma"}), <<Bump, Call("parse_event_expression_term")>>)>>

\* A parenthesis is first tried as a group of events; one event without an
\* edge is an operand after all, and the text is read again.
parse_event_expression_term ==
    <<When(At({"LParen"}),
        <<Mark, Bump, Call("parse_event_expression_list"),
          Let("closed", FALSE), When(At({"RParen"}), <<Bump, Let("closed", TRUE)>>),
          When(AllOf(<<Saved("closed"), Clean, Look("event_group")>>), <<Return>>),
          Rewind, Retract, Discard>>),
      Let("edge", FALSE), When(At(EdgeKeyword), <<Bump, Let("edge", TRUE)>>),
      Expr(0),
      If(Look("iff_expression"), <<Let("edge", TRUE)>>,
         <<When(At({"KwIff"}), <<Bump, Expr(0), Let("edge", TRUE)>>)>>),
      Discard, If(Saved("edge"), <<Leaf("EdgeEvent")>>, <<Leaf("Event")>>)>>

skip_restrict_property ==
    <<Bump, Expect("KwProperty"), When(At({"LParen"}), SkipParens), Expect("Semicolon")>>

\* assert, assume, cover, expect: the body is read in the sequence context,
\* which its clock, its guard and its action statements are not.
DeferredAssertion == When(At({"Hash"}), <<Bump, If(At({"LParen"}), SkipParens, <<Bump>>)>>)
DisableGuard ==
    When(AllOf(<<At({"KwDisable"}), Ahead(1, {"KwIff"})>>),
         <<Bump, Bump, Eat("LParen"), Expr(0), Eat("RParen")>>)
parse_assertion_statement ==
    <<Let("cover", FALSE), When(At({"KwCover"}), <<Let("cover", TRUE)>>), Bump,
      Eat("KwFinal"), DeferredAssertion,
      If(AllOf(<<Saved("cover"), At({"KwSequence"})>>), <<Bump>>, <<Eat("KwProperty")>>),
      Expect("LParen"),
      When(At({"At"}), <<Bump, Call("parse_sva_clock_event")>>),
      DisableGuard,
      Save("in_sva_seq"), Set("in_sva_seq", TRUE), Expr(0), Restore("in_sva_seq"),
      When(Look("match_assignment"), <<Error>>),
      Expect("RParen"),
      If(At({"Semicolon", "KwElse"}), <<Eat("Semicolon")>>, <<Call("parse_statement")>>),
      OptStatement("KwElse"), Eat("Semicolon")>>

--------------------------------------------------------------------------------
parse_randcase ==
    <<Expect("KwRandcase"),
      While(Not(At({"KwEndcase", "Eof"})),
            <<Expr(0), Expect("Colon"), Call("parse_statement")>>),
      Expect("KwEndcase")>>

\* randsequence: what is not a production is passed over, token by token.
ProductionPorts ==
    <<Bump,
      While(Not(At({"RParen", "Eof"})),
            <<When(At(PortDirection), <<Bump>>),
              When(At(DataTypeKeyword), <<Call("parse_data_type")>>),
              If(At(PlainName), <<Call("parse_identifier"), EatOrBreak("Comma")>>, <<Bump>>)>>),
      Expect("RParen")>>
parse_randsequence ==
    <<Expect("KwRandsequence"),
      When(At({"LParen"}), <<Bump, Call("parse_identifier"), Expect("RParen")>>),
      While(Not(At({"KwEndsequence", "Eof"})),
            <<If(AllOf(<<At(DataTypeKeyword), Ahead(1, PlainName)>>),
                 <<Call("parse_data_type")>>, <<Eat("KwVoid")>>),
              If(At(PlainName),
                 <<Call("parse_identifier"), When(At({"LParen"}), ProductionPorts),
                   When(At({"Colon"}), <<Bump, Call("parse_rs_alt")>>), Eat("Semicolon")>>,
                 <<Bump>>)>>),
      Expect("KwEndsequence")>>

\* Alternatives with weights; a weight stops before the `|` that follows it.
parse_rs_alt ==
    <<Loop(<<Call("parse_rs_seq"), When(At({"ColonAssign"}), <<Bump, Expr(19)>>),
             EatOrBreak("BitOr")>>)>>
parse_rs_seq ==
    <<While(Not(At({"BitOr", "Semicolon", "KwEndsequence", "ColonAssign", "Eof", "RParen",
                    "RBrace", "KwEndcase", "KwElse"})),
            <<Call("parse_rs_prod")>>)>>
RsCase ==
    <<Bump>> \o Condition \o
    <<While(Not(At({"KwEndcase", "Eof"})),
            <<If(At({"KwDefault"}), <<Bump, Eat("Colon")>>,
                 <<CommaList(<<Expr(0)>>), Expect("Colon")>>),
              Call("parse_rs_alt"), Eat("Semicolon")>>),
      Expect("KwEndcase")>>
parse_rs_prod ==
    <<Switch(<<
        <<At({"LBrace"}),
          <<Bump, While(Not(At({"RBrace", "Eof"})), <<Call("parse_statement")>>),
            Expect("RBrace")>>>>,
        <<At({"KwIf"}),
          <<Bump>> \o Condition
            \o <<Call("parse_rs_alt"), When(At({"KwElse"}), <<Bump, Call("parse_rs_alt")>>)>>>>,
        <<At({"KwCase"}), RsCase>>,
        <<At({"KwRepeat"}), <<Bump>> \o Condition \o <<Call("parse_rs_alt")>>>>,
        <<At({"KwRand"}),
          <<Bump, Eat("KwJoin"), When(At({"LParen"}), SkipParens), Call("parse_rs_seq")>>>>,
        <<At({"KwReturn"}),
          <<Bump, When(Not(At({"Semicolon", "BitOr"})), <<Expr(0)>>)>>>>,
        <<At(PlainName),
          <<Call("parse_identifier"),
            When(At({"LParen"}), <<Bump, ClosedList("RParen", <<Expr(0)>>), Expect("RParen")>>)>>>> >>,
        <<Bump>>)>>

--------------------------------------------------------------------------------
\* parse/lets.rs.  What the names stand for is left out; the scopes they are
\* kept in are counted.
type_name_then_dims == Look("type_name_then_dims")
parse_let_port_list ==
    <<When(At({"LParen"}),
      <<Bump,
        ClosedList("RParen", <<
          Switch(<<
            <<At({"KwUntyped"}), <<Bump>>>>,
            <<At({"LBracket"}), <<Call("parse_packed_dimensions")>>>>,
            <<AnyOf(<<At(DataTypeKeyword),
                      AllOf(<<At(PlainName),
                              AnyOf(<<Ahead(1, PlainName \cup {"DoubleColon", "Hash"}),
                                      AllOf(<<Ahead(1, {"LBracket"}),
                                              type_name_then_dims>>)>>)>>)>>),
              <<Call("parse_data_type")>>>> >>, <<>>)>> \o Declarator),
        Expect("RParen")>>)>>
parse_let_declaration ==
    <<Expect("KwLet"), Call("parse_identifier"), Call("parse_let_port_list"),
      Expect("Assign"), Add("let_scopes"), Expr(0), Sub("let_scopes"), Expect("Semicolon")>>
===============================================================================
