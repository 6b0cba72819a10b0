--------------------------- MODULE ParserDeclarations ---------------------------
(***************************************************************************)
(* Parameters, typedefs, imports, subroutines and package items            *)
(* (parse/declarations.rs), and classes, covergroups and constraints.      *)
(***************************************************************************)
EXTENDS ParserStatements

\* What begins the next declaration of a parameter list rather than the next
\* name of this one.
NextParameter ==
    (DataTypeKeyword \ {"KwSigned", "KwUnsigned", "KwInterface"})
      \cup {"KwParameter", "KwLocalparam", "KwType"}

parse_parameter_port_list ==
    <<When(At({"Hash"}),
      <<Bump, When(At({"LParen"}),
        <<Bump,
          ClosedList("RParen", <<
            When(AllOf(<<Ctx("strict"), At({"LBracket", "KwSigned", "KwUnsigned"})>>), <<Error>>),
            Call("parse_parameter_declaration")>>),
          Expect("RParen")>>)>>)>>

TypeParameters ==
    <<Bump,
      Loop(<<Call("parse_identifier"),
             When(AllOf(<<Ctx("sv2023"), At({"KwExtends"})>>), <<Bump, Call("parse_identifier")>>),
             When(At({"Assign"}), <<Bump, Call("parse_data_type")>>),
             If(AllOf(<<At({"Comma"}), Not(Ahead(1, NextParameter))>>), <<Bump>>, <<Break>>)>>)>>
looks_like_parameter_type_reference ==
    AllOf(<<At(Name), Ahead(1, Name \cup {"DoubleColon", "Hash", "LBracket"})>>)
\* The names of one declaration: a comma before a type or a keyword opens the next one.
ParameterNames ==
    <<Loop(Declarator \o <<
        BreakIf(AnyOf(<<Not(At({"Comma"})), Ahead(1, NextParameter),
                        AllOf(<<Ahead(1, Name), Ahead(2, Name \cup {"DoubleColon"})>>)>>)),
        Bump>>)>>
parse_parameter_declaration ==
    <<When(At({"KwParameter", "KwLocalparam"}), <<Bump>>),
      When(At({"KwType"}), TypeParameters \o <<Return>>),
      Switch(<<
        <<AnyOf(<<At(DataTypeKeyword), looks_like_parameter_type_reference>>),
          <<Call("parse_data_type")>>>>,
        <<At({"LBracket"}), <<Call("parse_packed_dimensions")>>>> >>, <<>>)>> \o ParameterNames
parse_parameter_decl_stmt == <<Call("parse_parameter_declaration"), Expect("Semicolon")>>

\* Forward declarations of a class, a struct, union or enum, or just a name.
parse_typedef_declaration ==
    <<Expect("KwTypedef"),
      Switch(<<
        <<AnyOf(<<At({"KwClass"}),
                  AllOf(<<At({"KwStruct", "KwUnion", "KwEnum"}), Ahead(1, Name),
                          Ahead(2, {"Semicolon"})>>)>>),
          <<Bump, Call("parse_identifier")>>>>,
        <<AllOf(<<At(Name), Ahead(1, {"Semicolon"})>>), <<Call("parse_identifier")>>>> >>,
        <<Call("parse_data_type"), Call("parse_identifier"), Call("parse_unpacked_dimensions")>>),
      Expect("Semicolon")>>

PackageMember == If(At({"Star"}), <<Bump>>, <<Call("parse_identifier")>>)
parse_import_declaration ==
    <<Expect("KwImport"),
      CommaList(<<Call("parse_identifier"), Expect("DoubleColon"), PackageMember>>),
      Expect("Semicolon")>>

DpiPrototype ==
    <<When(AllOf(<<At(PlainName), Ahead(1, {"Assign"})>>), <<Bump, Bump>>),
      If(At({"KwFunction"}), <<Call("parse_function_prototype")>>,
         <<Call("parse_task_prototype")>>)>>
parse_dpi_import ==
    <<Expect("KwImport"), Expect("StringLiteral"),
      When(At({"KwContext", "KwPure"}), <<Bump>>)>> \o DpiPrototype
parse_dpi_export == <<Expect("KwExport"), Expect("StringLiteral")>> \o DpiPrototype

parse_timeunits_declaration ==
    <<Switch(<<
        <<At({"KwTimeunit"}), <<Bump, Bump, When(At({"Slash"}), <<Bump, Bump>>)>>>>,
        <<At({"KwTimeprecision"}), <<Bump, Bump>>>> >>, <<>>),
      Expect("Semicolon")>>

parse_data_declaration ==
    <<Eat("KwConst"), Let("var", FALSE), When(At({"KwVar"}), <<Bump, Let("var", TRUE)>>),
      parse_optional_lifetime,
      When(Not(AllOf(<<Saved("var"), At(PlainName),
                       Ahead(1, {"Semicolon", "Comma", "Assign"})>>)),
           <<Call("parse_data_type")>>)>> \o DeclareVars

--------------------------------------------------------------------------------
(***************************************************************************)
(* Functions and tasks.                                                    *)
(***************************************************************************)
SubroutineHead(k) ==
    <<Expect(k), Call("parse_optional_method_specifier"), parse_optional_lifetime>>
\* Ports declared in the body of a constructor are an error; the body is a
\* let scope.
SubroutineBody(end) ==
    <<Add("let_scopes"),
      While(Not(At({end, "Eof"})),
            <<If(At(PortDirection), <<Call("parse_tf_body_ports")>>,
                 <<Call("parse_block_item")>>)>>),
      Sub("let_scopes"), Expect(end), Call("parse_end_label")>>
\* new(default): the arguments of the base class's constructor.
eat_default_constructor_args ==
    AllOf(<<Behind(1, {"KwNew"}), Ctx("sv2023"), At({"LParen"}), Ahead(1, {"KwDefault"}),
            Ahead(2, {"RParen"})>>)

parse_function_declaration ==
    <<Eat("KwVirtual")>> \o SubroutineHead("KwFunction") \o
    <<Call("parse_function_return_type"), Call("parse_method_name"),
      Let("new", FALSE), When(Behind(1, {"KwNew"}), <<Let("new", TRUE)>>),
      If(eat_default_constructor_args, <<Bump, Bump, Bump>>, <<Call("parse_function_ports")>>),
      Expect("Semicolon")>> \o SubroutineBody("KwEndfunction") \o
    <<When(AllOf(<<Ctx("strict"), Saved("new"), Look("built")>>), <<Error>>)>>

parse_tf_body_ports ==
    <<parse_optional_direction, Eat("KwVar"),
      Switch(<<
        <<AnyOf(<<At(DataTypeKeyword),
                  AllOf(<<At(PlainName), Ahead(1, PlainName \cup {"Hash", "DoubleColon"})>>)>>),
          <<Call("parse_data_type")>>>>,
        <<At({"LBracket"}), <<Call("parse_packed_dimensions")>>>> >>, <<>>),
      Discard,
      Loop(<<BreakIf(Not(At(Name))), Leaf("Port"), Call("parse_identifier"),
             Call("parse_unpacked_dimensions"),
             When(At({"Assign"}), <<Bump, Expr(0), Drop>>), EatOrBreak("Comma")>>),
      Eat("Semicolon")>>

parse_task_declaration ==
    <<Eat("KwVirtual")>> \o SubroutineHead("KwTask") \o
    <<Call("parse_method_name"), Call("parse_function_ports"), Expect("Semicolon")>>
      \o SubroutineBody("KwEndtask")

parse_method_name ==
    <<ScopeMember, While(At({"DoubleColon"}), <<Bump, ScopeMember>>)>>

\* A scoped name is the return type unless it is the method's own name.
parse_function_return_type ==
    <<Switch(<<
        <<AnyOf(<<At(DataTypeKeyword \cup {"KwVirtual"}),
                  AllOf(<<At(PlainName),
                          AnyOf(<<Ahead(1, PlainName \cup {"Hash", "LBracket"}),
                                  AllOf(<<Ahead(1, {"DoubleColon"}), Not(Ahead(2, {"KwNew"})),
                                          Not(Look("scoped_name_is_the_method_name"))>>)>>)>>)>>),
          <<Call("parse_data_type")>>>>,
        <<At({"LBracket"}), <<Call("parse_packed_dimensions")>>>> >>, <<>>)>>

parse_function_prototype ==
    <<Eat("KwVirtual")>> \o SubroutineHead("KwFunction") \o
    <<Call("parse_function_return_type"), Call("parse_method_name"),
      If(eat_default_constructor_args, <<Bump, Bump, Bump>>, <<Call("parse_prototype_ports")>>),
      Expect("Semicolon")>>
parse_task_prototype ==
    SubroutineHead("KwTask")
      \o <<Call("parse_method_name"), Call("parse_prototype_ports"), Expect("Semicolon")>>

param_type_start ==
    AnyOf(<<AllOf(<<At(DataTypeKeyword), Not(Ahead(1, {"Tick"}))>>),
            AllOf(<<At({"KwVirtual"}), Ahead(1, PlainName \cup {"KwInterface"})>>)>>)
parse_param_value ==
    <<If(param_type_start, <<Call("parse_data_type")>>, <<Expr(0)>>)>>
\* #( values ), #value, or the ports of an instance when there is no `#`.
parse_param_args ==
    <<Let("hash", FALSE), When(At({"Hash"}), <<Bump, Let("hash", TRUE)>>),
      When(AllOf(<<Saved("hash"), At(Numeral)>>), <<Call("parse_param_value"), Return>>),
      When(At({"LParen"}),
        <<Bump, When(Saved("hash"), <<Call("check_param_list_form")>>),
          ClosedList("RParen", <<
            If(At({"Dot"}),
               <<Bump, Call("parse_identifier"), Expect("LParen"),
                 If(At({"RParen"}), <<Bump>>,
                    <<Call("parse_param_value"), Expect("RParen")>>)>>,
               <<Call("parse_param_value")>>)>>),
          Expect("RParen")>>)>>

\* A prototype may leave a port without a name.
parse_prototype_ports ==
    <<Save("prototype_ports"), Set("prototype_ports", TRUE),
      Call("parse_function_ports"), Restore("prototype_ports")>>

PortPrefix ==
    <<Let("var", FALSE), When(At({"KwVar"}), <<Bump, Let("var", TRUE)>>), Eat("KwConst"),
      When(AllOf(<<Not(Saved("var")), At({"KwVar"})>>), <<Bump, Let("var", TRUE)>>),
      parse_optional_direction,
      When(AllOf(<<Not(Saved("var")), At({"KwVar"})>>), <<Bump>>)>>
VirtualPort ==
    <<Bump, Eat("KwInterface"), Call("parse_identifier"),
      When(At({"Hash"}), <<Call("parse_param_args")>>), OptModport>> \o Declarator
\* name[$] and name[d] without a name after them are ports, not types.
NamedPort ==
    AllOf(<<At(PlainName), Ahead(1, {"LBracket"}),
            AnyOf(<<AllOf(<<Ahead(2, {"Dollar"}), Ahead(3, {"RBracket"})>>),
                    Not(Look("dims_then_name"))>>)>>)
TypedPort ==
    <<Let("typed", FALSE),
      Switch(<<
        <<At({"KwSigned", "KwUnsigned"}), <<Call("parse_data_type")>>>>,
        <<AnyOf(<<At(DataTypeKeyword),
                  AllOf(<<At(PlainName),
                          Ahead(1, PlainName \cup {"Hash", "DoubleColon", "LBracket"})>>)>>),
          <<Call("parse_data_type"), Let("typed", TRUE)>>>>,
        <<At({"LBracket"}), <<Call("parse_packed_dimensions")>>>> >>, <<>>),
      When(Not(AllOf(<<Ctx("prototype_ports"), At({"RParen", "Comma", "LBracket"}),
                       Saved("typed")>>)),
           <<Call("parse_identifier")>>),
      Call("parse_unpacked_dimensions"), OptInit>>
parse_function_ports ==
    <<When(At({"LParen"}),
      <<Bump,
        ClosedList("RParen", PortPrefix \o <<
          Switch(<<
            <<AllOf(<<At({"KwVirtual"}), Ahead(1, PlainName \cup {"KwInterface"})>>),
              VirtualPort>>,
            <<NamedPort, Declarator>> >>, TypedPort)>>),
        Expect("RParen")>>)>>

--------------------------------------------------------------------------------
(***************************************************************************)
(* Package items: a token that begins none of them is left to the caller,  *)
(* who finds the leaf None.                                                *)
(***************************************************************************)
PackageExport ==
    <<Bump, CommaList(<<PackageMember, Expect("DoubleColon"), PackageMember>>),
      Expect("Semicolon")>>
PackageData ==
    <<  <<At(DataTypeKeyword \cup PlainName \cup {"KwVirtual", "KwVar", "KwConst"}),
          <<Call("parse_data_declaration")>>>>,
        <<At({"Directive", "UndefinedMacro", "ClosingDirective"}),
          <<Bump, Call("parse_package_item"), Return>>>>,
        <<At({"Semicolon"}), <<Bump>>>> >>
parse_package_item ==
    <<Switch(<<
        <<At({"KwTimeunit", "KwTimeprecision"}), <<Call("parse_timeunits_declaration")>>>>,
        <<At({"KwParameter", "KwLocalparam"}), <<Call("parse_parameter_decl_stmt")>>>>,
        <<At({"KwTypedef"}), <<Call("parse_typedef_declaration")>>>>,
        <<At({"KwFunction"}), <<Call("parse_function_declaration")>>>>,
        <<At({"KwTask"}), <<Call("parse_task_declaration")>>>>,
        <<At({"KwImport"}),
          <<If(Ahead(1, {"StringLiteral"}), <<Call("parse_dpi_import")>>,
               <<Call("parse_import_declaration")>>)>>>>,
        <<At({"KwExport"}),
          <<If(Ahead(1, {"StringLiteral"}), <<Call("parse_dpi_export")>>, PackageExport)>>>>,
        <<AnyOf(<<At({"KwClass"}),
                  AllOf(<<At({"KwInterface", "KwVirtual"}), Ahead(1, {"KwClass"})>>)>>),
          <<Call("parse_class_declaration")>>>>,
        <<At({"KwCovergroup"}), <<Call("parse_covergroup_declaration")>>>>,
        <<At({"KwChecker", "KwLet", "KwProperty", "KwSequence", "KwNettype"}
               \cup NetTypeKeyword),
          <<Call("parse_module_item"), Discard>>>>,
        <<At({"KwExtern"}),
          <<Bump,
            Switch(<<
              <<At({"KwFunction"}), <<Call("parse_function_prototype")>>>>,
              <<At({"KwTask"}), <<Call("parse_task_prototype")>>>> >>,
              <<Call("parse_package_item"), Return>>)>>>>,
        <<AllOf(<<At({"KwVirtual"}), Ahead(1, {"KwFunction"})>>),
          <<Call("parse_function_declaration")>>>>,
        <<AllOf(<<At({"KwVirtual"}), Ahead(1, {"KwTask"})>>), <<Call("parse_task_declaration")>>>> >>
        \o PackageData, <<Leaf("None"), Return>>),
      Leaf("Item")>>
-----------------------------------------------------------------------------
(* Classes, covergroups and constraints: parse/items.rs, from line 4949.  The *)
(* checks that compare the names of classes are left out.                     *)

ScopedName ==
    <<Call("parse_identifier"), While(At({"DoubleColon"}), <<Bump, Call("parse_identifier")>>)>>
\* The first base class may be given (default), the others may not.
BaseArguments ==
    Switch(<<
      <<AllOf(<<Ctx("sv2023"), At({"LParen"}), Ahead(1, {"KwDefault"}), Ahead(2, {"RParen"})>>),
        <<Bump, Bump, Bump>>>>,
      <<At({"Hash", "LParen"}), <<Call("parse_param_args")>>>> >>, <<>>)
ClassBases ==
    <<When(At({"KwExtends"}),
        <<Bump>> \o ScopedName \o <<BaseArguments,
          While(At({"Comma"}),
                <<Bump>> \o ScopedName
                  \o <<When(At({"Hash", "LParen"}), <<Call("parse_param_args")>>)>>)>>),
      When(At({"KwImplements"}),
        <<Bump, CommaList(ScopedName \o <<When(At({"Hash"}), <<Call("parse_param_args")>>)>>)>>)>>

\* The pure constraints of a class are kept while its items are read; one in
\* a class that is not abstract is an error, reported at the end of the text.
\* The members of a class, with the pure constraints it may own only if it is virtual.
ClassBody ==
    <<Expect("Semicolon"), Save("pure_constraints"), Drain("pure_constraints"), Add("let_scopes"),
      While(Not(At({"KwEndclass", "Eof"})), <<Call("parse_class_item")>>),
      Sub("let_scopes"),
      When(AllOf(<<Some("pure_constraints"), Not(Saved("abstract"))>>), <<Add("impure_classes")>>),
      Restore("pure_constraints"), Expect("KwEndclass"), Call("parse_end_label")>>
parse_class_declaration ==
    <<Let("abstract", FALSE),
      When(AnyOf(<<At({"KwVirtual"}), AllOf(<<At({"KwClass"}), Behind(1, {"KwVirtual"})>>)>>),
           <<Let("abstract", TRUE), Eat("KwVirtual")>>),
      When(AnyOf(<<At({"KwInterface"}), AllOf(<<At({"KwClass"}), Behind(1, {"KwInterface"})>>)>>),
           <<Let("abstract", TRUE), Eat("KwInterface")>>),
      Expect("KwClass"),
      When(AllOf(<<Ctx("sv2023"), At({"Colon"}), Ahead(1, {"KwFinal"})>>), <<Bump, Bump>>),
      parse_optional_lifetime, Call("parse_identifier"), Call("parse_parameter_port_list")>>
      \o ClassBases \o ClassBody

Qualifiers ==
    <<Let("pure", FALSE), Let("extern", FALSE),
      Loop(<<Switch(<<
        <<At({"KwStatic", "KwProtected", "KwLocal", "KwRand", "KwRandc", "KwConst"}), <<Bump>>>>,
        <<At({"KwPure"}), <<Bump, Let("pure", TRUE), Eat("KwVirtual")>>>>,
        <<At({"KwVirtual"}), <<Bump, When(At({"KwPure"}), <<Bump, Let("pure", TRUE)>>)>>>>,
        <<At({"KwExtern"}), <<Bump, Let("extern", TRUE)>>>> >>,
        <<Break>>)>>)>>
PrototypeOnly == AnyOf(<<Saved("pure"), Saved("extern")>>)
ConstraintBody ==
    <<Bump, While(Not(At({"RBrace", "Eof"})), <<Call("parse_constraint_item")>>), Expect("RBrace")>>
ClassConstraint ==
    <<Bump, Call("parse_identifier"), When(Saved("pure"), <<Add("pure_constraints")>>),
      If(At({"LBrace"}), ConstraintBody, <<Expect("Semicolon")>>)>>
ClassProperty ==
    <<If(At({"KwVar"}), <<Bump, When(is_type_start, <<Call("parse_data_type")>>)>>,
         <<Call("parse_data_type")>>)>> \o DeclareVars

parse_class_item ==
    <<When(At({"Semicolon"}), <<Bump, Return>>)>> \o Qualifiers \o
    <<Switch(<<
        <<At({"UndefinedMacro"}), <<Call("recover_undefined_macro")>>>>,
        <<At({"Directive", "ClosingDirective"}), <<Bump, Call("parse_class_item")>>>>,
        <<At({"KwFunction"}),
          <<If(PrototypeOnly, <<Call("parse_function_prototype")>>,
               <<Call("parse_function_declaration")>>)>>>>,
        <<At({"KwTask"}),
          <<If(PrototypeOnly, <<Call("parse_task_prototype")>>,
               <<Call("parse_task_declaration")>>)>>>>,
        <<At({"KwConstraint"}), ClassConstraint>>,
        <<At({"KwTypedef"}), <<Call("parse_typedef_declaration")>>>>,
        <<At({"KwParameter", "KwLocalparam"}), <<Call("parse_parameter_decl_stmt")>>>>,
        <<At({"KwClass"}), <<Call("parse_class_declaration")>>>>,
        <<At({"KwCovergroup"}), <<Call("parse_covergroup_declaration")>>>>,
        <<At({"KwImport"}), <<Call("parse_import_declaration")>>>>,
        <<AnyOf(<<is_type_start, At({"KwVar"}),
                  AllOf(<<Ctx("sv2023"), At({"KwType"}), Ahead(1, {"LParen"})>>)>>),
          ClassProperty>> >>,
        <<Error, Bump>>)>>

--------------------------------------------------------------------------------
(***************************************************************************)
(* Covergroups.                                                            *)
(***************************************************************************)
Guard(k) == When(At({k}), <<Bump>> \o Condition)
\* iff before the body of a coverpoint or a cross: nothing is demanded of it.
IffGuard ==
    When(At({"KwIff"}), <<Bump, When(At({"LParen"}), <<Bump, Expr(0), Eat("RParen")>>)>>)
skip_bin_body_to_semicolon == Skip("bin_body")
BinKeyword == {"KwBins", "KwIgnore_bins", "KwIllegal_bins"}

parse_trans_set ==
    <<Loop(<<
        Discard, Call("parse_constraint_range"),
        While(At({"Comma"}), <<Bump, Call("parse_constraint_range")>>),
        When(AllOf(<<Not(Result({"$sva_rep"})), At({"LBracket"})>>),
             <<Bump,
               If(At({"Star", "Arrow", "Assign"}),
                  <<Bump, Expr(0), When(At({"Colon"}), <<Bump, Expr(0)>>)>>, <<Error>>),
               Expect("RBracket")>>),
        EatOrBreak("FatArrow")>>)>>

parse_cross_select_or ==
    <<Call("parse_cross_select_and"),
      While(At({"LogOr"}), <<Bump, Call("parse_cross_select_and")>>)>>
parse_cross_select_and ==
    <<Call("parse_cross_select_with"),
      While(At({"LogAnd"}), <<Bump, Call("parse_cross_select_with")>>)>>
parse_cross_select_with ==
    <<Call("parse_cross_select_primary"),
      While(At({"KwWith"}),
            <<Bump>> \o Condition \o <<When(At({"KwMatches"}), <<Bump, Expr(0)>>)>>)>>
parse_cross_select_primary ==
    <<Switch(<<
        <<At({"LogNot"}), <<Bump, Call("parse_cross_select_primary")>>>>,
        <<At({"LParen"}), <<Bump, Call("parse_cross_select_or"), Expect("RParen")>>>>,
        <<At({"KwBinsof"}),
          <<Bump, Expect("LParen"), Call("parse_identifier"), OptModport, Expect("RParen"),
            When(At({"KwIntersect"}),
                 <<Bump, Expect("LBrace"),
                   ClosedList("RBrace", <<Call("parse_constraint_range")>>),
                   Expect("RBrace")>>)>>>>,
        <<At(PlainName), <<Bump>>>> >>,
        <<Error>>)>>

parse_covergroup_declaration ==
    <<Bump, Call("parse_identifier"), When(At({"LParen"}), <<Call("parse_function_ports")>>),
      When(At({"At"}), <<Call("parse_event_control")>>),
      When(At({"KwWith"}),
           <<Bump, Expect("KwFunction"), Call("parse_identifier"),
             When(At({"LParen"}), <<Call("parse_function_ports")>>)>>),
      Expect("Semicolon"),
      While(Not(At({"KwEndgroup", "Eof"})), <<Call("parse_covergroup_item")>>),
      Expect("KwEndgroup"), Call("parse_end_label")>>

\* The values of a bin: a set, default, transitions, or text that is skipped.
BinValues ==
    <<Switch(<<
        <<At({"LBrace"}),
          <<Bump, While(Not(At({"RBrace", "Eof"})),
                        <<Call("parse_constraint_range"), Eat("Comma")>>),
            Eat("RBrace")>>>>,
        <<At({"KwDefault"}), <<Bump>>>>,
        <<At({"LParen"}),
          <<Loop(<<Expect("LParen"), Call("parse_trans_set"), Expect("RParen"),
                   BreakIf(Not(AllOf(<<At({"Comma"}), Ahead(1, {"LParen"})>>))), Bump>>)>>>> >>,
        <<skip_bin_body_to_semicolon>>),
      Guard("KwWith"), Guard("KwIff")>>
CoverBin ==
    <<Bump,
      If(At(PlainName),
         <<Call("parse_identifier"),
           When(At({"LBracket"}),
                <<Bump, When(Not(At({"RBracket"})), <<Expr(0)>>), Expect("RBracket")>>),
           If(At({"Assign"}), <<Bump>> \o BinValues, <<skip_bin_body_to_semicolon>>)>>,
         <<Error, skip_bin_body_to_semicolon>>),
      Eat("Semicolon")>>
CoverOption ==
    <<Bump,
      When(At({"Dot"}),
           <<Bump, Call("parse_identifier"), When(At({"Assign"}), <<Bump, Expr(0)>>)>>),
      Eat("Semicolon")>>
CoverpointItem ==
    <<Bump, When(Ctx("sv2023"), <<Eat("KwReal")>>), Expr(0), IffGuard,
      If(At({"LBrace"}),
         <<Bump,
           While(Not(At({"RBrace", "Eof"})),
                 <<Eat("KwWildcard"),
                   Switch(<< <<At(BinKeyword), CoverBin>>, <<At({"option"}), CoverOption>> >>,
                          <<Bump>>)>>),
           Eat("RBrace")>>,
         <<Expect("Semicolon")>>)>>

\* A bin of a cross is a select expression or a list of tuples, each with a
\* value for every item of the cross.
CrossBin ==
    <<Bump,
      If(At(PlainName),
         <<Call("parse_identifier"), Expect("Assign"),
           If(At({"ApostropheLBrace"}),
              <<Expr(0), When(Look("bad_tuples"), <<Error>>), Drop>>,
              <<Call("parse_cross_select_or")>>),
           When(At({"KwIff"}), <<Bump, Expect("LParen"), Expr(0), Drop, Expect("RParen")>>),
           Expect("Semicolon")>>,
         <<Error, skip_bin_body_to_semicolon, Eat("Semicolon")>>)>>
CrossOption ==
    <<Bump, Bump, Call("parse_identifier"), When(At({"Assign"}), <<Bump, Expr(0), Drop>>),
      Eat("Semicolon")>>
CrossItem ==
    <<Bump, CommaList(<<Leaf("CrossItem"), Call("parse_identifier")>>),
      When(At({"KwIff"}),
           <<Bump, When(At({"LParen"}), <<Bump, Expr(0), Drop, Eat("RParen")>>)>>),
      If(At({"LBrace"}),
         <<Bump,
           Loop(<<
             BreakIf(At({"Eof"})), When(At({"RBrace"}), <<Bump, Break>>),
             Switch(<<
               <<At(BinKeyword), CrossBin>>,
               <<AllOf(<<At({"option"}), Ahead(1, {"Dot"})>>), CrossOption>>,
               <<At({"LBrace"}), <<Bump, Balanced("LBrace", "RBrace"), Eat("RBrace")>>>> >>,
               <<Bump>>)>>)>>,
         <<Expect("Semicolon")>>)>>

OptionItem ==
    <<Bump, Expect("Dot"), Call("parse_identifier"), Expect("Assign"), Expr(0), Expect("Semicolon")>>
parse_covergroup_item ==
    <<When(AllOf(<<At(PlainName), Ahead(1, {"Colon"})>>), <<Bump, Bump>>),
      Switch(<<
        <<At({"KwCoverpoint"}), CoverpointItem>>,
        <<At({"KwCross"}), CrossItem>>,
        <<At({"option"}), OptionItem>> >>,
        <<Error, Bump>>)>>

--------------------------------------------------------------------------------
(***************************************************************************)
(* Constraints.  An item is read with 1 as its argument where a brace may  *)
(* open a constraint set, and with 0 as an item of a block.                *)
(***************************************************************************)
ConstraintSet == CallWith("parse_constraint_item", 1)

\* a.b[i].size()
parse_solve_term ==
    <<Call("parse_identifier"), Let("path", FALSE),
      Loop(<<Switch(<<
        <<At({"Dot"}), <<Bump, Call("parse_identifier"), Let("path", TRUE)>>>>,
        <<At({"LBracket"}), <<Bump, Expr(0), Expect("RBracket")>>>> >>,
        <<Break>>)>>),
      When(AllOf(<<Saved("path"), At({"LParen"}), Ahead(1, {"RParen"})>>), <<Bump, Bump>>)>>
ConstraintSolve ==
    <<Bump, CommaList(<<Call("parse_solve_term")>>), Expect("KwBefore"),
      CommaList(<<Call("parse_solve_term")>>), Expect("Semicolon")>>
ConstraintForeach ==
    <<Bump, Expect("LParen"), Call("parse_hierarchical_identifier"), Expect("LBracket"),
      Loop(<<BreakIf(At({"RBracket"})),
             Switch(<< <<At(PlainName), <<Call("parse_identifier")>>>>, <<At({"Comma"}), <<>>>> >>,
                    <<Error, Bump>>),
             EatOrBreak("Comma")>>),
      Expect("RBracket"), Expect("RParen"), ConstraintSet>>
ConstraintUnique ==
    <<Bump, When(At({"LBrace"}),
                 <<Bump, ClosedList("RBrace", <<Expr(0)>>), Expect("RBrace")>>),
      Eat("Semicolon")>>
\* expression ; expression dist { } ; expression inside { } ; expression ->
\* set.  A dist read inside parentheses is taken from where it was kept.
ConstraintExpr ==
    <<Save("in_constraint"), Set("in_constraint", TRUE), Call("parse_constraint_left_expr"),
      Restore("in_constraint"),
      Switch(<<
        <<Some("paren_dist"), <<Sub("paren_dist"), Expect("Semicolon")>>>>,
        <<At({"KwDist"}), <<Bump, Call("parse_dist_body"), Expect("Semicolon")>>>>,
        <<At({"KwInside"}),
          <<Bump, Expect("LBrace"), CommaList(<<Call("parse_constraint_range")>>),
            Expect("RBrace"), Expect("Semicolon")>>>>,
        <<At({"Arrow"}), <<Bump, ConstraintSet>>>> >>,
        <<Expect("Semicolon")>>)>>

constraint_lbrace_is_block == Look("constraint_lbrace_is_block")
parse_constraint_item ==
    <<Switch(<<
        <<At({"KwSolve"}), ConstraintSolve>>,
        <<At({"KwIf"}),
          <<Bump>> \o Condition
            \o <<ConstraintSet, When(At({"KwElse"}), <<Bump, ConstraintSet>>)>>>>,
        <<At({"KwForeach"}), ConstraintForeach>>,
        <<At({"KwSoft"}), <<Bump, Call("parse_constraint_item")>>>>,
        <<At({"KwDisable"}), <<Bump, Eat("KwSoft"), Expr(0), Expect("Semicolon")>>>>,
        <<At({"KwUnique"}), ConstraintUnique>>,
        <<AllOf(<<At({"LBrace"}), Arg(1), constraint_lbrace_is_block>>), ConstraintBody>> >>,
        ConstraintExpr)>>

parse_dist_body ==
    <<Expect("LBrace"),
      CommaList(<<Call("parse_constraint_range"),
                  When(At({"ColonAssign", "ColonSlash"}), <<Bump, Expr(0)>>)>>),
      Expect("RBrace")>>

parse_constraint_range ==
    <<If(At({"LBracket"}),
         <<Bump, Expr(0), Expect("Colon"), Expr(0), Expect("RBracket"), Build("Range", 2)>>,
         <<Expr(0)>>)>>
===============================================================================
