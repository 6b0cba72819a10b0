------------------------------ MODULE ParserItems ------------------------------
(***************************************************************************)
(* Design elements and their items: parse/items.rs up to line 4928, and    *)
(* the descriptions of a source text, parse/mod.rs.  The checks that       *)
(* compare names, and what is read out of skipped text (the rows of a      *)
(* primitive, the nets of a timing check), are left out.                   *)
(***************************************************************************)
EXTENDS ParserDeclarations

StrengthKeyword ==
    {"KwSupply0", "KwSupply1", "KwStrong0", "KwStrong1", "KwPull0", "KwPull1",
     "KwWeak0", "KwWeak1", "KwHighz0", "KwHighz1", "KwStrong", "KwWeak",
     "KwSmall", "KwMedium", "KwLarge"}
OptStrength ==
    When(AllOf(<<At({"LParen"}), Ahead(1, StrengthKeyword)>>), <<Bump>> \o SkipTo({"RParen"}, "RParen"))
skip_to_semi == <<Until({"Semicolon"}), Eat("Semicolon")>>

--------------------------------------------------------------------------------
(***************************************************************************)
(* Modules, interfaces, programs and packages.  The indices of generate    *)
(* loops are collected for one element at a time.                          *)
(***************************************************************************)
parse_module_header_imports ==
    While(AllOf(<<At({"KwImport"}), Not(Ahead(1, {"StringLiteral"}))>>),
          <<Call("parse_import_declaration")>>)
ElementOf(end) ==
    <<parse_optional_lifetime, Call("parse_identifier"), parse_module_header_imports,
      Call("parse_parameter_port_list"), Call("parse_port_list"), Drain("port_exprs"),
      Expect("Semicolon"), Add("let_scopes"), Call("parse_module_items"), Sub("let_scopes"),
      Expect(end), Call("parse_end_label"), Restore("plain_loop_vars")>>
ElementStart == <<Save("plain_loop_vars"), Drain("plain_loop_vars")>>
parse_module_declaration ==
    ElementStart
      \o <<If(At({"KwMacromodule"}), <<Bump>>, <<Expect("KwModule")>>)>> \o ElementOf("KwEndmodule")
parse_interface_declaration ==
    ElementStart \o <<Expect("KwInterface")>> \o ElementOf("KwEndinterface")
parse_program_declaration ==
    ElementStart \o <<Expect("KwProgram")>> \o ElementOf("KwEndprogram")

parse_package_ooc_constraint ==
    <<Expect("KwConstraint"), Call("parse_hierarchical_identifier"), Let("class", FALSE),
      When(Result({"Hier"}), <<Let("class", TRUE)>>),
      When(At({"LBrace"}), ConstraintBody), Eat("Semicolon"),
      When(Not(Saved("class")), <<Error>>)>>
\* What is not a package item is passed over, without a report.
parse_package_declaration ==
    <<Expect("KwPackage"), parse_optional_lifetime, Call("parse_identifier"), Expect("Semicolon"),
      Add("let_scopes"),
      While(Not(At({"KwEndpackage", "Eof"})),
            <<If(At({"KwConstraint"}), <<Call("parse_package_ooc_constraint")>>,
                 <<Call("parse_package_item"), When(Result({"None"}), <<Bump>>), Discard>>)>>),
      Sub("let_scopes"), Expect("KwEndpackage"), Call("parse_end_label")>>

--------------------------------------------------------------------------------
(***************************************************************************)
(* Ports.                                                                  *)
(***************************************************************************)
AnsiPortList ==
    AnyOf(<<At(PortDirection \cup DataTypeKeyword \cup {"KwVar", "KwInterconnect", "KwInterface"}),
            AllOf(<<At(PlainName), Ahead(1, PlainName \cup {"Dot", "DoubleColon", "Hash"})>>),
            AllOf(<<At({"KwVirtual"}), Ahead(1, PlainName \cup {"KwInterface"})>>)>>)
\* A port without a direction has that of the one before it; an inout port
\* has no default.
AnsiPorts ==
    <<Let("inout", FALSE),
      ClosedList("RParen",
        <<When(At(PortDirection), <<Let("inout", FALSE)>>),
          When(At({"KwInout"}), <<Let("inout", TRUE)>>),
          Call("parse_ansi_port"),
          When(AllOf(<<Ctx("strict"), Saved("inout"), Result({"Default"})>>), <<Error>>),
          Discard>>),
      Expect("RParen")>>
\* Names, port expressions, .name(expression), and nothing between commas.
NonAnsiPort ==
    Switch(<<
      <<At({"Dot"}),
        <<Bump, Call("parse_identifier"), Expect("LParen"),
          When(Not(At({"RParen"})), <<Expr(0), Add("port_exprs")>>), Expect("RParen")>>>>,
      <<AnyOf(<<At({"LBrace"}), AllOf(<<At(PlainName), Ahead(1, {"LBracket"})>>)>>),
        <<Expr(0), Add("port_exprs")>>>> >>,
      <<Call("parse_identifier")>>)
parse_port_list ==
    <<Drain("port_exprs"),
      When(At({"LParen"}),
        <<Bump,
          Switch(<< <<At({"RParen"}), <<Bump>>>>, <<AnsiPortList, AnsiPorts>> >>,
            <<Loop(<<BreakIf(At({"RParen", "Eof"})),
                     If(At({"Comma"}), <<Bump>>, <<NonAnsiPort, EatOrBreak("Comma")>>)>>),
              Expect("RParen")>>)>>)>>

InterfacePort == <<Bump, OptModport, Let("typed", TRUE)>>
parse_ansi_port ==
    <<parse_optional_direction, Let("typed", FALSE),
      When(At({"KwWreal"}), <<Let("typed", TRUE)>>), parse_optional_net_type, Eat("KwVar"),
      Switch(<<
        <<AllOf(<<At({"KwVirtual"}), Ahead(1, PlainName \cup {"KwInterface"})>>),
          <<Bump, Eat("KwInterface"), Call("parse_identifier"), OptModport, Let("typed", TRUE)>>>>,
        <<At({"KwInterface"}), InterfacePort>>,
        <<AllOf(<<At(PlainName), Ahead(1, {"Dot"})>>), InterfacePort>>,
        <<At({"LBracket"}), <<Call("parse_packed_dimensions"), Let("typed", TRUE)>>>>,
        <<AnyOf(<<At(DataTypeKeyword),
                  AllOf(<<At(PlainName), Ahead(1, PlainName \cup {"DoubleColon", "Hash"})>>),
                  AllOf(<<At(PlainName), Ahead(1, {"LBracket"}), Look("type_name_then_dims")>>)>>),
          <<Call("parse_data_type"), Let("typed", TRUE)>>>> >>, <<>>),
      When(Saved("typed"), <<Call("parse_unpacked_dimensions")>>),
      Call("parse_identifier"), Call("parse_unpacked_dimensions"),
      If(At({"Assign"}), <<Bump, Expr(0), Leaf("Default")>>, <<Leaf("Port")>>)>>

--------------------------------------------------------------------------------
(***************************************************************************)
(* Lists of items.  A token that begins no item is reported and passed     *)
(* over; items a specify block has set aside follow it.                    *)
(***************************************************************************)
\* As if a token that begins no item were left for the next turn.
ItemsUntilKeeping(ends) ==
    <<While(Not(At(ends \cup {"Eof"})),
            <<Mark, Call("parse_module_item"),
              When(AllOf(<<Not(Idle), Result({"Item"})>>), <<Drain("pending")>>), Discard>>)>>
ItemsUntil(ends) ==
    <<While(Not(At(ends \cup {"Eof"})),
            <<Mark, Call("parse_module_item"),
              If(Idle, <<Error, Bump>>, <<When(Result({"Item"}), <<Drain("pending")>>)>>),
              Discard>>)>>
parse_module_items == ItemsUntil({"KwEndmodule", "KwEndinterface", "KwEndprogram"})
\* parse_module_items_until, for each token it is called with.
parse_module_items_until_endgenerate == ItemsUntil({"KwEndgenerate"})
parse_module_items_until_end == ItemsUntil({"KwEnd"})
parse_module_items_until_endchecker == ItemsUntil({"KwEndchecker"})

NotInGenerate == When(AllOf(<<Ctx("strict"), Some("generate_depth")>>), <<Error>>)

ItemDefparam ==
    <<Bump, Let("assigned", FALSE),
      Loop(<<Expr(0), EatOrBreak("Assign"), Expr(0), Let("assigned", TRUE), EatOrBreak("Comma")>>)>>
      \o skip_to_semi \o <<When(Not(Saved("assigned")), <<Leaf("None"), Return>>)>>
ItemSystemTask ==
    <<Bump, If(At({"LParen"}), <<Call("parse_call_args")>>, <<Until({"Semicolon"})>>),
      Expect("Semicolon")>>

\* The type of a port or a net, which may be left out.
ImplicitOrType ==
    Switch(<<
      <<AnyOf(<<At(DataTypeKeyword),
                AllOf(<<At(PlainName), Ahead(1, PlainName \cup {"DoubleColon", "Hash"})>>),
                AllOf(<<At(PlainName), Ahead(1, {"LBracket"}), Look("dims_then_identifier")>>)>>),
        <<Call("parse_data_type")>>>>,
      <<At({"LBracket"}), <<Call("parse_packed_dimensions")>>>> >>, <<>>)
ItemPort ==
    <<Let("inout", FALSE), When(At({"KwInout"}), <<Let("inout", TRUE)>>),
      parse_optional_direction, parse_optional_net_type,
      When(At({"KwVar"}), <<Bump, When(Saved("inout"), <<Error>>)>>), ImplicitOrType>>
      \o DeclareVars

\* A specparam is tried as a parameter; with anything the attempt reports,
\* it is skipped in silence instead.
ItemSpecparam ==
    <<NotInGenerate, Mark, Bump, Call("parse_parameter_declaration"),
      If(AllOf(<<At({"Semicolon"}), Clean>>), <<Bump>>,
         <<Retract, Rewind>> \o SkipTo({"Semicolon"}, "Semicolon")
           \o <<Discard, Leaf("None"), Return>>)>>

ItemAlias ==
    <<Bump, Expr(0), While(At({"Assign"}), <<Bump, Expr(0)>>), Expect("Semicolon")>>
\* Up to three delays, in parentheses or one without.
AssignDelay ==
    When(At({"Hash"}),
      <<Bump,
        If(At({"LParen"}),
           <<Bump, Expr(0),
             When(At({"Comma"}), <<Bump, Expr(0), When(At({"Comma"}), <<Bump, Expr(0)>>)>>),
             Expect("RParen")>>,
           <<Expr(0)>>)>>)
ItemAssign ==
    <<Bump, OptStrength, AssignDelay, CommaList(<<Expr(0), Expect("Assign"), Expr(0)>>),
      Expect("Semicolon")>>
ItemGenerate ==
    <<NotInGenerate, Bump, Add("generate_depth"), Call("parse_module_items_until_endgenerate"),
      Sub("generate_depth"), Expect("KwEndgenerate")>>
ItemGenvar == <<Bump, CommaList(<<Call("parse_identifier")>>), Expect("Semicolon")>>
ItemConstraint ==
    <<Bump, Call("parse_hierarchical_identifier"),
      If(At({"LBrace"}), ConstraintBody, <<Eat("Semicolon")>>)>>

ModportPort ==
    Switch(<<
      <<At({"KwClocking"}), <<Bump, Call("parse_identifier")>>>>,
      <<At({"KwImport", "KwExport"}),
        <<Bump, When(At(PlainName), <<Call("parse_identifier")>>), Until({"Comma", "RParen"})>>>> >>,
      <<parse_optional_direction,
        If(At({"Dot"}),
           <<Bump, Call("parse_identifier"), Expect("LParen"), Expr(0), Expect("RParen")>>,
           <<Call("parse_identifier")>>)>>)
ItemModport ==
    <<Bump,
      CommaList(<<Call("parse_identifier"), Expect("LParen"), ClosedList("RParen", <<ModportPort>>),
                  Expect("RParen")>>),
      Expect("Semicolon")>>

\* #1step, #(e), #number or #name; any other token is passed over.
parse_clocking_skew_value ==
    Switch(<<
      <<At({"LParen"}), <<Bump, Expr(0), Expect("RParen")>>>>,
      <<At(Numeral), <<Expr(3)>>>> >>,
      <<Bump>>)
OptSkew ==
    <<When(At(EdgeKeyword), <<Bump>>), When(At({"Hash"}), <<Bump, parse_clocking_skew_value>>)>>
ClockingDefault ==
    <<Bump, While(At({"KwInput", "KwOutput"}), <<Bump>> \o OptSkew)>> \o skip_to_semi
ClockingSignals ==
    <<parse_optional_direction>> \o OptSkew \o
    <<When(AnyOf(<<At(DataTypeKeyword), AllOf(<<At(PlainName), Ahead(1, PlainName)>>)>>),
           <<Call("parse_data_type")>>),
      CommaList(<<When(At(PlainName), <<Call("parse_identifier"), OptInit>>)>>)>> \o skip_to_semi
ItemClocking ==
    <<Bump, When(At(Name), <<Call("parse_identifier")>>),
      When(At({"At"}),
        <<Bump, When(At({"LParen"}), <<Bump, Balanced("LParen", "RParen"), Eat("RParen")>>)>>),
      Expect("Semicolon"),
      While(Not(At({"KwEndclocking", "Eof"})),
            <<Switch(<< <<At({"KwDefault"}), ClockingDefault>>,
                        <<At(PortDirection), ClockingSignals>> >>, <<Bump>>)>>),
      Expect("KwEndclocking"), When(At({"Colon"}), <<Bump, Call("parse_identifier")>>)>>

--------------------------------------------------------------------------------
(***************************************************************************)
(* Properties and sequences.  A body without a clock is an attempt: unless *)
(* it is read up to its semicolon without a report, the text is skipped.   *)
(***************************************************************************)
LocalPort ==
    <<Bump, When(At({"KwInput", "KwOutput", "KwInout"}), <<Bump>>),
      When(AllOf(<<Not(AllOf(<<At(Name), Ahead(1, {"Comma", "RParen", "Assign"})>>)),
                   is_type_start>>),
           <<Call("parse_data_type")>>)>>
parse_sva_port_names ==
    <<Bump, Let("start", TRUE),
      While(Not(At({"Eof"})),
        <<When(AllOf(<<Saved("start"), At({"KwLocal"})>>), LocalPort), Let("start", FALSE),
          Switch(<<
            <<At({"LParen", "LBracket"}), <<Bump, Skip("port_group"), When(Not(At({"Eof"})), <<Bump>>)>>>>,
            <<At({"RParen", "RBracket"}), <<Bump, Break>>>>,
            <<At({"Comma"}), <<Bump, Let("start", TRUE)>>>> >>, <<Bump>>)>>)>>

parse_sva_local_declarations ==
    <<While(AnyOf(<<is_type_start, At({"KwVar"})>>),
        <<Mark, Let("var", FALSE), When(At({"KwVar"}), <<Bump, Let("var", TRUE)>>),
          When(Not(AllOf(<<Saved("var"), At(Name), Ahead(1, {"Semicolon", "Assign", "Comma"})>>)),
               <<Call("parse_data_type")>>),
          When(Not(AnyOf(<<Saved("var"), AllOf(<<Clean, At(Name)>>)>>)),
               <<Rewind, Retract, Return>>)>> \o DeclareVars)>>

SvaHead ==
    <<Bump, Call("parse_identifier"), When(At({"LParen"}), <<Call("parse_sva_port_names")>>),
      Expect("Semicolon"), Call("parse_sva_local_declarations")>>
SvaBody == <<Set("in_sva_seq", TRUE), Expr(0), Set("in_sva_seq", FALSE)>>
\* As if only a body that is read left the sequence.
AttemptedBodyInside ==
    <<Set("in_sva_seq", TRUE), Expr(0),
      If(AllOf(<<Clean, At({"Semicolon"})>>), <<Set("in_sva_seq", FALSE), Bump>>, <<Retract, Rewind>>)>>
AttemptedBody ==
    SvaBody \o <<If(AllOf(<<Clean, At({"Semicolon"})>>), <<Bump>>, <<Retract, Rewind>>)>>
ItemProperty ==
    SvaHead \o <<Mark,
      If(At({"At"}),
         <<Bump, Call("parse_sva_clock_event"), DisableGuard>> \o SvaBody \o <<Eat("Semicolon")>>,
         <<DisableGuard, When(Not(At({"KwEndproperty"})), AttemptedBody)>>)>>
      \o SkipTo({"KwEndproperty"}, "KwEndproperty") \o <<Call("parse_end_label")>>
ItemSequence ==
    SvaHead \o <<Mark,
      If(At({"At"}),
         <<Bump, Call("parse_sva_clock_event")>> \o SvaBody \o <<Eat("Semicolon")>>,
         <<When(Not(At({"KwEndsequence"})), AttemptedBody)>>)>>
      \o SkipTo({"KwEndsequence"}, "KwEndsequence") \o <<Call("parse_end_label")>>

\* default clocking names or declares a block; default disable iff e; a
\* default of anything else is nothing.
ItemDefault ==
    <<Bump,
      Switch(<<
        <<AllOf(<<At({"KwClocking"}), Ahead(1, PlainName), Ahead(2, {"Semicolon"})>>),
          <<Bump, Call("parse_identifier"), Expect("Semicolon")>>>>,
        <<At({"KwClocking"}), <<Call("parse_module_item"), Return>>>>,
        <<At({"KwDisable"}), <<Bump, Eat("KwIff"), Expr(0), Expect("Semicolon")>>>> >>,
        <<Leaf("None"), Return>>)>>
ItemChecker ==
    <<Bump, Call("parse_identifier"), Call("parse_port_list"), Expect("Semicolon"),
      Add("let_scopes"), Call("parse_module_items_until_endchecker"), Sub("let_scopes"),
      Expect("KwEndchecker"), Call("parse_end_label")>>
ItemNettype ==
    <<Bump, Call("parse_data_type"), Call("parse_identifier"),
      When(At({"KwWith"}), <<Bump, Call("parse_identifier")>>), Expect("Semicolon")>>

--------------------------------------------------------------------------------
(***************************************************************************)
(* Generate constructs.                                                    *)
(***************************************************************************)
ItemFor ==
    <<Bump, Expect("LParen"), Let("genvar", FALSE),
      When(At({"KwGenvar"}), <<Bump, Let("genvar", TRUE)>>),
      When(At(PlainName),
           <<When(Not(Saved("genvar")), <<Add("plain_loop_vars")>>), Bump>>),
      Expect("Assign"), Expr(0), Expect("Semicolon"), Expr(0), Expect("Semicolon")>> \o ForStep
      \o <<Expect("RParen"), Call("parse_generate_branch_items_named")>>
parse_generate_if ==
    <<Bump>> \o Condition \o <<Call("parse_generate_branch_items_named"),
      While(At({"KwElse"}),
            <<Bump,
              If(At({"KwIf"}), <<Bump>> \o Condition \o <<Call("parse_generate_branch_items_named")>>,
                 <<Call("parse_generate_branch_items_named"), Break>>)>>)>>
parse_generate_case ==
    <<Bump>> \o Condition \o
    <<While(Not(At({"KwEndcase", "Eof"})),
            <<If(At({"KwDefault"}), <<Bump, Eat("Colon")>>,
                 <<CommaList(<<Expr(0)>>), Expect("Colon")>>),
              Call("parse_generate_branch_items_named")>>),
      Expect("KwEndcase")>>
\* A branch is a block, with its own lets, or one item.
parse_generate_branch_items_named ==
    <<Add("generate_depth"), Add("let_scopes")>> \o BlockPrefix \o
    <<If(At({"KwBegin"}),
         <<Bump, Let("named", FALSE), When(At({"Colon"}), <<Let("named", TRUE)>>),
           Call("parse_end_label"), Call("parse_module_items_until_end"), Expect("KwEnd")>>
           \o BlockEndLabel,
         <<Call("parse_module_item"), Discard>>),
      Sub("let_scopes"), Sub("generate_depth")>>

--------------------------------------------------------------------------------
(***************************************************************************)
(* Nets, gates and instances.                                              *)
(***************************************************************************)
DelayTriple == <<Expr(0), Call("parse_mintypmax_rest"), Discard>>
RestOfParens == <<Balanced("LParen", "RParen"), Eat("RParen")>>
parse_net_delay ==
    <<When(At({"Hash"}),
      <<Bump, Let("delayed", TRUE),
        If(At({"LParen"}),
           <<Bump>> \o DelayTriple
             \o <<When(At({"Comma"}),
                       <<Bump>> \o DelayTriple
                         \o <<When(At({"Comma"}), <<Bump>> \o DelayTriple)>>)>> \o RestOfParens,
           <<Call("parse_delay_value"), Discard>>)>>)>>
parse_net_declaration ==
    <<parse_optional_net_type, OptStrength, When(At({"KwVectored", "KwScalared"}), <<Bump>>),
      Let("delayed", FALSE)>> \o parse_net_delay
      \o <<ImplicitOrType, When(Not(Saved("delayed")), parse_net_delay)>> \o DeclareVars

GateKeyword ==
    {"KwAnd", "KwNand", "KwOr", "KwNor", "KwXor", "KwXnor", "KwBuf", "KwNot", "KwBufif0",
     "KwBufif1", "KwNotif0", "KwNotif1", "KwNmos", "KwPmos", "KwCmos", "KwRnmos", "KwRpmos",
     "KwRcmos", "KwTran", "KwRtran", "KwTranif0", "KwTranif1", "KwRtranif0", "KwRtranif1",
     "KwPullup", "KwPulldown"}
parse_gate_instantiation ==
    <<Bump, OptStrength,
      When(At({"Hash"}),
        <<Bump,
          If(At({"LParen"}),
             <<Bump>> \o DelayTriple \o <<When(At({"Comma"}), <<Bump>> \o DelayTriple)>>
               \o RestOfParens,
             <<Call("parse_delay_value")>>)>>),
      CommaList(<<When(At(PlainName), <<Call("parse_identifier")>>),
                  Call("parse_unpacked_dimensions"), Expect("LParen"), CommaList(<<Expr(0)>>),
                  Expect("RParen")>>),
      Expect("Semicolon")>>

parse_instantiation_params ==
    <<When(At({"Hash"}),
      <<Bump,
        Switch(<<
          <<At({"LParen"}),
            <<Bump, Call("check_param_list_form"),
              ClosedList("RParen", <<
                If(At({"Dot"}),
                   <<Bump, Call("parse_identifier"), Expect("LParen"),
                     When(Not(At({"RParen"})), <<Call("parse_param_value")>>), Expect("RParen")>>,
                   <<Let("type", FALSE), When(param_type_start, <<Let("type", TRUE)>>),
                     Call("parse_param_value"),
                     When(AllOf(<<Not(Saved("type")), At({"Colon"})>>),
                          <<Leaf("Number"), Call("parse_mintypmax_rest"), Discard>>)>>)>>),
              Expect("RParen")>>>>,
          <<AnyOf(<<At(Numeral),
                    AllOf(<<At(PlainName), Not(Ahead(1, {"DoubleColon", "Dot"}))>>)>>),
            <<Call("parse_delay_value")>>>> >>, <<>>)>>)>>

parse_port_actual == <<When(At(EdgeKeyword), <<Bump>>), Expr(0)>>
\* Connections by position and by name are not mixed in one list.
parse_port_connections ==
    <<When(Not(At({"LParen"})), <<Return>>), Bump,
      When(At({"RParen"}), <<Bump, Return>>), Let("ordered", FALSE), Let("by_name", FALSE),
      Loop(<<
        BreakIf(At({"RParen", "Eof"})),
        Switch(<<
          <<At({"Comma"}), <<>>>>,
          <<At({"Dot"}),
            <<Bump, Let("by_name", TRUE),
              If(At({"Star"}), <<Bump>>,
                 <<Call("parse_identifier"),
                   When(At({"LParen"}),
                        <<Bump, When(Not(At({"RParen"})), <<Call("parse_port_actual")>>),
                          Expect("RParen")>>)>>)>>>> >>,
          <<Call("parse_port_actual"), Let("ordered", TRUE)>>),
        EatOrBreak("Comma")>>),
      When(AllOf(<<Ctx("strict"), Saved("ordered"), Saved("by_name")>>), <<Error>>),
      Expect("RParen")>>

\* The rest of a scoped type name, after its first `::`.
ScopeLinks ==
    While(At({"DoubleColon"}),
      <<Bump, Call("parse_identifier"),
        When(AllOf(<<At({"Hash"}), Ahead(1, {"LParen"}), Look("hash_paren_is_scope_link")>>),
             <<Call("parse_type_args_hash"), Expect("DoubleColon"), Call("parse_identifier")>>)>>)
ScopedData ==
    <<ScopeLinks, Call("parse_type_args_hash"), Call("parse_packed_dimensions")>> \o DeclareVars
SpecializedData ==
    <<Bump, Call("parse_identifier"), ScopeLinks, Call("parse_packed_dimensions")>> \o DeclareVars
Instance ==
    <<Call("parse_unpacked_dimensions"), Call("parse_port_connections")>>
UnnamedInstances ==
    <<CommaList(<<When(At(PlainName), <<Call("parse_identifier")>>)>> \o Instance),
      Expect("Semicolon")>>

\* One name of `type_or_module name ...`: followed by = ; or , it declares
\* data, and else it is read again as an instance.
instance_or_data ==
    <<Mark, Call("parse_identifier"), Call("parse_unpacked_dimensions"),
      When(At({"Assign", "Semicolon", "Comma"}), <<Leaf("Data"), Return>>),
      Rewind, Call("parse_identifier")>> \o Instance \o <<Leaf("Instance")>>
\* The first name that declares data makes data of them all.
InstancesOrData ==
    <<Mark,
      Loop(<<Discard, Call("instance_or_data"), BreakIf(Result({"Data"})), EatOrBreak("Comma")>>),
      If(Result({"Data"}), <<Rewind>> \o DeclareVars, <<Expect("Semicolon")>>)>>

\* A port of a modport type declared in the body: i.m x, y;
ModportData == <<Bump, Call("parse_identifier")>> \o DeclareVars
PackedData == <<Call("parse_packed_dimensions")>> \o DeclareVars
parse_identifier_starting_item ==
    <<Call("parse_identifier"),
      When(At({"DoubleColon"}), ScopedData \o <<Return>>),
      When(At({"Colon"}), <<Bump, Call("parse_module_item"), Return>>),
      When(AllOf(<<At({"Dot"}), Ahead(1, PlainName), Ahead(2, PlainName),
                   Ahead(3, {"Semicolon", "Comma"})>>),
           ModportData \o <<Return>>),
      OptStrength, Call("parse_instantiation_params"),
      Switch(<<
        <<At({"DoubleColon"}), SpecializedData>>,
        <<At({"LBracket"}), PackedData>>,
        <<At({"LParen"}), UnnamedInstances>>,
        <<At(Name), InstancesOrData>> >>,
        DeclareVars)>>

--------------------------------------------------------------------------------
(***************************************************************************)
(* Specify blocks.  A path is an attempt: what is not read as one without  *)
(* a report is skipped up to its semicolon.                                *)
(***************************************************************************)
Fail == <<Leaf("None"), Return>>
EatOrFail(k) == If(At({k}), <<Bump>>, Fail)
SkipItem == skip_to_semi

parse_specify_terminals ==
    <<Loop(<<
        When(Not(At(Name)), Fail), Call("parse_identifier"),
        When(At({"LBracket"}),
             <<Bump, Expr(0),
               When(At({"Colon", "PlusColon", "MinusColon"}), <<Bump, Expr(0)>>),
               EatOrFail("RBracket")>>),
        EatOrBreak("Comma")>>),
      Leaf("Terminals")>>
Terminals == <<Call("parse_specify_terminals"), When(Result({"None"}), <<Return>>)>>
PathArrow ==
    If(At({"PlusAssign", "MinusAssign"}), <<Bump, EatOrFail("Gt")>>,
       <<When(At({"Plus", "Minus"}), <<Bump>>),
         Switch(<<
           <<At({"FatArrow"}), <<Bump>>>>,
           <<AllOf(<<At({"Star"}), Ahead(1, {"Gt"})>>), <<Bump, Bump>>>> >>, Fail)>>)
PathDestination ==
    If(At({"LParen"}),
       <<Bump>> \o Terminals \o <<
         Switch(<<
           <<At({"PlusColon", "MinusColon", "Colon"}), <<Bump>>>>,
           <<AllOf(<<At({"Plus", "Minus"}), Ahead(1, {"Colon"})>>), <<Bump, Bump>>>> >>, Fail),
         Expr(0), EatOrFail("RParen")>>,
       Terminals)
parse_specify_path_inner ==
    <<Switch(<<
        <<At({"KwIf"}), <<Bump, EatOrFail("LParen"), Expr(0), EatOrFail("RParen")>>>>,
        <<At({"KwIfnone"}), <<Bump>>>> >>, <<>>),
      EatOrFail("LParen"), When(At(EdgeKeyword), <<Bump>>)>> \o Terminals \o
    <<PathArrow, PathDestination, EatOrFail("RParen"), EatOrFail("Assign"),
      Call("parse_path_delay_value"), EatOrFail("Semicolon"), Leaf("Path")>>
DelayList ==
    CommaList(<<Expr(0),
                When(At({"Colon"}), <<Bump, Expr(0), When(At({"Colon"}), <<Bump, Expr(0)>>)>>)>>)
\* A parenthesis that does not close right before the semicolon belongs to
\* the first delay, and the list is read again.
parse_path_delay_value ==
    <<Mark,
      When(At({"LParen"}),
           <<Bump, DelayList,
             When(At({"RParen"}), <<Bump, When(At({"Semicolon"}), <<Return>>)>>), Rewind>>),
      DelayList>>
try_parse_specify_path ==
    <<Mark, Call("parse_specify_path_inner"),
      When(AnyOf(<<Result({"None"}), Not(Clean)>>),
           <<Retract, Rewind, Discard, Leaf("None")>>)>>

parse_timing_check ==
    <<Bump,
      If(At({"LParen"}),
         <<Bump, Skip("timing_check"), Eat("RParen"), Eat("Semicolon")>>, SkipItem)>>
SpecifySpecparam ==
    <<Call("parse_module_item"), When(Result({"Item"}), <<Add("pending")>>)>>
ItemSpecify ==
    <<NotInGenerate, Bump,
      While(Not(At({"KwEndspecify", "Eof"})),
        <<Let("path", FALSE),
          When(At({"LParen", "KwIf", "KwIfnone"}),
               <<Call("try_parse_specify_path"),
                 When(Result({"Path"}), <<Let("path", TRUE)>>), Discard>>),
          Switch(<<
            <<Saved("path"), <<>>>>,
            <<At({"$setuphold"}), <<Call("parse_timing_check")>>>>,
            <<At({"KwSpecparam"}), SpecifySpecparam \o <<Discard>>>> >>,
            SkipItem)>>),
      Expect("KwEndspecify")>>

--------------------------------------------------------------------------------
(***************************************************************************)
(* An item of a module: the leaf Item, or None where the code returns no   *)
(* item.                                                                   *)
(***************************************************************************)
ItemPrefix ==
    <<Let("extern", FALSE),
      Loop(<<Switch(<<
        <<At({"KwExtern"}), <<Bump, Let("extern", TRUE)>>>>,
        <<AllOf(<<At({"KwVirtual"}), Ahead(1, {"KwFunction", "KwTask", "KwClass"})>>), <<Bump>>>>,
        <<AllOf(<<At({"KwStatic"}), Ahead(1, {"KwFunction", "KwTask"})>>), <<Bump>>>> >>,
        <<Break>>)>>)>>
SameItem == <<Call("parse_module_item"), Return>>

DataItems ==
    <<  <<At(NetTypeKeyword \cup {"KwInterconnect"}), <<Call("parse_net_declaration")>>>>,
        <<AllOf(<<At({"KwGlobal"}), Ahead(1, {"KwClocking"})>>), <<Bump>> \o SameItem>>,
        <<At({"KwSpecparam"}), ItemSpecparam>>,
        <<AllOf(<<At({"KwInterface"}), Ahead(1, {"KwClass"})>>),
          <<Bump, Call("parse_class_declaration")>>>>,
        <<At(DataTypeKeyword \cup {"KwVar", "KwConst", "KwStatic", "KwAutomatic"}),
          <<Call("parse_data_declaration")>>>>,
        <<At({"KwParameter", "KwLocalparam"}), <<Call("parse_parameter_decl_stmt")>>>>,
        <<At({"KwTypedef"}), <<Call("parse_typedef_declaration")>>>> >>
ProcessItems ==
    <<  <<At({"KwAlways", "KwAlways_comb", "KwAlways_ff", "KwAlways_latch"}),
          <<Bump, skip_optional_attribute, Call("parse_statement")>>>>,
        <<At({"KwInitial", "KwFinal"}), <<Bump, Call("parse_statement")>>>> >>
RoutineItems ==
    <<  <<At({"KwFunction"}),
          <<If(Saved("extern"), <<Call("parse_function_prototype")>>,
               <<Call("parse_function_declaration")>>)>>>>,
        <<At({"KwTask"}),
          <<If(Saved("extern"), <<Call("parse_task_prototype")>>,
               <<Call("parse_task_declaration")>>)>>>>,
        <<At({"KwImport"}),
          <<If(Ahead(1, {"StringLiteral"}), <<Call("parse_dpi_import")>>,
               <<Call("parse_import_declaration")>>)>>>>,
        <<At({"KwExport"}),
          <<If(Ahead(1, {"StringLiteral"}), <<Call("parse_dpi_export")>>,
               <<Bump>> \o SkipTo({"Semicolon"}, "Semicolon"))>>>>,
        <<At({"KwClass"}), <<Call("parse_class_declaration")>>>> >>
\* A virtual interface, a virtual method, and a bind directive.
VirtualItems ==
    <<  <<AllOf(<<At({"KwVirtual"}), Ahead(1, PlainName \cup {"KwInterface"})>>),
          <<Call("parse_data_declaration")>>>>,
        <<At({"KwVirtual"}), <<Bump>> \o SameItem>>,
        <<At({"KwBind"}), <<Bump, Call("try_bind_directive")>>>> >>
\* What no keyword opens.
NameItems ==
    <<  <<At(Name), <<Call("parse_identifier_starting_item")>>>>,
        <<At({"Semicolon"}), <<Bump>>>>,
        <<At({"UndefinedMacro"}), <<Call("recover_undefined_macro")>>>>,
        <<At({"Directive", "ClosingDirective"}), <<Bump>> \o SameItem>>,
        <<At({"KwBegin"}), <<Call("parse_generate_branch_items_named")>>>> >>
parse_module_item ==
    ItemPrefix \o
    <<Switch(<<
        <<At({"KwModule", "KwMacromodule"}),
          <<NotInGenerate, Call("parse_module_declaration")>>>>,
        <<At({"KwTimeunit", "KwTimeprecision"}),
          <<NotInGenerate, Call("parse_timeunits_declaration")>>>>,
        <<At({"KwProgram"}), <<Call("parse_program_declaration")>>>>,
        <<At({"KwDefparam"}), ItemDefparam>>,
        <<At(SysName), ItemSystemTask>>,
        <<At(PortDirection), ItemPort>> >>
        \o DataItems \o ProcessItems \o <<
        <<At({"KwAlias"}), ItemAlias>>,
        <<At({"KwAssign"}), ItemAssign>>,
        <<At({"KwGenerate"}), ItemGenerate>>,
        <<At({"KwGenvar"}), ItemGenvar>> >>
        \o RoutineItems \o <<
        <<At({"KwConstraint"}), ItemConstraint>> >>
        \o VirtualItems \o <<
        <<At({"KwModport"}), ItemModport>>,
        <<At({"KwClocking"}), ItemClocking>>,
        <<AllOf(<<At({"KwRestrict"}), Ahead(1, {"KwProperty"})>>),
          <<Call("skip_restrict_property")>>>>,
        <<At({"KwAssert", "KwAssume", "KwCover"}), <<Call("parse_assertion_statement")>>>>,
        <<At({"KwProperty"}), ItemProperty>>,
        <<At({"KwSequence"}), ItemSequence>>,
        <<At({"KwCovergroup"}), <<Call("parse_covergroup_declaration")>>>>,
        <<At({"KwDefault"}), ItemDefault>>,
        <<At({"KwIf"}), <<Call("parse_generate_if")>>>>,
        <<At({"KwCase"}), <<Call("parse_generate_case")>>>>,
        <<At({"KwChecker"}), ItemChecker>>,
        <<At({"KwLet"}), <<Call("parse_let_declaration")>>>>,
        <<At({"KwNettype"}), ItemNettype>>,
        <<At({"KwFor"}), ItemFor>>,
        <<At(GateKeyword), <<Call("parse_gate_instantiation")>>>>,
        <<At({"KwSpecify"}), ItemSpecify>> >>
        \o NameItems,
        <<Leaf("None"), Return>>),
      Discard, Leaf("Item")>>

--------------------------------------------------------------------------------
(***************************************************************************)
(* parse/mod.rs: bind directives, primitives and the source text.          *)
(***************************************************************************)
parse_bind_path ==
    <<If(At({"$root"}), <<Bump>>, <<Call("parse_identifier")>>),
      Loop(<<While(At({"LBracket"}), <<Bump, Expr(0), Expect("RBracket")>>),
             EatOrBreak("Dot"), Call("parse_identifier")>>)>>
\* A bind that is not read to its semicolon is skipped: None.
try_bind_directive ==
    <<Mark, Call("parse_bind_path"),
      When(At({"Colon"}), <<Bump, CommaList(<<Call("parse_bind_path")>>)>>),
      Call("parse_identifier"), Call("parse_instantiation_params"),
      When(At(Name),
        <<Call("parse_identifier")>> \o Instance
          \o <<When(At({"Semicolon"}), <<Bump, Leaf("Bind"), Return>>)>>),
      Rewind, Skip("bind"), Eat("Semicolon"), Leaf("None")>>

PrimitivePorts == When(At({"LParen"}), <<Bump>> \o RestOfParens)
PrimitiveDeclaration ==
    If(At({"KwInitial"}),
       <<Bump, Until({"Semicolon", "KwTable"}), Eat("Semicolon")>>,
       <<Until({"Semicolon", "KwTable", "KwEndprimitive"}), Eat("Semicolon")>>)
PrimitiveTable ==
    <<When(At({"KwTable"}),
           <<Bump, Until({"KwEndtable", "KwEndprimitive"}), Eat("KwEndtable")>>)>>
      \o SkipTo({"KwEndprimitive"}, "KwEndprimitive")
      \o <<When(At({"Colon"}), <<Bump, Call("parse_identifier")>>)>>
parse_primitive ==
    <<Bump, Call("parse_identifier"), PrimitivePorts, Eat("Semicolon"),
      While(Not(At({"KwTable", "KwEndprimitive", "Eof"})), <<PrimitiveDeclaration>>)>> \o PrimitiveTable

SameDescription == <<Call("parse_description")>>
DescriptionConfig ==
    <<Bump, Until({"KwEndconfig"}),
      When(At({"KwEndconfig"}),
           <<Bump, When(At({"Colon"}), <<Bump, When(At(PlainName), <<Bump>>)>>)>>)>>
DescriptionConstraint ==
    <<Bump, Call("parse_hierarchical_identifier"), Let("class", FALSE),
      When(Result({"Hier"}), <<Let("class", TRUE)>>),
      When(At({"LBrace"}), ConstraintBody), Eat("Semicolon"),
      When(Not(Saved("class")), SameDescription)>>

\* Declarations of the compilation unit itself.
UnitItems ==
    <<  <<At({"KwTimeunit", "KwTimeprecision"}), <<Call("parse_timeunits_declaration")>>>>,
        <<At({"KwFunction", "KwTask", "KwProperty", "KwSequence"}), <<Call("parse_package_item")>>>>,
        <<At({"UndefinedMacro"}), <<Call("recover_undefined_macro")>> \o SameDescription>>,
        <<At(NetTypeKeyword), <<Call("parse_net_declaration")>>>>,
        <<AnyOf(<<At(DataTypeKeyword \cup {"KwVar", "KwConst", "KwStatic", "KwAutomatic"}),
                  AllOf(<<At(PlainName),
                          Ahead(1, PlainName \cup {"DoubleColon", "Hash", "LBracket"})>>)>>),
          <<Call("parse_data_declaration")>>>> >>
parse_description ==
    <<Switch(<<
        <<AllOf(<<At({"KwExtern"}),
                  Ahead(1, {"KwModule", "KwMacromodule", "KwPrimitive", "KwInterface"})>>),
          <<Bump, Bump>> \o SkipTo({"Semicolon"}, "Semicolon") \o SameDescription>>,
        <<At({"KwConfig"}), DescriptionConfig>>,
        <<At({"KwModule", "KwMacromodule"}), <<Call("parse_module_declaration")>>>>,
        <<AnyOf(<<At({"KwClass"}),
                  AllOf(<<At({"KwInterface", "KwVirtual"}), Ahead(1, {"KwClass"})>>)>>),
          <<Call("parse_class_declaration")>>>>,
        <<At({"KwInterface"}), <<Call("parse_interface_declaration")>>>>,
        <<At({"KwProgram"}), <<Call("parse_program_declaration")>>>>,
        <<At({"KwPrimitive"}), <<Call("parse_primitive")>>>>,
        <<At({"KwPackage"}), <<Call("parse_package_declaration")>>>>,
        <<At({"KwNettype", "KwChecker", "KwLet"}), <<Call("parse_module_item")>>>>,
        <<At({"KwCovergroup"}), <<Call("parse_covergroup_declaration")>>>>,
        <<At({"KwTypedef"}), <<Call("parse_typedef_declaration")>>>>,
        <<At({"KwParameter", "KwLocalparam"}), <<Call("parse_parameter_decl_stmt")>>>>,
        <<At({"KwImport"}),
          <<If(Ahead(1, {"StringLiteral"}), <<Call("parse_dpi_import")>>,
               <<Call("parse_import_declaration")>>)>>>>,
        <<At({"KwExport"}),
          <<If(Ahead(1, {"StringLiteral"}), <<Call("parse_dpi_export")>>,
               <<Bump>> \o SkipTo({"Semicolon"}, "Semicolon") \o SameDescription)>>>>,
        <<At({"KwExtern", "Semicolon", "Directive", "ClosingDirective"}),
          <<Bump>> \o SameDescription>>,
        <<At({"KwBind"}),
          <<Bump, Call("try_bind_directive"), When(Result({"None"}), SameDescription)>>>>,
        <<At({"KwConstraint"}), DescriptionConstraint>> >>
        \o UnitItems, <<>>)>>

\* A token that begins no description is reported and passed over.
parse_source_text ==
    <<While(Not(At({"Eof"})),
            <<Mark, Call("parse_description"), When(Idle, <<Error, Bump>>)>>),
      When(AllOf(<<Ctx("strict"), Some("impure_classes")>>), <<Error>>)>>
===============================================================================
