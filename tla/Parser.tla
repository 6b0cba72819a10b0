-------------------------------- MODULE Parser --------------------------------
(***************************************************************************)
(* The parser of xezim-parser/src/parse as a machine.  The state is that   *)
(* of the code: the token cursor (pos), the diagnostics (errors counts     *)
(* those of severity Error), the context flags and queues of struct Parser *)
(* (ctx), the activations of the routines being run (stack, innermost      *)
(* first) and the expressions built so far (out).  A step executes one     *)
(* instruction of the innermost routine.                                   *)
(***************************************************************************)
EXTENDS ParserItems, Integers, FiniteSets, FiniteSetsExt, SequencesExt

CONSTANT Sources      \* the texts to parse: a set of records

(***************************************************************************)
(* A source is [tokens |-> a sequence of tokens ending in Eof,             *)
(* entry |-> the routine that reads it, ...].                              *)
(***************************************************************************)
VARIABLES source, pos, stack, out, errors, ctx

vars == <<source, pos, stack, out, errors, ctx>>

Routine ==
    [\* parse/expressions.rs, parse/helpers.rs
     parse_expression |-> parse_expression,
     parse_identifier |-> parse_identifier,
     parse_lvalue_or_expr |-> parse_lvalue_or_expr,
     parse_pattern |-> parse_pattern,
     parse_randomize_with |-> parse_randomize_with,
     parse_expr_bp_ctx |-> parse_expr_bp_ctx,
     parse_constraint_left_expr |-> parse_constraint_left_expr,
     parse_mintypmax_rest |-> parse_mintypmax_rest,
     parse_paren_assign_tail |-> parse_paren_assign_tail,
     parse_prefix |-> parse_prefix,
     parse_assignment_pattern_items |-> parse_assignment_pattern_items,
     parse_concatenation |-> parse_concatenation,
     parse_call_args |-> parse_call_args,
     parse_call_args_inner |-> parse_call_args_inner,
     parse_hierarchical_identifier |-> parse_hierarchical_identifier,
     parse_hierarchical_identifier_expr |-> parse_hierarchical_identifier_expr,
     parse_delay_value |-> parse_delay_value,
     parse_sva_delay_count |-> parse_sva_delay_count,
     parse_sva_delay_range |-> parse_sva_delay_range,
     parse_sva_clock_event |-> parse_sva_clock_event,
     check_param_list_form |-> check_param_list_form,
     recover_undefined_macro |-> recover_undefined_macro,
     parse_end_label |-> parse_end_label,
     parse_optional_method_specifier |-> parse_optional_method_specifier,
     \* parse/types.rs
     parse_data_type |-> parse_data_type,
     parse_type_args_hash |-> parse_type_args_hash,
     parse_type_name |-> parse_type_name,
     parse_packed_dimensions |-> parse_packed_dimensions,
     parse_unpacked_dimensions |-> parse_unpacked_dimensions,
     parse_enum_type |-> parse_enum_type,
     parse_struct_type |-> parse_struct_type,
     \* parse/statements.rs, parse/lets.rs
     parse_statement |-> parse_statement,
     parse_block_item |-> parse_block_item,
     parse_seq_block |-> parse_seq_block,
     parse_par_block |-> parse_par_block,
     parse_if_or_case |-> parse_if_or_case,
     parse_if_with_priority |-> parse_if_with_priority,
     parse_case_with_priority |-> parse_case_with_priority,
     parse_for_statement |-> parse_for_statement,
     parse_foreach_statement |-> parse_foreach_statement,
     parse_while_statement |-> parse_while_statement,
     parse_do_while_statement |-> parse_do_while_statement,
     parse_repeat_statement |-> parse_repeat_statement,
     skip_intra_assignment_timing |-> skip_intra_assignment_timing,
     parse_event_control |-> parse_event_control,
     parse_event_expression_list |-> parse_event_expression_list,
     parse_event_expression_term |-> parse_event_expression_term,
     skip_restrict_property |-> skip_restrict_property,
     parse_assertion_statement |-> parse_assertion_statement,
     parse_randcase |-> parse_randcase,
     parse_randsequence |-> parse_randsequence,
     parse_rs_alt |-> parse_rs_alt,
     parse_rs_seq |-> parse_rs_seq,
     parse_rs_prod |-> parse_rs_prod,
     parse_let_port_list |-> parse_let_port_list,
     parse_let_declaration |-> parse_let_declaration,
     \* parse/declarations.rs
     parse_parameter_port_list |-> parse_parameter_port_list,
     parse_parameter_declaration |-> parse_parameter_declaration,
     parse_parameter_decl_stmt |-> parse_parameter_decl_stmt,
     parse_typedef_declaration |-> parse_typedef_declaration,
     parse_import_declaration |-> parse_import_declaration,
     parse_dpi_import |-> parse_dpi_import,
     parse_dpi_export |-> parse_dpi_export,
     parse_timeunits_declaration |-> parse_timeunits_declaration,
     parse_data_declaration |-> parse_data_declaration,
     parse_function_declaration |-> parse_function_declaration,
     parse_tf_body_ports |-> parse_tf_body_ports,
     parse_task_declaration |-> parse_task_declaration,
     parse_method_name |-> parse_method_name,
     parse_function_return_type |-> parse_function_return_type,
     parse_function_prototype |-> parse_function_prototype,
     parse_task_prototype |-> parse_task_prototype,
     parse_param_value |-> parse_param_value,
     parse_param_args |-> parse_param_args,
     parse_prototype_ports |-> parse_prototype_ports,
     parse_function_ports |-> parse_function_ports,
     parse_package_item |-> parse_package_item,
     \* parse/items.rs: classes, covergroups, constraints
     parse_class_declaration |-> parse_class_declaration,
     parse_class_item |-> parse_class_item,
     parse_trans_set |-> parse_trans_set,
     parse_cross_select_or |-> parse_cross_select_or,
     parse_cross_select_and |-> parse_cross_select_and,
     parse_cross_select_with |-> parse_cross_select_with,
     parse_cross_select_primary |-> parse_cross_select_primary,
     parse_covergroup_declaration |-> parse_covergroup_declaration,
     parse_covergroup_item |-> parse_covergroup_item,
     parse_solve_term |-> parse_solve_term,
     parse_constraint_item |-> parse_constraint_item,
     parse_dist_body |-> parse_dist_body,
     parse_constraint_range |-> parse_constraint_range,
     \* parse/items.rs: modules and their items; parse/mod.rs
     parse_module_declaration |-> parse_module_declaration,
     parse_interface_declaration |-> parse_interface_declaration,
     parse_program_declaration |-> parse_program_declaration,
     parse_package_ooc_constraint |-> parse_package_ooc_constraint,
     parse_package_declaration |-> parse_package_declaration,
     parse_port_list |-> parse_port_list,
     parse_ansi_port |-> parse_ansi_port,
     parse_module_items |-> parse_module_items,
     parse_module_items_until_endgenerate |-> parse_module_items_until_endgenerate,
     parse_module_items_until_end |-> parse_module_items_until_end,
     parse_module_items_until_endchecker |-> parse_module_items_until_endchecker,
     parse_sva_port_names |-> parse_sva_port_names,
     parse_sva_local_declarations |-> parse_sva_local_declarations,
     parse_generate_if |-> parse_generate_if,
     parse_generate_case |-> parse_generate_case,
     parse_generate_branch_items_named |-> parse_generate_branch_items_named,
     parse_net_declaration |-> parse_net_declaration,
     parse_gate_instantiation |-> parse_gate_instantiation,
     parse_instantiation_params |-> parse_instantiation_params,
     parse_port_actual |-> parse_port_actual,
     parse_port_connections |-> parse_port_connections,
     instance_or_data |-> instance_or_data,
     parse_identifier_starting_item |-> parse_identifier_starting_item,
     parse_specify_terminals |-> parse_specify_terminals,
     parse_specify_path_inner |-> parse_specify_path_inner,
     parse_path_delay_value |-> parse_path_delay_value,
     try_parse_specify_path |-> try_parse_specify_path,
     parse_timing_check |-> parse_timing_check,
     parse_module_item |-> parse_module_item,
     parse_bind_path |-> parse_bind_path,
     try_bind_directive |-> try_bind_directive,
     parse_primitive |-> parse_primitive,
     parse_description |-> parse_description,
     parse_source_text |-> parse_source_text]

\* The routines whose result the caller uses: an expression, or a leaf that
\* says what was read.
Returning ==
    {"parse_expression", "parse_lvalue_or_expr", "parse_expr_bp_ctx",
     "parse_constraint_left_expr", "parse_mintypmax_rest",
     "parse_paren_assign_tail", "parse_prefix",
     "parse_assignment_pattern_items", "parse_concatenation",
     "parse_call_args", "parse_call_args_inner",
     "parse_hierarchical_identifier", "parse_hierarchical_identifier_expr",
     "parse_delay_value", "parse_sva_delay_count", "parse_sva_delay_range",
     "parse_type_name", "parse_event_expression_list",
     "parse_event_expression_term", "parse_tf_body_ports",
     "parse_constraint_range", "parse_package_item", "parse_module_item",
     "parse_ansi_port", "instance_or_data", "parse_specify_terminals",
     "parse_specify_path_inner", "try_parse_specify_path",
     "try_bind_directive"}

--------------------------------------------------------------------------------
(***************************************************************************)
(* The token cursor: helpers.rs.  bump stops one past the end and current  *)
(* stays on Eof.                                                           *)
(***************************************************************************)
Tokens == source.tokens
KindAt(p) == IF p \in 1 .. Len(Tokens) THEN Tokens[p] ELSE "Eof"
Kind == KindAt(pos)
Next1(p) == IF p <= Len(Tokens) THEN p + 1 ELSE p

Count(K, p, q) == Cardinality({i \in p .. q : KindAt(i) \in K})
Openers == {"LParen", "LBracket", "LBrace"}
Closers == {"RParen", "RBracket", "RBrace"}
\* How many brackets of open are not yet closed before q.
Depth(open, close, p, q) == Count(open, p, q - 1) - Count(close, p, q - 1)
\* Where the bracket open just before p closes; Len(Tokens), the Eof, if nowhere.
Closing(p, open, close) ==
    LET Ends == {q \in p .. Len(Tokens) : Count(close, p, q) > Count(open, p, q)}
    IN  IF Ends = {} THEN Len(Tokens) ELSE Min(Ends)
\* The first position from p that satisfies P; the Eof does for every P.
First(p, P(_)) == Min({q \in p .. Len(Tokens) : P(q)} \cup {Len(Tokens)})

SumOf(f) == FoldFunction(+, 0, f)

fr == Head(stack)
top == Last(out)
Mine == SubSeq(out, fr.base + 1, Len(out))

--------------------------------------------------------------------------------
(***************************************************************************)
(* What the tests look at in the expressions built.                        *)
(***************************************************************************)
RECURSIVE scoped_name_expr(_)
scoped_name_expr(e) ==
    \/ e[1] \in {"Ident", "New"}
    \/ e[1] = "Member" /\ scoped_name_expr(e[3])

is_randomize_receiver(e) ==
    LET target == IF e[1] = "Call" THEN e[2] ELSE e
    IN  target[1] \in {"Ident", "Hier", "Member"} /\ KindAt(target[2]) = "randomize"

\* The operators that make an expression a sequence or a property.
TemporalTokens ==
    {"HashHash", "KwThroughout", "KwWithin", "KwUntil", "KwS_until",
     "KwUntil_with", "KwS_until_with", "KwIntersect", "KwAnd", "KwOr",
     "OrMinusArrow", "OrFatArrow", "KwS_eventually", "KwS_always", "KwAlways",
     "KwNexttime", "KwS_nexttime", "KwIf"}
RECURSIVE sva_temporal_ast(_)
sva_temporal_ast(e) ==
    \/ e[1] \in {"SeqAnd", "$sva_rep", "$sva_follow", "$sva_match", "$sva_first_match",
                 "$sva_strong"}
    \/ /\ e[1] \in {"Binary", "Unary"}
       /\ \/ KindAt(e[2][2]) \in TemporalTokens
          \/ \E i \in 3 .. Len(e) : sva_temporal_ast(e[i])
    \/ e[1] = "Paren" /\ sva_temporal_ast(e[2])

\* An assignment in a match item list: (sequence, v = e, v++).
RECURSIVE check_sva_match_assignments(_)
check_sva_match_assignments(e) ==
    \/ /\ e[1] = "$sva_match"
       /\ \E i \in 3 .. Len(e) :
             \/ e[i][1] = "AssignExpr"
             \/ e[i][1] = "Unary" /\ KindAt(e[i][2][2]) \in {"Increment", "Decrement"}
    \/ /\ e[1] \in {"Binary", "Unary"}
       /\ \E i \in 3 .. Len(e) : check_sva_match_assignments(e[i])
    \/ /\ e[1] \in {"Paren", "SeqAnd", "$sva_rep", "$sva_follow", "$sva_match",
                    "$sva_first_match", "$sva_strong"}
       /\ \E i \in 2 .. Len(e) : check_sva_match_assignments(e[i])

\* The tuples of a cross bin: '{'{a, b}, '{c, d}}, with n values each.
cross_tuple_select(e, n) ==
    /\ e[1] = "AssignmentPattern"
    /\ \A i \in 2 .. Len(e) :
          /\ e[i][1] = "AssignmentPattern"
          /\ Len(e[i]) = n + 1
          /\ \A j \in 2 .. Len(e[i]) : e[i][j][1] # "Keyed"

RECURSIVE Peeled(_)
Peeled(e) == IF e[1] = "Paren" THEN Peeled(e[2]) ELSE e

--------------------------------------------------------------------------------
(***************************************************************************)
(* Lookahead: walks over the tokens that move nothing.                     *)
(***************************************************************************)
\* The entries of the parameter value list that starts at pos, each as its
\* first position; the list ends at its `)`, or at `;` or Eof.
ListDepth(q) == Depth(Openers \cup {"ApostropheLBrace"}, Closers, pos, q)
ListEnd == First(pos, LAMBDA q : KindAt(q) = "Semicolon" \/ ListDepth(q + 1) < 0)
EntryStarts ==
    {q \in pos .. ListEnd : q = pos \/ (KindAt(q - 1) = "Comma" /\ ListDepth(q) = 0)}
Named == {q \in EntryStarts : KindAt(q) = "Dot"}
Ordered == {q \in EntryStarts : KindAt(q) \notin {"Dot", "RParen"}}

\* Past the dimensions that start at p, if any.
PastDims[p \in Nat] ==
    IF KindAt(p) = "LBracket" THEN PastDims[Closing(p + 1, {"LBracket"}, {"RBracket"}) + 1] ELSE p
PastParens(p) == Closing(p + 1, {"LParen"}, {"RParen"}) + 1
\* The walk over a declaration's dimensions gives up after this many tokens.
LookLimit == 64
dims_then_name ==
    LET q == PastDims[pos + 1] IN q - 1 <= pos + 1 + LookLimit /\ KindAt(q) \in PlainName
dims_then_identifier ==
    LET q == PastDims[pos + 1] IN Count({"Semicolon"}, pos, q - 1) = 0 /\ KindAt(q) \in Name
hash_paren_is_scope_link == KindAt(PastParens(pos + 1)) = "DoubleColon"

\* From p, after a name: does the chain of scopes end in an expression,
\* rather than in the type of a declaration?
peek_is_class_scope[p \in Nat] ==
    CASE KindAt(p) = "DoubleColon" ->
           KindAt(p + 1) \in PlainName => peek_is_class_scope[p + 2]
      [] KindAt(p) = "Hash" /\ KindAt(p + 1) = "LParen" ->
           LET q == PastParens(p + 1)
           IN  IF KindAt(q) = "DoubleColon" THEN peek_is_class_scope[q]
               ELSE KindAt(q) \notin PlainName
      [] OTHER -> KindAt(PastDims[p]) \notin PlainName

scoped_name_is_the_method_name ==
    LET Link(n) == /\ KindAt(pos + 2 * n - 1) = "DoubleColon"
                   /\ KindAt(pos + 2 * n) \in PlainName \cup {"KwNew"}
        Links == {n \in 0 .. Len(Tokens) : \A m \in 1 .. n : Link(m)}
    IN  Max(Links) > 0 /\ KindAt(pos + 2 * Max(Links) + 1) \in {"LParen", "Semicolon"}

\* A brace that something other than an operator follows closes a block.
AfterConcatenation ==
    {"Semicolon", "KwInside", "KwDist", "LBracket", "Dot", "Increment", "Decrement", "Plus",
     "Minus", "Star", "Slash", "Percent", "DoubleStar", "Eq", "Neq", "CaseEq", "CaseNeq",
     "WildcardEq", "WildcardNeq", "Lt", "Gt", "Leq", "Geq", "ShiftLeft", "ShiftRight",
     "ArithShiftLeft", "ArithShiftRight", "LogAnd", "LogOr", "LogImplies", "LogEquiv",
     "BitAnd", "BitOr", "BitXor", "BitNand", "BitNor", "BitXnor", "Arrow", "Question"}
BraceEnd == Closing(pos + 1, {"LBrace", "ApostropheLBrace"}, {"RBrace"})

Walk(p) ==
    CASE p = "no_arrow" -> fr.noarrow
      [] p = "scoped_name_expr" -> scoped_name_expr(top)
      [] p = "is_randomize_receiver" -> is_randomize_receiver(top)
      [] p = "iff_expression" -> top[1] = "Binary" /\ KindAt(top[2][2]) = "KwIff"
      [] p = "match_assignment" -> check_sva_match_assignments(top)
      [] p = "bad_tuples" ->
           ~cross_tuple_select(top, Cardinality({i \in DOMAIN Mine : Mine[i][1] = "CrossItem"}))
      [] p = "event_group" -> Len(Mine) > 1 \/ \E i \in DOMAIN Mine : Mine[i][1] = "EdgeEvent"
      [] p = "built" -> Mine # <<>>
      [] p = "select_inside_path" ->
           KindAt(Closing(pos + 1, {"LBracket"}, {"RBracket"}) + 1)
               \in {"Dot", "DoubleColon", "LBracket"}
      [] p = "closes" -> KindAt(Closing(pos, {"LParen"}, {"RParen"})) = "RParen"
      [] p = "mixed_parameters" -> Named # {} /\ Ordered # {}
      [] p = "trailing_comma" ->
           \E q \in EntryStarts : q > pos /\ q = ListEnd /\ KindAt(q) = "RParen"
      [] p = "dims_then_name" -> dims_then_name
      [] p = "dims_then_identifier" -> dims_then_identifier
      [] p = "type_name_then_dims" -> KindAt(PastDims[pos + 1]) \in Name
      [] p = "hash_paren_is_scope_link" -> hash_paren_is_scope_link
      [] p = "class_scope" -> peek_is_class_scope[pos + 1]
      [] p = "scoped_name_is_the_method_name" -> scoped_name_is_the_method_name
      [] p = "constraint_lbrace_is_block" ->
           KindAt(BraceEnd) = "RBrace" /\ KindAt(BraceEnd + 1) \notin AfterConcatenation

\* Where a walk over skipped text ends.
End(p) ==
    CASE p = "bin_body" ->
           First(pos, LAMBDA q : /\ KindAt(q) \in Closers \cup {"Semicolon"}
                                 /\ Depth(Openers, Closers, pos, q) = 0)
      [] p = "timing_check" ->
           First(pos, LAMBDA q : \/ KindAt(q) = "KwEndspecify"
                                 \/ /\ KindAt(q) \in {"Semicolon", "RParen"}
                                    /\ Depth(Openers, Closers, pos, q) = 0)
      [] p = "port_group" -> Closing(pos, {"LParen", "LBracket"}, {"RParen", "RBracket"})
      [] p = "bind" ->
           First(pos, LAMBDA q : /\ KindAt(q) = "Semicolon"
                                 /\ Depth({"LParen"}, {"RParen"}, pos, q) <= 0)

RECURSIVE Holds(_)
Holds(c) ==
    CASE c[1] = "at" -> Kind \in c[2]
      [] c[1] = "ahead" -> KindAt(pos + c[2]) \in c[3]
      [] c[1] = "behind" -> KindAt(pos - c[2]) \in c[3]
      [] c[1] = "ctx" -> ctx[c[2]]
      [] c[1] = "some" -> ctx[c[2]] > 0
      [] c[1] = "saved" -> fr.local[c[2]]
      [] c[1] = "arg" -> fr.arg = c[2]
      [] c[1] = "result" -> top[1] \in c[2]
      [] c[1] = "look" -> Walk(c[2])
      [] c[1] = "idle" -> pos = fr.mark.pos
      [] c[1] = "clean" -> errors = fr.mark.errors
      [] c[1] = "not" -> ~Holds(c[2])
      [] c[1] = "all" -> \A i \in DOMAIN c[2] : Holds(c[2][i])
      [] c[1] = "any" -> \E i \in DOMAIN c[2] : Holds(c[2][i])
--------------------------------------------------------------------------------
(***************************************************************************)
(* Control.  A routine is laid out as a sequence of instructions, each     *)
(* with the label of the one that follows it; label 0 is the return.  A    *)
(* test has two labels or, for a switch, one for each arm.                 *)
(***************************************************************************)
RECURSIVE Size(_), SizeOne(_)
SizeOne(i) ==
    CASE i[1] = "if" -> 1 + Size(i[3]) + Size(i[4])
      [] i[1] = "switch" -> 1 + SumOf([n \in DOMAIN i[2] |-> Size(i[2][n][2])]) + Size(i[3])
      [] i[1] = "while" -> 1 + Size(i[3])
      [] i[1] = "loop" -> Size(i[2])
      [] OTHER -> 1
Size(b) == SumOf([n \in DOMAIN b |-> SizeOne(b[n])])

\* Where block b, laid out at label at, is entered.
Label(b, at, next) == IF b = <<>> THEN next ELSE at

RECURSIVE Layout(_, _, _, _), LayoutOne(_, _, _, _), Arms(_, _, _, _)
LayoutOne(i, at, next, break) ==
    CASE i[1] = "if" ->
           LET no == at + 1 + Size(i[3])
           IN  <<<<"if", i[2], Label(i[3], at + 1, next), Label(i[4], no, next)>>>>
                 \o Layout(i[3], at + 1, next, break) \o Layout(i[4], no, next, break)
      [] i[1] = "switch" ->
           LET first == [n \in 1 .. Len(i[2]) + 1 |->
                           at + 1 + SumOf([m \in 1 .. n - 1 |-> Size(i[2][m][2])])]
               default == first[Len(i[2]) + 1]
           IN  <<<<"switch", [n \in DOMAIN i[2] |-> i[2][n][1]],
                   [n \in DOMAIN i[2] |-> Label(i[2][n][2], first[n], next)],
                   Label(i[3], default, next)>>>>
                 \o Arms(i[2], at + 1, next, break) \o Layout(i[3], default, next, break)
      [] i[1] = "while" ->
           <<<<"if", i[2], Label(i[3], at + 1, at), next>>>> \o Layout(i[3], at + 1, at, next)
      [] i[1] = "loop" -> Layout(i[2], at, at, next)
      [] i[1] = "break" -> <<<<"goto", break>>>>
      [] i[1] = "return" -> <<<<"goto", 0>>>>
      [] i[1] = "tight" -> <<<<"tight", i[2], next, break>>>>
      [] OTHER -> <<<<"do", i, next>>>>
Arms(arms, at, next, break) ==
    IF arms = <<>> THEN <<>>
    ELSE Layout(arms[1][2], at, next, break)
           \o Arms(Tail(arms), at + Size(arms[1][2]), next, break)
Layout(b, at, next, break) ==
    IF b = <<>> THEN <<>>
    ELSE LET rest == at + SizeOne(b[1])
         IN  LayoutOne(b[1], at, Label(Tail(b), rest, next), break)
               \o Layout(Tail(b), rest, next, break)

Code == [r \in DOMAIN Routine |-> Layout(Routine[r], 1, 0, 0)]

(***************************************************************************)
(* An activation: the routine and the label of its next instruction, what  *)
(* it was called with, its local variables, what it has saved to go back   *)
(* to and the number of expressions there were before it.  entered, and    *)
(* ctx in mark, remember the context for the properties.                   *)
(***************************************************************************)
NoLocals == <<>>
Here == [pos |-> pos, errors |-> errors, ctx |-> ctx]
Activation(r, n, noarrow) ==
    [r |-> r, pc |-> 1, arg |-> n, noarrow |-> noarrow,
     local |-> NoLocals, mark |-> Here, base |-> Len(out), entered |-> ctx]

Goto(l) == stack' = <<[fr EXCEPT !.pc = l]>> \o Tail(stack)

\* A test chooses the next instruction and changes nothing else.
Chosen(i) ==
    CASE i[1] = "goto" -> i[2]
      [] i[1] = "if" -> IF Holds(i[2]) THEN i[3] ELSE i[4]
      [] i[1] = "tight" ->
           IF (IF i[2] = 0 THEN Powers[Kind][1] ELSE i[2]) < fr.arg THEN i[4] ELSE i[3]
      [] i[1] = "switch" ->
           LET taken == {n \in DOMAIN i[2] : Holds(i[2][n])}
           IN  IF taken = {} THEN i[4] ELSE i[3][Min(taken)]
DoTest(i) ==
    /\ i[1] # "do"
    /\ Goto(Chosen(i))
    /\ UNCHANGED <<source, pos, out, errors, ctx>>

\* pos advances over the current token.
DoBump(i, l) ==
    /\ i[1] = "bump"
    /\ pos' = Next1(pos)
    /\ Goto(l)
    /\ UNCHANGED <<source, out, errors, ctx>>

\* expect consumes the token asked for; any other one it reports and leaves.
DoExpect(i, l) ==
    /\ i[1] = "expect"
    /\ IF Kind = i[2]
          THEN pos' = Next1(pos) /\ UNCHANGED errors
          ELSE errors' = errors + 1 /\ UNCHANGED pos
    /\ Goto(l)
    /\ UNCHANGED <<source, out, ctx>>

DoError(i, l) ==
    /\ i[1] = "error"
    /\ errors' = errors + 1
    /\ Goto(l)
    /\ UNCHANGED <<source, pos, out, ctx>>

\* A call.  The right operand of an infix operator is parsed with the power
\* of that operator; no_arrow is passed on to operands.
DoCall(i, l) ==
    /\ i[1] \in {"call", "inner", "operand"}
    /\ stack' =
         <<CASE i[1] = "call" -> Activation(i[2], i[3], i[4])
             [] i[1] = "inner" -> Activation("parse_expr_bp_ctx", i[2], fr.noarrow)
             [] i[1] = "operand" ->
                  Activation("parse_expr_bp_ctx",
                             Powers[KindAt(out[Len(out) - i[2]][2])][2], fr.noarrow),
           [fr EXCEPT !.pc = l]>> \o Tail(stack)
    /\ UNCHANGED <<source, pos, out, errors, ctx>>

\* The routine returns: its caller goes on, with the expression it built.
DoReturn ==
    /\ fr.pc = 0
    /\ stack' = Tail(stack)
    /\ out' = IF fr.r \in Returning THEN out ELSE SubSeq(out, 1, fr.base)
    /\ UNCHANGED <<source, pos, errors, ctx>>

--------------------------------------------------------------------------------
(***************************************************************************)
(* The expressions built.  A node is <<kind, part, ...>>; a leaf and an    *)
(* operator carry the position of their token.                             *)
(***************************************************************************)
Fold(l, n) ==
    SubSeq(out, 1, Len(out) - n) \o <<<<l>> \o SubSeq(out, Len(out) - n + 1, Len(out))>>
Built(i) ==
    CASE i[1] = "leaf" -> Append(out, <<i[2], pos>>)
      [] i[1] = "node" -> Fold(i[2], Len(out) - fr.base)
      [] i[1] = "build" -> Fold(i[2], i[3])
      [] i[1] = "member" -> Append(Front(out), <<"Member", pos - 1, top>>)
      [] i[1] = "relabel" -> Append(Front(out), <<i[2], top[2]>>)
      [] i[1] = "drop" -> Front(out)
      [] i[1] = "infix_node" ->
           Append(SubSeq(out, 1, Len(out) - 3),
                  <<"Binary", out[Len(out) - 1], out[Len(out) - 2], top>>)
      [] i[1] = "dup" -> Append(out, top)
      [] i[1] = "swap" -> SubSeq(out, 1, Len(out) - 2) \o <<top, out[Len(out) - 1]>>
      [] i[1] = "discard" -> SubSeq(out, 1, fr.base)
      [] i[1] = "keep" ->
           Append(SubSeq(out, 1, Len(out) - i[3]), out[Len(out) - i[3] + i[2]])
      [] i[1] = "peel" -> Append(Front(out), Peeled(top))
      [] i[1] = "until_with" ->
           LET left == out[Len(out) - 2]
               and == IF sva_temporal_ast(left) \/ sva_temporal_ast(top)
                        THEN "SvaAnd" ELSE "LogAnd"
           IN  Append(Front(out), <<"Paren", <<"Binary", <<and, pos>>, left, top>>>>)
DoBuild(i, l) ==
    /\ i[1] \in {"leaf", "node", "build", "member", "relabel", "drop", "dup",
                  "swap", "discard", "keep", "peel", "until_with", "infix_node"}
    /\ out' = Built(i)
    /\ Goto(l)
    /\ UNCHANGED <<source, pos, errors, ctx>>

\* The cursor saved, set back, or moved to the end of a skipped text.
DoMark(i, l) ==
    /\ i[1] = "mark"
    /\ stack' = <<[fr EXCEPT !.pc = l, !.mark = Here]>> \o Tail(stack)
    /\ UNCHANGED <<source, pos, out, errors, ctx>>
DoMove(i, l) ==
    /\ i[1] \in {"rewind", "balanced", "skip"}
    /\ pos' = CASE i[1] = "rewind" -> fr.mark.pos
                [] pos > Len(Tokens) -> pos
                [] i[1] = "balanced" -> Closing(pos, {i[2]}, {i[3]})
                [] i[1] = "skip" -> End(i[2])
    /\ Goto(l)
    /\ UNCHANGED <<source, out, errors, ctx>>
\* What has been reported since the mark is taken back.
DoRetract(i, l) ==
    /\ i[1] = "retract"
    /\ errors' = fr.mark.errors
    /\ Goto(l)
    /\ UNCHANGED <<source, pos, out, ctx>>

\* A flag or a queue of the parser; a pop of an empty queue does nothing.
DoContext(i, l) ==
    /\ i[1] \in {"set", "restore", "add", "sub"}
    /\ ctx' = [ctx EXCEPT ![i[2]] =
                  CASE i[1] = "set" -> i[3]
                    [] i[1] = "restore" -> fr.local[i[2]]
                    [] i[1] = "add" -> @ + i[3]
                    [] i[1] = "sub" -> IF @ = 0 THEN 0 ELSE @ - i[3]]
    /\ Goto(l)
    /\ UNCHANGED <<source, pos, out, errors>>
\* A local variable gets a value, or the value of a flag or a queue.
DoLocal(i, l) ==
    /\ i[1] \in {"save", "let"}
    /\ LET value == IF i[1] = "save" THEN ctx[i[2]] ELSE i[3]
       IN  stack' = <<[fr EXCEPT !.pc = l, !.local = (i[2] :> value) @@ @]>> \o Tail(stack)
    /\ UNCHANGED <<source, pos, out, errors, ctx>>

--------------------------------------------------------------------------------
\* Parser::new.
Init ==
    /\ source \in Sources
    /\ pos = 1 /\ out = <<>> /\ errors = 0
    /\ ctx = [in_sva_seq |-> source.sva, sva_delay_count |-> FALSE,
              in_constraint |-> FALSE, prototype_ports |-> FALSE,
              sv2023 |-> source.sv2023, strict |-> source.strict,
              bindings |-> 0, paren_dist |-> 0, pure_constraints |-> 0,
              impure_classes |-> 0, plain_loop_vars |-> 0, port_exprs |-> 0,
              pending |-> 0, generate_depth |-> 0, let_scopes |-> 0]
    /\ stack = <<Activation(source.entry, 0, FALSE)>>

Execute(i, l) ==
    \/ DoBump(i, l) \/ DoExpect(i, l) \/ DoError(i, l) \/ DoCall(i, l)
    \/ DoBuild(i, l) \/ DoMark(i, l) \/ DoMove(i, l) \/ DoRetract(i, l)
    \/ DoContext(i, l) \/ DoLocal(i, l)

Next ==
    /\ stack # <<>>
    /\ \/ DoReturn
       \/ /\ fr.pc # 0
          /\ \E i \in {Code[fr.r][fr.pc]} :
               \/ DoTest(i)
               \/ i[1] = "do" /\ Execute(i[2], i[3])

Spec == Init /\ [][Next]_vars /\ WF_vars(Next)

Done == stack = <<>>
===============================================================================
