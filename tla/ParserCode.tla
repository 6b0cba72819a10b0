------------------------------ MODULE ParserCode ------------------------------
(***************************************************************************)
(* The vocabulary in which the routines of the recursive descent parser   *)
(* (xezim-parser/src/parse) are written down.  A routine is a sequence of  *)
(* instructions; an instruction is a tuple whose first component says what *)
(* it does to the token cursor, the context flags or the expressions built *)
(* so far.  Module Parser gives the instructions their meaning, one action *)
(* per instruction.  What the parser writes into the tree, other than the  *)
(* shape of expressions, is left out; every token it consumes, every test  *)
(* it makes, every error it reports and every flag it sets is kept.        *)
(***************************************************************************)
EXTENDS Naturals, Sequences

(***************************************************************************)
(* Tokens are named as TokenKind names them.  A name the code tells apart  *)
(* by its text has a kind of its own: the lone tick (an IntegerLiteral),   *)
(* $root, $unit, the sampled value functions and the timing checks, and    *)
(* the identifiers randomize and option (or type_option).                  *)
(***************************************************************************)
PlainName == {"Identifier", "randomize", "option"}
Name == PlainName \cup {"EscapedIdentifier"}
SysName == {"SystemIdentifier", "$root", "$unit", "$past", "$setuphold"}
Numeral == {"IntegerLiteral", "Tick", "RealLiteral", "TimeLiteral"}

(***************************************************************************)
(* Tests.                                                                  *)
(***************************************************************************)
At(K) == <<"at", K>>                  \* self.at / at_any
Ahead(n, K) == <<"ahead", n, K>>      \* self.peek_kind_n(n)
Behind(n, K) == <<"behind", n, K>>    \* self.tokens[self.pos - n].kind
Ctx(f) == <<"ctx", f>>                \* a flag of the parser
Some(f) == <<"some", f>>              \* a queue or counter is not empty
Saved(f) == <<"saved", f>>            \* the routine's own copy of a flag
Arg(n) == <<"arg", n>>                \* the routine was called with n
Result(K) == <<"result", K>>          \* the kind of the last expression built
Look(p) == <<"look", p>>              \* a pure lookahead walk, by name
Idle == <<"idle">>                    \* self.pos == before
Clean == <<"clean">>                  \* no diagnostic since the mark
Not(c) == <<"not", c>>
AllOf(cs) == <<"all", cs>>
AnyOf(cs) == <<"any", cs>>

(***************************************************************************)
(* Instructions.                                                           *)
(***************************************************************************)
Bump == <<"bump">>
Expect(k) == <<"expect", k>>
Error == <<"error">>                  \* a diagnostic of severity Error
Call(r) == <<"call", r, 0, FALSE>>
CallWith(r, n) == <<"call", r, n, FALSE>>
Expr(bp) == CallWith("parse_expr_bp_ctx", bp)
ExprCtx(bp) == <<"inner", bp>>        \* parse_expr_bp_ctx(bp, no_arrow)
If(c, a, b) == <<"if", c, a, b>>
When(c, a) == If(c, a, <<>>)
Switch(arms, default) == <<"switch", arms, default>>
While(c, body) == <<"while", c, body>>
Loop(body) == <<"loop", body>>
Break == <<"break">>
Return == <<"return">>
Tight(bp) == <<"tight", bp>>          \* if bp < min_bp { break }; 0: of the operator
Operand(n) == <<"operand", n>>        \* parse_expr_bp_ctx(r_bp, no_arrow) of the
                                      \* operator below the last n expressions
InfixNode == <<"infix_node">>
UntilWith == <<"until_with">>
Leaf(l) == <<"leaf", l>>
Node(l) == <<"node", l>>              \* over all the routine has built
Build(l, n) == <<"build", l, n>>      \* over the last n expressions
Member == <<"member">>                \* .name of the last expression
PeelParens == <<"peel">>              \* while let Paren(e) = lhs { lhs = e }
Drop == <<"drop">>
Relabel(l) == <<"relabel", l>>
Dup == <<"dup">>
Swap == <<"swap">>                    \* the last two expressions change places
Keep(i, n) == <<"keep", i, n>>        \* of the last n expressions the i-th
Mark == <<"mark">>                    \* let before = self.pos, and diagnostics.len()
Rewind == <<"rewind">>                \* self.pos = before
Retract == <<"retract">>              \* self.diagnostics.truncate(before)
Discard == <<"discard">>              \* the routine drops what it has built
Balanced(open, close) == <<"balanced", open, close>>
Skip(p) == <<"skip", p>>              \* the end of a walk over tokens, by name
Save(f) == <<"save", f>>
Let(f, v) == <<"let", f, v>>          \* a local variable
Set(f, v) == <<"set", f, v>>
Restore(f) == <<"restore", f>>
Add(f) == <<"add", f, 1>>             \* push, or += 1
Sub(f) == <<"sub", f, 1>>             \* pop, or -= 1
Drain(f) == <<"set", f, 0>>           \* std::mem::take of a queue

Eat(k) == When(At({k}), <<Bump>>)
EatOrBreak(k) == If(At({k}), <<Bump>>, <<Break>>)
BreakIf(c) == When(c, <<Break>>)
Until(K) == While(Not(At(K \cup {"Eof"})), <<Bump>>)
SkipTo(K, k) == <<Until(K), Expect(k)>>
\* Items separated by commas: at least one.
CommaList(item) == Loop(item \o <<EatOrBreak("Comma")>>)
\* Items separated by commas up to a closing token, none at all included.
ClosedList(close, item) ==
    Loop(<<BreakIf(At({close, "Eof"}))>> \o item \o <<EatOrBreak("Comma")>>)
===============================================================================
