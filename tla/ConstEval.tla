----------------------------- MODULE ConstEval -----------------------------
(***************************************************************************)
(* Constant expressions (src/elaborate.rs).  The program has two           *)
(* evaluators over the same tree: one in four-state values, which sizes    *)
(* and signs what it computes, and one in 64-bit integers for dimensions,  *)
(* which gives up (None) where it cannot tell.  Each calls the other, and  *)
(* both interpret the bodies of constant functions.                        *)
(*                                                                         *)
(* An expression is a record whose field k names its kind; parentheses are *)
(* not kept.  Reals, strings, assignment patterns, scoped and hierarchical *)
(* names and queries of declared variables are left out.  A `None` is the  *)
(* empty sequence, a `Some` a sequence of one.                             *)
(***************************************************************************)
EXTENDS ValueArith, SequencesExt

CONSTANTS IntWidth,  \* bits of an int and of an unsized literal (32)
          Fuel,      \* statements one call may execute (100 000)
          MaxDepth   \* nesting of calls (64)

ASSUME ConstAssumption == /\ IntWidth \in 1 .. W
                          /\ Fuel \in Nat
                          /\ MaxDepth \in Nat

None == <<>>
Some(v) == <<v>>
Is(o) == o # None
The(o) == o[1]
OrElse(o, v) == IF Is(o) THEN The(o) ELSE v
Then(o, F(_)) == IF Is(o) THEN F(The(o)) ELSE None

\* The table of parameters and locals an expression reads is env.params; the
\* packed layouts and element shapes bound to names, the typedefs and the
\* functions are beside it, and env.table is the module's own table.
Known_(env, n) == n \in DOMAIN env.params

BitOps == {"&", "|", "^", "~^"}
Arith == {"+", "-", "*", "/", "%"} \cup BitOps
Shifts == {"<<", "<<<", ">>", ">>>", "**"}
Compare == {"==", "!=", "===", "!==", "==?", "!=?", "<", "<=", ">", ">="}
Logical == {"&&", "||", "->", "<->"}
Reduction == {"&", "~&", "|", "~|", "^", "~^"}
Keeping == {"+", "-", "~"}

-----------------------------------------------------------------------------
(* Values of operators, shared by the evaluator and its context fold *)

BinaryValue(op, l, r) ==
  CASE op = "+" -> Add(l, r)
    [] op = "-" -> Sub(l, r)
    [] op = "*" -> Mul(l, r)
    [] op = "/" -> Div(l, r)
    [] op = "%" -> Modulo(l, r)
    [] op = "**" -> Power(l, r)
    [] op = "==" -> IsEqual(l, r)
    [] op = "!=" -> IsNotEqual(l, r)
    [] op = "===" -> CaseEq(l, r)
    [] op = "!==" -> LogicNot(CaseEq(l, r))
    [] op = "==?" -> WildcardEq(l, r)
    [] op = "!=?" -> WildcardNe(l, r)
    [] op = "<" -> LessThan(l, r)
    [] op = "<=" -> LessEqual(l, r)
    [] op = ">" -> GreaterThan(l, r)
    [] op = ">=" -> GreaterEqual(l, r)
    [] op \in {"<<", "<<<"} -> ShiftLeft(l, r)
    [] op = ">>" -> ShiftRight(l, r)
    [] op = ">>>" -> ArithShiftRight(l, r)
    [] op = "&" -> BitwiseAnd(l, r)
    [] op = "|" -> BitwiseOr(l, r)
    [] op = "^" -> BitwiseXor(l, r)
    [] op = "~^" -> BitwiseNot(BitwiseXor(l, r))
    [] op = "&&" -> LogicAnd(l, r)
    [] op = "||" -> LogicOr(l, r)
    [] op = "->" -> LogicImpl(l, r)
    [] op = "<->" -> LogicEquiv(l, r)

Reduced(op, v) ==
  CASE op = "&" -> ReduceAnd(v)
    [] op = "|" -> ReduceOr(v)
    [] op = "^" -> ReduceXor(v)
    [] op = "~&" -> BitwiseNot(ReduceAnd(v))
    [] op = "~|" -> BitwiseNot(ReduceOr(v))
    [] op = "~^" -> BitwiseNot(ReduceXor(v))

UnaryValue(op, v) ==
  CASE op = "+" -> v
    [] op = "-" -> Negate(v)
    [] op = "~" -> BitwiseNot(v)
    [] op = "!" -> LogicNot(v)
    [] op \notin Keeping \cup {"!"} -> Reduced(op, v)

IsTrue(v) == IsNonzero(v) = "1"

\* ceil_log2 and both $clog2: the bits that number n things.
CeilLog2(n) == IF n <= 1 THEN 0 ELSE CHOOSE r \in 1 .. 2*W : 2^(r-1) < n /\ n <= 2^r

Ones(m) == Cardinality({i \in 0 .. W-1 : (m \div 2^i) % 2 = 1})

\* The count functions over the bits of a machine word, x and z read as 0;
\* $countbits looks no further than the highest 1.
CountOf(f, raw, wanted) ==
  LET top == Cardinality({i \in 0 .. W-1 : raw \div 2^i > 0}) IN
  CASE f = "$countones" -> Ones(raw)
    [] f = "$onehot" -> IF Ones(raw) = 1 THEN 1 ELSE 0
    [] f = "$onehot0" -> IF Ones(raw) <= 1 THEN 1 ELSE 0
    [] f = "$isunknown" -> 0
    [] f = "$countbits" -> (IF 1 \in wanted THEN Ones(raw) ELSE 0)
                           + (IF 0 \in wanted THEN top - Ones(raw) ELSE 0)

Counts == {"$countones", "$onehot", "$onehot0", "$isunknown", "$countbits"}
OneBit == {"$onehot", "$onehot0", "$isunknown"}

\* The bounds of a part-select: two positions, or a start and a width.
Bounds(kind, l, r) ==
  CASE kind = ":" -> <<Larger(l, r), Smaller(l, r)>>
    [] kind = "+:" -> <<l + r - 1, l>>
    [] kind = "-:" -> <<l, l - r + 1>>

\* const_packed_array_elem and const_fn_packed_slot: where element i of a
\* packed array lies, counted from the top when the range ascends.
PackedSlot(shape, width, i) ==
  LET n == width \div shape.ew
      slot == IF shape.msb0 THEN Larger(n - 1 - i, 0) ELSE i
  IN IF shape.ew = 0 \/ width < shape.ew \/ (slot + 1) * shape.ew > width
     THEN None ELSE Some(slot * shape.ew)

\* A literal: digits beyond the size are dropped.
Literal(e) ==
  LET w == IF e.size = 0 THEN IntWidth ELSE e.size
      n == FromNat(e.v, w)
  IN [n EXCEPT !.xz = e.xz \cap Mask(w), !.is_signed = e.signed]

\* const_value_literal: a value spelled as a sized literal.
ValueLiteral(v) == [k |-> "num", size |-> v.width, signed |-> v.is_signed, v |-> Num(v.val), xz |-> v.xz]

-----------------------------------------------------------------------------
(* Types: untyped, an int, a vector (with ranges), a packed struct, a name *)

RECURSIVE Resolved(_, _)
Resolved(t, env) == IF t.k = "ref" /\ t.n \in DOMAIN env.types THEN Resolved(env.types[t.n], env) ELSE t

\* is_type_signed of a resolved type.
SignedType(t) == CASE t.k = "int" -> TRUE
                   [] t.k = "vec" -> t.signed
                   [] t.k = "untyped" -> t.signing = "signed"
                   [] t.k \in {"struct", "ref"} -> FALSE

TwoStateType(t) == t.k = "int" \/ (t.k = "vec" /\ t.two)
InStatesOf(t, v) == IF TwoStateType(t) THEN ToTwoState(v) ELSE v

RECURSIVE ExprHasCall(_)
ExprHasCall(e) ==
  CASE e.k = "call" -> TRUE
    [] e.k = "bin" -> ExprHasCall(e.a) \/ ExprHasCall(e.b)
    [] e.k = "un" -> ExprHasCall(e.a)
    [] e.k = "cond" -> ExprHasCall(e.c) \/ ExprHasCall(e.a) \/ ExprHasCall(e.b)
    [] e.k \notin {"call", "bin", "un", "cond"} -> FALSE

\* is_const_expr: every name is known.
RECURSIVE IsConstExpr(_, _)
IsConstExpr(e, env) ==
  LET All(es) == \A i \in DOMAIN es : IsConstExpr(es[i], env) IN
  CASE e.k \in {"num", "fill", "type"} -> TRUE
    [] e.k = "id" -> Known_(env, e.n)
    [] e.k \in {"un", "mem"} -> IsConstExpr(e.a, env)
    [] e.k = "bin" -> All(<<e.a, e.b>>)
    [] e.k = "cond" -> All(<<e.c, e.a, e.b>>)
    [] e.k = "cat" -> All(e.es)
    [] e.k = "idx" -> All(<<e.a, e.i>>)
    [] e.k = "cast" -> /\ IsConstExpr(e.a, env)
                       /\ e.how = "size" => IsConstExpr(e.t, env)
                       /\ e.how = "named" => Known_(env, e.t) \/ e.t \in DOMAIN env.types
    [] e.k = "sys" -> All(e.args)
    [] e.k \in {"rep", "rng", "call"} -> FALSE

\* is_context_operator: a surrounding context widens the operands.
IsContextOperator(e) == \/ e.k = "bin" /\ e.op \in Arith \cup Shifts
                        \/ e.k = "un" /\ e.op \in Keeping
                        \/ e.k = "cond"

\* The field of a struct the base names, relative to the base's own value.
FieldOf(base, f, env) ==
  LET root == IF base.k = "id" THEN base.n ELSE base.a.n IN
  IF root \in DOMAIN env.layout /\ f \in DOMAIN env.layout[root] THEN Some(env.layout[root][f]) ELSE None

\* What is written as functions that call one another is one recursive
\* operator here, asked for one of them: x is what the function takes
\* beside its environment.
RECURSIVE Evaluate(_, _, _)
EvalConstExprVal(e, env) == Evaluate("value", <<e>>, env)
Operate(op, l, r, env) == Evaluate("operator", <<op, l, r>>, env)
EvalConstExprValCtx(e, env, ctx) == Evaluate("value in context", <<e, ctx>>, env)
ConstEvalI64(e, env) == Evaluate("integer", <<e>>, env)
ConstSelfWidth(e, env) == Evaluate("width", <<e>>, env)
BitsOf(e, env) == Evaluate("bits", <<e>>, env)
ResolveTypeWidth(t, env) == Evaluate("width of type", <<t>>, env)
ConstEvalUserCall(e, env) == Evaluate("call", <<e>>, env)
Substitute(e, env, depth) == Evaluate("substituted", <<e, depth>>, env)
EvalConstUserFunction(fd, argv, env, depth) == Evaluate("function", <<fd, argv, depth>>, env)
ExecBody(ss, st, env, depth) == Evaluate("body", <<ss, st, depth>>, env)
EvalFnExpr(e, st, env, depth) == Evaluate("within function", <<e, st, depth>>, env)
DeclaredValue(phase, d, over, old, scope, env) == Evaluate(phase, <<d, over, old, scope>>, env)

-----------------------------------------------------------------------------
(* The evaluator in values *)

\* A concatenation, joined from its last part.
Joined(es, env) == FoldRight(LAMBDA p, r : Concat(EvalConstExprVal(p, env), r), es, Zero(0))

\* The number of copies: none for an unknown or negative count.
Copies(c) == CASE HasXZ(c) -> 0
               [] ~HasXZ(c) /\ c.is_signed -> Larger(ToI64(c), 0)
               [] ~HasXZ(c) /\ ~c.is_signed -> ToU64(c)

IndexValue(e, env) ==
  LET V(x) == EvalConstExprVal(x, env)
      base == V(e.a)
      i == ToU64(V(e.i))
      elem == IF e.a.k = "id" /\ e.a.n \in DOMAIN env.elem
              THEN PackedSlot(env.elem[e.a.n], base.width, i) ELSE None
  IN CASE Is(elem) -> RangeSelect(base, The(elem) + env.elem[e.a.n].ew - 1, The(elem))
       [] ~Is(elem) /\ i % 2^IndexBits < base.width -> RangeSelect(base, i, i)
       [] ~Is(elem) /\ i % 2^IndexBits >= base.width -> Zero(1)

RangeValue(e, env) ==
  LET V(x) == EvalConstExprVal(x, env)
      base == V(e.a)
      b == Bounds(e.kind, ToI64(V(e.l)), ToI64(V(e.r)))
  IN IF b[2] >= 0 /\ b[1] >= b[2] /\ b[1] < base.width
     THEN RangeSelect(base, b[1], b[2])
     ELSE Zero(Larger(b[1] - b[2] + 1, 1))

MemberValue(e, env) ==
  LET base == EvalConstExprVal(e.a, env)
      field == FieldOf(e.a, e.f, env)
  IN IF Is(field) /\ The(field).w > 0 /\ The(field).off + The(field).w <= base.width
     THEN RangeSelect(base, The(field).off + The(field).w - 1, The(field).off)
     ELSE Zero(IntWidth)

SystemValue(e, env) ==
  LET vs == [i \in DOMAIN e.args |-> EvalConstExprVal(e.args[i], env)]
      v == vs[1]
      wanted == {ToU64(vs[i]) : i \in 2 .. Len(vs)}
  IN CASE e.f = "$clog2" -> FromNat(CeilLog2(ToU64(v)), IntWidth)
       [] e.f = "$bits" -> LET b == BitsOf(e.args[1], env) IN FromNat(IF Is(b) THEN The(b) ELSE 0, IntWidth)
       [] e.f \in {"$signed", "$unsigned"} -> [v EXCEPT !.is_signed = (e.f = "$signed")]
       [] e.f \in Counts -> FromNat(CountOf(e.f, ToU64(v), wanted), IF e.f \in OneBit THEN 1 ELSE IntWidth)

\* A cast to a size, to a constant used as a size, or to a type: the target
\* is the operand's context.
CastValue(e, env) ==
  LET constant == e.how = "named" /\ Known_(env, e.t)
      typed == e.how = "type" \/ (e.how = "named" /\ ~Known_(env, e.t) /\ e.t \in DOMAIN env.types)
      t == IF e.how = "type" THEN e.t ELSE env.types[e.t]
      w == Larger(1, CASE e.how = "size" -> ToU64(EvalConstExprVal(e.t, env))
                       [] constant -> ToU64(env.params[e.t])
                       [] typed -> ResolveTypeWidth(t, env))
  IN IF e.how = "named" /\ ~constant /\ ~typed THEN EvalConstExprVal(e.a, env)
     ELSE [Resize(EvalConstExprValCtx(e.a, env, w), w)
           EXCEPT !.is_signed = CASE e.how = "size" -> @
                                  [] constant -> FALSE
                                  [] typed -> SignedType(Resolved(t, env))]

\* eval_const_expr_val: bottom up, an unknown name reading as 0.  A function
\* of the name clog2 is taken for $clog2.
ValueOf(e, env) ==
  LET V(x) == EvalConstExprVal(x, env)
  IN CASE e.k = "num" -> Literal(e)
       [] e.k = "fill" -> FillOf(e.bit)
       [] e.k = "id" -> IF Known_(env, e.n) THEN env.params[e.n] ELSE Zero(IntWidth)
       [] e.k = "bin" -> Operate(e.op, V(e.a), V(e.b), env)
       [] e.k = "un" -> UnaryValue(e.op, V(e.a))
       [] e.k = "cond" -> IF IsTrue(V(e.c)) THEN V(e.a) ELSE V(e.b)
       [] e.k = "cat" -> Joined(e.es, env)
       [] e.k = "rep" -> Replicate(Joined(e.es, env), Copies(V(e.n)))
       [] e.k = "idx" -> IndexValue(e, env)
       [] e.k = "rng" -> RangeValue(e, env)
       [] e.k = "mem" -> MemberValue(e, env)
       [] e.k = "sys" -> SystemValue(e, env)
       [] e.k = "cast" -> CastValue(e, env)
       [] e.k = "call" /\ e.f = "clog2" -> FromNat(CeilLog2(ToU64(V(e.args[1]))), IntWidth)
       [] e.k = "call" /\ e.f # "clog2" -> OrElse(ConstEvalUserCall(e, env), Zero(IntWidth))

\* const_ctx_fold: the operands are extended to the context before the
\* operator applies; shift amounts and exponents stay their own size.
RECURSIVE ConstCtxFold(_, _, _, _)
ConstCtxFold(e, env, w, signed) ==
  LET Fold(x) == ConstCtxFold(x, env, w, signed)
      V(x) == EvalConstExprVal(x, env)
      own == V(e)
      cond == V(e.c)
      arm == Fold(IF IsTrue(cond) THEN e.a ELSE e.b)
      l == Fold(e.a)
      r == IF e.op \in Arith THEN Fold(e.b) ELSE Some(V(e.b))
  IN CASE e.k = "bin" /\ IsContextOperator(e) ->
            IF Is(l) /\ Is(r) THEN Some(Operate(e.op, The(l), The(r), env)) ELSE None
       [] e.k = "un" /\ IsContextOperator(e) -> IF Is(l) THEN Some(UnaryValue(e.op, The(l))) ELSE None
       [] e.k = "cond" -> IF HasXZ(cond) THEN None ELSE arm
       [] ~IsContextOperator(e) ->
            Some(ResizeForAssign(IF signed THEN own ELSE [own EXCEPT !.is_signed = FALSE], w))

\* eval_const_expr_val_ctx
ValueInContext(e, env, ctx) ==
  LET own == EvalConstExprVal(e, env)
      fold == ConstCtxFold(e, env, Larger(ctx, own.width), own.is_signed)
  IN IF ~own.is_fill /\ IsContextOperator(e) THEN OrElse(fold, own) ELSE own

\* convert_param_value: the value assigned to a parameter of integral type,
\* its source expression read in the scope it is written in.
Convert(t, e, scope, w) ==
  InStatesOf(t, [ResizeForAssign(EvalConstExprValCtx(e, scope, w), w) EXCEPT !.is_signed = SignedType(t)])

-----------------------------------------------------------------------------
(* The evaluator in machine integers *)

InRange(n) == IF -(2^(W-1)) <= n /\ n < 2^(W-1) THEN Some(n) ELSE None
Wrap(n) == Signed(n % B, W)
BitsOfInt(n) == {i \in 0 .. W-1 : ((n % B) \div 2^i) % 2 = 1}
OfBits(S) == Signed(Num(S), W)

I64Power(l, e) == CASE e < 0 -> None
                    [] e >= 0 /\ l \in {-1, 0, 1} -> Some(IF e = 0 THEN 1 ELSE IF e % 2 = 0 THEN l * l ELSE l)
                    [] e >= W /\ l \notin {-1, 0, 1} -> None
                    [] e \in 0 .. W-1 /\ l \notin {-1, 0, 1} -> InRange(l^e)

\* The operators over i64: sums, products and powers give up on overflow,
\* shift amounts wrap at the word.
I64Binary(op, l, r) ==
  LET amount == (r % 2^IndexBits) % W
      Bool(P) == Some(IF P THEN 1 ELSE 0)
  IN CASE op = "+" -> InRange(l + r)
       [] op = "-" -> InRange(l - r)
       [] op = "*" -> InRange(l * r)
       [] op = "/" -> IF r = 0 THEN None ELSE Some(Quot(l, r))
       [] op = "%" -> IF r = 0 THEN None ELSE Some(Rem(l, r))
       [] op = "**" -> I64Power(l, r)
       [] op \in {"<<", "<<<"} -> Some(Wrap(l * 2^amount))
       [] op = ">>" -> Some(Wrap((l % B) \div 2^amount))
       [] op = ">>>" -> Some(l \div 2^amount)
       [] op = "&" -> Some(OfBits(BitsOfInt(l) \cap BitsOfInt(r)))
       [] op = "|" -> Some(OfBits(BitsOfInt(l) \cup BitsOfInt(r)))
       [] op = "^" -> Some(OfBits(Differ(BitsOfInt(l), BitsOfInt(r))))
       [] op = "~^" -> Some(OfBits(0 .. W-1 \ Differ(BitsOfInt(l), BitsOfInt(r))))
       [] op \in {"==", "==="} -> Bool(l = r)
       [] op \in {"!=", "!=="} -> Bool(l # r)
       [] op = "<" -> Bool(l < r)
       [] op = "<=" -> Bool(l <= r)
       [] op = ">" -> Bool(l > r)
       [] op = ">=" -> Bool(l >= r)
       [] op \in {"==?", "!=?", "->", "<->"} -> None

\* Mutant: a reduction of the machine word.
I64UnaryOfWord(e, env) ==
  LET v == ConstEvalI64(e.a, env)
  IN CASE ~Is(v) -> None
       [] e.op \in Reduction -> Some(ToI64(Reduced(e.op, FromNat(The(v) % B, W))))
       [] e.op \notin Reduction -> Some(ToI64(UnaryValue(e.op, [FromNat(The(v) % B, W) EXCEPT !.is_signed = TRUE])))

\* A reduction is taken over the value, before it is narrowed.
I64Unary(e, env) ==
  LET v == ConstEvalI64(e.a, env)
      reduced == Reduced(e.op, EvalConstExprVal(e.a, env))
  IN CASE e.op \in Reduction /\ (Is(v) \/ IsConstExpr(e.a, env)) ->
            IF HasXZ(reduced) THEN None ELSE Some(ToI64(reduced))
       [] e.op \in Reduction /\ ~(Is(v) \/ IsConstExpr(e.a, env)) -> None
       [] e.op \notin Reduction /\ ~Is(v) -> None
       [] e.op = "+" /\ Is(v) -> v
       [] e.op = "-" /\ Is(v) -> Some(Wrap(-The(v)))
       [] e.op = "~" /\ Is(v) -> Some(-The(v) - 1)
       [] e.op = "!" /\ Is(v) -> Some(IF The(v) = 0 THEN 1 ELSE 0)

I64System(e, env) ==
  LET vs == [i \in DOMAIN e.args |-> ConstEvalI64(e.args[i], env)]
      v == vs[1]
      wanted == {The(vs[i]) : i \in {i \in 2 .. Len(vs) : Is(vs[i])}}
  IN CASE e.f = "$bits" -> BitsOf(e.args[1], env)
       [] e.f # "$bits" /\ ~Is(v) -> None
       [] e.f = "$clog2" /\ Is(v) -> Some(CeilLog2(The(v)))
       [] e.f \in {"$signed", "$unsigned"} /\ Is(v) -> v
       [] e.f \in Counts /\ Is(v) -> Some(CountOf(e.f, The(v) % B, wanted))

\* const_concat_bits: the bits and the width of sized literals, parameters
\* and their concatenations, while they fit a word.
RECURSIVE ConstConcatBits(_, _)
ConstConcatBits(e, env) ==
  LET Join(parts) ==
        FoldLeft(LAMBDA acc, p : IF Is(acc) /\ Is(p) /\ The(acc)[2] + The(p)[2] <= W
                                 THEN Some(<<The(acc)[1] * 2^(The(p)[2]) + The(p)[1], The(acc)[2] + The(p)[2]>>)
                                 ELSE None,
                 Some(<<0, 0>>), parts)
      Of(es) == [i \in DOMAIN es |-> ConstConcatBits(es[i], env)]
      lit == Literal(e)
      n == ConstEvalI64(e.n, env)
  IN CASE e.k = "num" /\ e.size > 0 /\ ~HasXZ(lit) /\ e.size <= W -> Some(<<ToU64(lit), e.size>>)
       [] e.k = "id" /\ Known_(env, e.n) /\ ~HasXZ(env.params[e.n]) /\ env.params[e.n].width <= W ->
            Some(<<ToU64(env.params[e.n]), env.params[e.n].width>>)
       [] e.k = "cat" -> Join(Of(e.es))
       [] e.k = "rep" -> IF Is(n) /\ The(n) >= 0
                         THEN Join(FlattenSeq([i \in 1 .. Smaller(The(n), W + 1) |-> Of(e.es)])) ELSE None
       [] OTHER -> None

\* const_eval_i64_with_params
IntegerOf(e, env) ==
  LET I(x) == ConstEvalI64(x, env)
      V == EvalConstExprVal(e, env)
      l == I(e.a)
      called == ConstEvalUserCall(e, env)
      bits == ConstConcatBits(e, env)
  IN CASE e.k = "num" -> IF e.xz # {} THEN None ELSE InRange(e.v)
       [] e.k = "fill" -> IF e.bit \in Known THEN Some(IF e.bit = "1" THEN 1 ELSE 0) ELSE None
       [] e.k = "id" -> IF Known_(env, e.n) THEN Some(ToI64(env.params[e.n])) ELSE None
       [] e.k = "bin" /\ e.op \in {"&&", "||"} ->
            LET r == IF Is(l) /\ (The(l) = 0) = (e.op = "&&") THEN l ELSE I(e.b)
            IN IF Is(l) /\ Is(r) THEN Some(IF The(r) # 0 THEN 1 ELSE 0) ELSE None
       [] e.k = "bin" /\ e.op \notin {"&&", "||"} ->
            LET r == I(e.b) IN IF Is(l) /\ Is(r) THEN I64Binary(e.op, The(l), The(r)) ELSE None
       [] e.k = "un" -> I64Unary(e, env)
       [] e.k = "cond" -> LET c == I(e.c) IN IF Is(c) THEN I(IF The(c) # 0 THEN e.a ELSE e.b) ELSE None
       [] e.k = "sys" -> I64System(e, env)
       [] e.k = "cast" -> IF HasXZ(V) THEN None ELSE Some(ToI64(V))
       [] e.k \in {"idx", "mem"} -> Some(Signed(ToU64(V), W))
       [] e.k \in {"cat", "rep"} -> IF Is(bits) /\ The(bits)[2] > 0 THEN Some(Signed(The(bits)[1], W)) ELSE None
       [] e.k = "call" /\ Is(called) -> Some(ToI64(The(called)))
       [] e.k = "call" /\ ~Is(called) /\ e.f = "clog2" ->
            LET n == I(e.args[1]) IN IF Is(n) THEN Some(CeilLog2(The(n) % B)) ELSE None
       [] (e.k = "call" /\ ~Is(called) /\ e.f # "clog2") \/ e.k \in {"rng", "type"} -> None

-----------------------------------------------------------------------------
(* Widths *)

\* The ranges of a type that can be evaluated multiply its width; one that
\* cannot is left out.
Extent(dims, env) ==
  FoldLeft(LAMBDA w, d : LET b == [i \in 1 .. 2 |-> ConstEvalI64(d[i], env)]
                         IN IF Is(b[1]) /\ Is(b[2]) THEN w * (Magnitude(The(b[1]) - The(b[2])) + 1) ELSE w,
           1, dims)

\* resolve_type_width
TypeWidth(t, env) ==
  CASE t.k = "untyped" -> 1
    [] t.k = "int" -> IntWidth
    [] t.k = "vec" -> Smaller(Extent(t.dims, env), MaxWidth)
    [] t.k = "struct" -> FoldLeft(LAMBDA w, f : w + f.w, 0, t.fields)
    [] t.k = "ref" -> IF t.n \in DOMAIN env.types THEN ResolveTypeWidth(env.types[t.n], env) ELSE IntWidth

Positive(o) == IF Is(o) /\ The(o) > 0 THEN o ELSE None

\* const_cast_bits
CastBits(e, env) ==
  LET Of(t) == Some(ResolveTypeWidth(t, env)) IN
  Positive(CASE e.how = "size" -> ConstEvalI64(e.t, env)
             [] e.how = "type" -> Of(e.t)
             [] e.how = "named" /\ Known_(env, e.t) -> Some(ToU64(env.params[e.t]))
             [] e.how = "named" /\ ~Known_(env, e.t) -> IF e.t \in DOMAIN env.types THEN Of(env.types[e.t]) ELSE None)

AddWidths(ws) == FoldLeft(LAMBDA t, w : IF Is(t) /\ Is(w) THEN Some(The(t) + The(w)) ELSE None, Some(0), ws)
WiderOf(v, w) == IF Is(v) /\ Is(w) THEN Some(Larger(The(v), The(w))) ELSE None

\* const_self_width
SelfWidth(e, env) ==
  LET S(x) == ConstSelfWidth(x, env)
      Total(es) == AddWidths([i \in DOMAIN es |-> S(es[i])])
  IN CASE e.k = "num" -> Some(IF e.size = 0 THEN IntWidth ELSE e.size)
       [] e.k = "fill" -> Some(1)
       [] e.k = "cast" -> CastBits(e, env)
       [] e.k = "sys" -> IF e.f \in {"$signed", "$unsigned"} THEN S(e.args[1]) ELSE None
       [] e.k = "cat" -> Total(e.es)
       [] e.k = "rep" -> LET n == ConstEvalI64(e.n, env)
                             one == Total(e.es)
                         IN IF Is(n) /\ The(n) >= 0 /\ Is(one) THEN Some(The(one) * The(n)) ELSE None
       [] e.k = "un" -> IF e.op \in Keeping THEN S(e.a) ELSE Some(1)
       [] e.k = "bin" /\ e.op \in Compare \cup Logical -> Some(1)
       [] e.k = "bin" /\ e.op \in Shifts -> S(e.a)
       [] e.k = "bin" /\ e.op \in Arith -> WiderOf(S(e.a), S(e.b))
       [] e.k = "cond" -> WiderOf(S(e.a), S(e.b))
       [] e.k = "call" -> IF e.f \in DOMAIN env.funcs
                          THEN Positive(Some(ResolveTypeWidth(env.funcs[e.f].ret, env))) ELSE None
       [] e.k \in {"id", "mem", "idx", "rng"} -> Positive(BitsOf(e, env))

\* $bits, the same in both evaluators.
QueryBits(e, env) ==
  LET inner == IF e.k = "sys" /\ e.f \in {"$signed", "$unsigned"} THEN e.args[1] ELSE e
      field == FieldOf(inner.a, inner.f, env)
      Of(t) == Some(ResolveTypeWidth(t, env))
  IN CASE inner.k = "id" /\ Known_(env, inner.n) -> Some(env.params[inner.n].width)
       [] inner.k = "id" /\ ~Known_(env, inner.n) -> IF inner.n \in DOMAIN env.types THEN Of(env.types[inner.n]) ELSE None
       [] inner.k = "mem" -> IF Is(field) THEN Some(The(field).w) ELSE None
       [] inner.k = "type" -> Of(inner.t)
       [] inner.k \in {"num", "fill", "cast", "un", "bin", "cond", "call", "cat", "rep"} -> ConstSelfWidth(inner, env)
       [] inner.k \in {"idx", "rng", "sys"} -> None

-----------------------------------------------------------------------------
(* Constant functions.  A function has ports, a type, a body of statements *)
(* and its name as the variable it returns.                                *)

WithArgs(es, F(_)) == [i \in DOMAIN es |-> F(es[i])]

\* resolve_const_fn_cast_targets: a cast to a typedef becomes a cast to its
\* type, one to a positive constant a cast to that size.
RECURSIVE ResolveCastTargets(_, _)
ResolveCastTargets(e, env) ==
  LET R(x) == ResolveCastTargets(x, env) IN
  CASE e.k = "cast" /\ e.how = "named" /\ e.t \in DOMAIN env.types ->
         [e EXCEPT !.how = "type", !.t = Resolved(env.types[e.t], env), !.a = R(e.a)]
    [] e.k = "cast" /\ e.how = "named" /\ e.t \notin DOMAIN env.types ->
         IF Known_(env, e.t) /\ ToI64(env.params[e.t]) > 0
         THEN [e EXCEPT !.how = "size", !.t = [k |-> "id", n |-> e.t], !.a = R(e.a)]
         ELSE [e EXCEPT !.a = R(e.a)]
    [] e.k = "cast" /\ e.how # "named" -> [e EXCEPT !.a = R(e.a)]
    [] e.k \in {"sys", "call"} -> [e EXCEPT !.args = WithArgs(e.args, R)]
    [] e.k = "bin" -> [e EXCEPT !.a = R(e.a), !.b = R(e.b)]
    [] e.k = "un" -> [e EXCEPT !.a = R(e.a)]
    [] e.k = "cond" -> [e EXCEPT !.c = R(e.c), !.a = R(e.a), !.b = R(e.b)]
    [] e.k = "cat" -> [e EXCEPT !.es = WithArgs(e.es, R)]
    [] e.k = "rep" -> [e EXCEPT !.n = R(e.n), !.es = WithArgs(e.es, R)]
    [] e.k \in {"num", "fill", "id", "idx", "rng", "mem", "type"} -> e

\* const_fn_expr_supported
RECURSIVE Supported(_)
Supported(e) ==
  LET All(es) == \A i \in DOMAIN es : Supported(es[i])
      Static(t) == t.k = "int" \/ (t.k = "vec" /\ \A i \in DOMAIN t.dims : All(t.dims[i]))
  IN CASE e.k \in {"num", "fill", "id"} -> TRUE
       [] e.k = "idx" -> All(<<e.a, e.i>>)
       [] e.k = "rng" -> All(<<e.a, e.l, e.r>>)
       [] e.k = "mem" -> e.a.k = "id" \/ (e.a.k = "idx" /\ Supported(e.a))
       [] e.k = "un" -> Supported(e.a)
       [] e.k = "bin" -> All(<<e.a, e.b>>)
       [] e.k = "cond" -> All(<<e.c, e.a, e.b>>)
       [] e.k = "cat" -> All(e.es)
       [] e.k = "rep" -> Supported(e.n) /\ All(e.es)
       [] e.k = "call" -> All(e.args)
       [] e.k = "cast" -> /\ Supported(e.a)
                          /\ \/ e.how = "size" /\ Supported(e.t)
                             \/ e.how = "type" /\ Static(e.t)
       [] e.k = "sys" -> e.f \in {"$clog2", "$bits", "$signed", "$unsigned"} /\ All(e.args)
       [] e.k = "type" -> FALSE

\* const_function_actual: the actual is assigned to the formal's type.
FunctionActual(fd, i, e, env) ==
  LET t == Resolved(fd.ports[i].t, env)
  IN IF i > Len(fd.ports) \/ t.k \in {"untyped", "ref"} THEN EvalConstExprVal(e, env)
     ELSE Convert(t, e, env, ResolveTypeWidth(t, env))

\* substitute_const_fn_calls: each call is replaced by the literal of its
\* result, both arms of a conditional included; None if one has no result.
Substituted(e, env, depth) ==
  LET S(x) == Substitute(x, env, depth)
      One(x, Build(_)) == LET y == S(x) IN IF Is(y) THEN Some(Build(The(y))) ELSE None
      Every(es, Build(_)) ==
        LET ys == WithArgs(es, S)
        IN IF \A i \in DOMAIN ys : Is(ys[i]) THEN Some(Build(WithArgs(ys, The))) ELSE None
      fd == env.funcs[e.f]
      Called ==
        LET as == [i \in DOMAIN e.args |-> ResolveCastTargets(e.args[i], env)]
            ys == [i \in DOMAIN as |-> IF Supported(as[i]) THEN S(as[i]) ELSE None]
            argv == [i \in DOMAIN ys |-> FunctionActual(fd, i, The(ys[i]), env)]
        IN IF \A i \in DOMAIN ys : Is(ys[i]) /\ ~ExprHasCall(The(ys[i]))
           THEN Then(EvalConstUserFunction(fd, argv, env, depth), LAMBDA v : Some(ValueLiteral(v))) ELSE None
  IN CASE depth > MaxDepth -> None
       [] depth <= MaxDepth /\ e.k = "call" -> IF e.f \in DOMAIN env.funcs THEN Called ELSE None
       [] depth <= MaxDepth /\ e.k = "bin" -> Every(<<e.a, e.b>>, LAMBDA y : [e EXCEPT !.a = y[1], !.b = y[2]])
       [] depth <= MaxDepth /\ e.k = "un" -> One(e.a, LAMBDA y : [e EXCEPT !.a = y])
       [] depth <= MaxDepth /\ e.k = "cond" ->
            Every(<<e.c, e.a, e.b>>, LAMBDA y : [e EXCEPT !.c = y[1], !.a = y[2], !.b = y[3]])
       [] depth <= MaxDepth /\ e.k = "cat" -> Every(e.es, LAMBDA y : [e EXCEPT !.es = y])
       [] depth <= MaxDepth /\ e.k = "rep" -> Every(<<e.n>> \o e.es, LAMBDA y : [e EXCEPT !.n = y[1], !.es = Tail(y)])
       [] depth <= MaxDepth /\ e.k = "sys" -> Every(e.args, LAMBDA y : [e EXCEPT !.args = y])
       [] depth <= MaxDepth /\ e.k = "cast" /\ e.how = "size" ->
            Every(<<e.t, e.a>>, LAMBDA y : [e EXCEPT !.t = y[1], !.a = y[2]])
       [] depth <= MaxDepth /\ e.k = "cast" /\ e.how # "size" -> One(e.a, LAMBDA y : [e EXCEPT !.a = y])
       [] depth <= MaxDepth /\ e.k \in {"num", "fill", "id", "idx", "rng", "mem", "type"} -> Some(e)

\* const_eval_user_call: the table of a call from inside an expression is
\* the scope it is evaluated in.
UserCall(e, env) ==
  LET shell == [env EXCEPT !.table = env.params, !.own = TRUE]
      fd == env.funcs[e.f]
      ys == [i \in DOMAIN e.args |-> Substitute(e.args[i], shell, 0)]
      ok == \A i \in DOMAIN ys : Is(ys[i]) /\ ~ExprHasCall(The(ys[i])) /\ IsConstExpr(The(ys[i]), shell)
      argv == [i \in DOMAIN ys |-> FunctionActual(fd, i, The(ys[i]), shell)]
  IN IF e.f \in DOMAIN env.funcs /\ ok THEN EvalConstUserFunction(fd, argv, shell, 0) ELSE None

-----------------------------------------------------------------------------
(* What a body may read (elaborate/const_function_scope.rs) *)

LiteralType(t) == t.k \in {"untyped", "int"} \/ (t.k = "vec" /\ \A i \in DOMAIN t.dims : \A j \in 1 .. 2 : t.dims[i][j].k = "num")
LiteralFormals(fd) == \A i \in DOMAIN fd.ports : LiteralType(fd.ports[i].t)

\* Mutant: the third part, the other arm of a conditional, is forgotten.
NamesButThird(os) == IF \E i \in DOMAIN os : ~Is(os[i]) THEN None ELSE Some(UNION {The(os[i]) : i \in DOMAIN os \ {3}})

\* The names of several parts, unless one of them cannot be listed.
AllNames(os) == IF \E i \in DOMAIN os : ~Is(os[i]) THEN None ELSE Some(UNION {The(os[i]) : i \in DOMAIN os})

RECURSIVE NamesOfExpr(_, _)
NamesOfExpr(e, env) ==
  LET Of(es) == AllNames([i \in DOMAIN es |-> NamesOfExpr(es[i], env)]) IN
  CASE e.k \in {"num", "fill"} -> Some({})
    [] e.k = "id" -> Some({e.n})
    [] e.k = "un" -> Of(<<e.a>>)
    [] e.k = "bin" -> Of(<<e.a, e.b>>)
    [] e.k = "cond" -> Of(<<e.c, e.a, e.b>>)
    [] e.k = "sys" -> IF e.f \in {"$clog2", "$signed", "$unsigned"} THEN Of(e.args) ELSE None
    [] e.k = "call" -> IF e.f \in DOMAIN env.funcs /\ LiteralFormals(env.funcs[e.f]) THEN Of(e.args) ELSE None
    [] e.k \in {"cat", "rep", "idx", "rng", "mem", "cast", "type"} -> None

NamesOfTarget(e) == IF e.k = "id" THEN Some({e.n}) ELSE None

RECURSIVE NamesOfStmt(_, _)
NamesOfStmt(s, env) ==
  LET E(e) == NamesOfExpr(e, env)
      Stmts(ss) == AllNames([i \in DOMAIN ss |-> NamesOfStmt(ss[i], env)])
      Exprs(es) == AllNames([i \in DOMAIN es |-> E(es[i])])
  IN CASE s.k = "null" -> Some({})
       [] s.k = "block" -> Stmts(s.ss)
       [] s.k = "var" -> IF LiteralType(s.t) THEN Exprs(s.init) ELSE None
       [] s.k = "loopvar" -> E(s.e)
       [] s.k = "set" -> AllNames(<<NamesOfTarget(s.l), E(s.r)>>)
       [] s.k = "step" -> Some({s.n})
       [] s.k = "if" -> AllNames(<<E(s.c), Stmts(<<s.a>> \o s.b)>>)
       [] s.k = "for" -> AllNames(<<Stmts(s.init), Exprs(s.c), Stmts(s.step), NamesOfStmt(s.body, env)>>)
       [] s.k = "while" -> AllNames(<<E(s.c), NamesOfStmt(s.body, env)>>)
       [] s.k = "case" -> AllNames(<<E(s.e), Stmts(s.dflt)>>
                                   \o [i \in DOMAIN s.items |-> AllNames(<<Exprs(s.items[i].pats), NamesOfStmt(s.items[i].s, env)>>)])
       [] s.k = "return" -> Exprs(s.e)

\* read_names
ReadNames(fd, env) ==
  IF LiteralType(fd.ret) /\ LiteralFormals(fd) THEN NamesOfStmt([k |-> "block", ss |-> fd.items], env) ELSE None

\* initial_locals: the entries of the module's table the body can read, with
\* the caller's scope, unless it is that table, laid over them.
InitialLocals(fd, env) ==
  LET names == OrElse(ReadNames(fd, env), DOMAIN env.table)
      kept == Restrict(env.table, DOMAIN env.table \cap names)
  IN IF env.own THEN kept ELSE env.params @@ kept

-----------------------------------------------------------------------------
(* Interpreting a body.  The state is the locals, the fuel and whether the *)
(* function has returned.                                                  *)

Local(st, env) == [env EXCEPT !.params = st.locals, !.own = FALSE]
Put(st, n, v) == [st EXCEPT !.locals = (n :> v) @@ st.locals]

\* eval_fn_expr: only a conditional that is the whole expression is lazy.
WithinFunction(e0, st, env, depth) ==
  LET here == Local(st, env)
      e == ResolveCastTargets(e0, here)
      E(x) == EvalFnExpr(x, st, env, depth)
      c == E(e.c)
      subbed == Substitute(e, here, depth + 1)
  IN CASE ~Supported(e) -> None
       [] Supported(e) /\ e.k = "cond" ->
            IF Is(c) THEN E(IF IsTrue(The(c)) THEN e.a ELSE e.b) ELSE None
       [] Supported(e) /\ e.k # "cond" ->
            IF Is(subbed) /\ ~ExprHasCall(The(subbed)) THEN Some(EvalConstExprVal(The(subbed), here)) ELSE None

\* The bits lo .. hi of `old` taken from the low bits of v.
Spliced(old, hi, lo, v) == FoldLeft(LAMBDA x, i : SetBit(x, lo + i, GetBit(v, i)), old, [i \in 1 .. hi - lo + 1 |-> i - 1])

\* assign_local: a whole variable keeps its width and sign; a member, an
\* element or a range is written in place.
AssignLocal(l, v, st, env, depth) ==
  LET root == IF l.k = "id" THEN l.n ELSE l.a.n
      old == st.locals[root]
      field == FieldOf(l.a, l.f, env)
      At(e) == LET o == EvalFnExpr(e, st, env, depth) IN IF Is(o) THEN Some(ToI64(The(o))) ELSE None
      Into(hi, lo, x) == Some(Put(st, root, Spliced(old, hi, lo, x)))
  IN CASE l.k = "id" -> Some(Put(st, l.n, IF l.n \in DOMAIN st.locals
                                          THEN [Resize(v, old.width) EXCEPT !.is_signed = old.is_signed] ELSE v))
       [] l.k # "id" /\ root \notin DOMAIN st.locals -> None
       [] l.k = "mem" -> IF Is(field) /\ The(field).off + The(field).w <= old.width
                         THEN Into(The(field).off + The(field).w - 1, The(field).off, Resize(v, The(field).w)) ELSE None
       [] l.k = "idx" ->
            LET i == At(l.i)
                slot == IF root \in DOMAIN env.elem THEN PackedSlot(env.elem[root], old.width, The(i)) ELSE None
                at == IF Is(slot) THEN [lo |-> The(slot), w |-> env.elem[root].ew] ELSE [lo |-> The(i), w |-> 1]
            IN IF Is(i) /\ The(i) >= 0 /\ at.lo < old.width
               THEN Into(at.lo + at.w - 1, at.lo, Resize(v, at.w)) ELSE None
       [] l.k = "rng" ->
            LET left == At(l.l)
                right == At(l.r)
                b == Bounds(l.kind, The(left), The(right))
            IN IF Is(left) /\ Is(right) /\ b[2] >= 0 /\ b[1] >= b[2] /\ b[1] < old.width
               THEN Into(b[1], b[2], v) ELSE None

\* exec_stmt; None gives the whole call up.
RECURSIVE ExecStmt(_, _, _, _)
RECURSIVE ExecAll(_, _, _, _)
RECURSIVE ExecLoop(_, _, _, _)
ExecAll(ss, st, env, depth) ==
  IF ss = <<>> \/ st.returned THEN Some(st)
  ELSE LET next == ExecStmt(Head(ss), st, env, depth)
       IN IF Is(next) THEN ExecAll(Tail(ss), The(next), env, depth) ELSE None

\* The entries of a for's header and step are expressions and cost no fuel.
Free(ss, st, env, depth) ==
  LET done == ExecAll(ss, [st EXCEPT !.fuel = st.fuel + Len(ss)], env, depth)
  IN IF Is(done) THEN Some([The(done) EXCEPT !.fuel = st.fuel]) ELSE None

ExecLoop(s, st, env, depth) ==
  LET c == IF s.c = None THEN None ELSE EvalFnExpr(The(s.c), st, env, depth)
      body == ExecStmt(s.body, st, env, depth)
      step == Free(s.step, The(body), env, depth)
  IN CASE ~Is(c) -> None
       [] Is(c) /\ ~IsTrue(The(c)) -> Some(st)
       [] Is(c) /\ IsTrue(The(c)) ->
            CASE ~Is(body) -> None
              [] Is(body) /\ The(body).returned -> body
              [] Is(body) /\ ~The(body).returned ->
                   IF Is(step) /\ The(step).fuel > 0 THEN ExecLoop(s, The(step), env, depth) ELSE None

\* The arm of the first pattern that is equal, else the default; None when a
\* pattern tried before has no value.
CaseArm(s, sel, st, env, depth) ==
  LET tries == FlattenSeq([i \in DOMAIN s.items |-> [j \in DOMAIN s.items[i].pats |->
                             [p |-> EvalFnExpr(s.items[i].pats[j], st, env, depth), s |-> s.items[i].s]]])
      ends == {i \in DOMAIN tries : ~Is(tries[i].p) \/ ToI64(The(tries[i].p)) = sel}
      first == CHOOSE i \in ends : \A j \in ends : i <= j
  IN CASE ends = {} -> Some(s.dflt)
       [] ends # {} -> IF Is(tries[first].p) THEN Some(<<tries[first].s>>) ELSE None

ExecStmt(s, st0, env, depth) ==
  LET st == [st0 EXCEPT !.fuel = st0.fuel - 1]
      E(e) == EvalFnExpr(e, st, env, depth)
      Go(ss) == ExecAll(ss, st, env, depth)
      Loop(l, from) == ExecLoop(l, from, env, depth)
  IN CASE st0.fuel = 0 -> None
       [] st0.fuel > 0 /\ s.k = "null" -> Some(st)
       [] st0.fuel > 0 /\ s.k = "block" -> Go(s.ss)
       [] st0.fuel > 0 /\ s.k = "var" ->
            LET w == Larger(ResolveTypeWidth(s.t, Local(st, env)), 1)
                v == IF s.init = None THEN Some(Zero(w)) ELSE E(The(s.init))
            IN IF Is(v) THEN Some(Put(st, s.n, [Resize(The(v), w) EXCEPT !.is_signed = SignedType(s.t)])) ELSE None
       [] st0.fuel > 0 /\ s.k = "loopvar" -> LET v == E(s.e) IN IF Is(v) THEN Some(Put(st, s.n, The(v))) ELSE None
       [] st0.fuel > 0 /\ s.k = "set" ->
            LET v == E(s.r) IN IF Is(v) THEN AssignLocal(s.l, The(v), st, env, depth) ELSE None
       [] st0.fuel > 0 /\ s.k = "step" ->
            IF s.n \in DOMAIN st.locals
            THEN Some(Put(st, s.n, FromNat((ToI64(st.locals[s.n]) + s.by) % B, IntWidth))) ELSE None
       [] st0.fuel > 0 /\ s.k = "if" ->
            LET c == E(s.c) IN
            IF Is(c) THEN Go(IF IsTrue(The(c)) THEN <<s.a>> ELSE s.b) ELSE None
       [] st0.fuel > 0 /\ s.k = "for" ->
            LET init == Free(s.init, st, env, depth)
            IN IF Is(init) THEN Loop(s, The(init)) ELSE None
       [] st0.fuel > 0 /\ s.k = "while" ->
            Loop([c |-> Some(s.c), body |-> s.body, step |-> <<>>], st)
       [] st0.fuel > 0 /\ s.k = "case" ->
            LET sel == E(s.e)
                arm == CaseArm(s, ToI64(The(sel)), st, env, depth)
            IN IF Is(sel) /\ Is(arm) THEN Go(The(arm)) ELSE None
       [] st0.fuel > 0 /\ s.k = "return" ->
            LET v == IF s.e = None THEN Some(st.locals[env.fname]) ELSE E(The(s.e))
            IN IF Is(v) THEN Some([Put(st, env.fname, The(v)) EXCEPT !.returned = TRUE]) ELSE None

\* ConstFnStructLayouts and ConstFnPackedElems: the members and elements of
\* the formals, the result and the variables of the body, for this call only.
LayoutOf(t) == LET Below(i) == FoldLeft(LAMBDA w, f : w + f.w, 0, SubSeq(t.fields, i + 1, Len(t.fields)))
                   at(f) == CHOOSE i \in DOMAIN t.fields : t.fields[i].n = f
               IN [f \in {t.fields[i].n : i \in DOMAIN t.fields} |-> [off |-> Below(at(f)), w |-> t.fields[at(f)].w]]

\* packed_outer_elem
OuterElem(t, env) ==
  LET b == [i \in 1 .. 2 |-> ConstEvalI64(t.dims[1][i], env)]
      l == b[1]
      r == b[2]
      ew == Extent(Tail(t.dims), env)
  IN IF t.k = "vec" /\ t.dims # <<>> /\ Is(l) /\ Is(r) /\ (ew > 1 \/ The(l) < The(r))
     THEN Some([ew |-> ew, msb0 |-> The(l) < The(r)]) ELSE None

RECURSIVE Declared(_)
Declared(ss) == FlattenSeq([i \in DOMAIN ss |-> CASE ss[i].k = "var" -> <<[n |-> ss[i].n, t |-> ss[i].t]>>
                                                  [] ss[i].k = "block" -> Declared(ss[i].ss)
                                                  [] ss[i].k \notin {"var", "block"} -> <<>>])

BoundLayout(v, env) ==
  LET t == Resolved(v.t, env)
  IN IF t.k = "struct" THEN [env EXCEPT !.layout = (v.n :> LayoutOf(t)) @@ env.layout] ELSE env

BoundElem(v, env) ==
  LET elem == OuterElem(Resolved(v.t, env), env)
  IN IF Is(elem) THEN [env EXCEPT !.elem = (v.n :> The(elem)) @@ env.elem] ELSE env

\* eval_const_user_function: the result takes the declared type.
Returned(fd, t, inner, depth) ==
  LET w == ResolveTypeWidth(t, inner)
      Typed(v) == [v EXCEPT !.is_signed = SignedType(t)]
      start == [locals |-> (fd.name :> Typed(Zero(w))) @@ inner.params, fuel |-> Fuel, returned |-> FALSE]
      done == ExecBody(fd.items, start, inner, depth)
  IN IF w = 0 \/ ~Is(done) THEN None ELSE Some(Typed(Resize(The(done).locals[fd.name], w)))

UserFunction(fd, argv, env, depth) ==
  LET formals == [i \in DOMAIN fd.ports |-> fd.ports[i].n]
      Arg(n) == LET i == CHOOSE i \in DOMAIN formals : formals[i] = n
                IN IF i <= Len(argv) THEN argv[i] ELSE Zero(IntWidth)
      locals == [n \in Range(formals) |-> Arg(n)] @@ InitialLocals(fd, env)
      scope == [env EXCEPT !.params = locals, !.own = FALSE, !.fname = fd.name]
      inner == FoldLeft(LAMBDA en, v : BoundElem(v, BoundLayout(v, en)),
                        BoundLayout([n |-> fd.name, t |-> fd.ret], scope), fd.ports \o Declared(fd.items))
  IN IF depth > MaxDepth THEN None ELSE Returned(fd, Resolved(fd.ret, env), inner, depth)

-----------------------------------------------------------------------------
(* Values of parameters *)

IsUntyped(t) == t.k = "untyped"
IsFill(e) == e.k = "fill"

\* untyped_param_is_signed
RECURSIVE UntypedSigned(_, _)
UntypedSigned(e, env) ==
  LET S(x) == UntypedSigned(x, env) IN
  CASE e.k = "num" -> e.signed
    [] e.k \in {"cat", "rep", "rng"} -> FALSE
    [] e.k = "id" -> Known_(env, e.n) => env.params[e.n].is_signed
    [] e.k = "un" -> e.op \in Keeping /\ S(e.a)
    [] e.k = "bin" /\ e.op \in Arith -> S(e.a) /\ S(e.b)
    [] e.k = "bin" /\ e.op \in Shifts -> S(e.a)
    [] e.k = "bin" /\ e.op \in Compare \cup Logical -> FALSE
    [] e.k = "cond" -> S(e.a) /\ S(e.b)
    [] e.k = "sys" -> e.f # "$unsigned"
    [] e.k \in {"fill", "mem", "idx", "cast", "call"} -> TRUE

\* untyped_param_width
RECURSIVE UntypedWidth(_, _)
UntypedWidth(e, env) ==
  LET U(x) == UntypedWidth(x, env)
      Total(es) == AddWidths([i \in DOMAIN es |-> U(es[i])])
      I(x) == ConstEvalI64(x, env)
      n == I(e.n)
      l == I(e.l)
      r == I(e.r)
  IN CASE e.k = "num" -> Some(IF e.size = 0 THEN IntWidth ELSE e.size)
       [] e.k = "id" -> IF Known_(env, e.n) THEN Some(env.params[e.n].width) ELSE None
       [] e.k = "un" -> IF e.op \in Keeping THEN U(e.a) ELSE Some(1)
       [] e.k = "bin" /\ e.op \in Arith -> WiderOf(U(e.a), U(e.b))
       [] e.k = "bin" /\ e.op \in Compare \cup Logical -> Some(1)
       [] e.k = "bin" /\ e.op \in Shifts -> U(e.a)
       [] e.k = "cond" -> WiderOf(U(e.a), U(e.b))
       [] e.k = "cat" -> Total(e.es)
       [] e.k = "rep" -> IF Is(n) /\ The(n) > 0 /\ Is(Positive(Total(e.es)))
                         THEN Some(The(n) * The(Total(e.es))) ELSE None
       [] e.k = "rng" /\ e.kind = ":" -> IF Is(l) /\ Is(r) THEN Some(Magnitude(The(l) - The(r)) + 1) ELSE None
       [] e.k = "rng" /\ e.kind # ":" -> IF Is(r) /\ The(r) >= 0 THEN r ELSE None
       [] e.k = "sys" /\ e.f \in {"$signed", "$unsigned"} -> U(e.args[1])
       [] e.k = "sys" /\ e.f \in {"$clog2", "$bits", "$countones"} -> Some(IntWidth)
       [] e.k = "sys" /\ e.f \notin {"$signed", "$unsigned", "$clog2", "$bits", "$countones"} -> None
       [] e.k \in {"fill", "mem", "idx", "cast", "call"} -> None

\* eval_init_for_width and eval_param_init: a declared type is the context
\* of its initialiser, a fill takes the width.
EvalInitForWidth(e, env, w) ==
  IF IsFill(e) THEN Filled(w, e.bit) ELSE ResizeForAssign(EvalConstExprVal(e, env), w)

EvalParamInit(t, e, env, w) ==
  IF IsFill(e) THEN Filled(w, e.bit)
  ELSE ResizeForAssign(IF IsUntyped(t) THEN EvalConstExprVal(e, env) ELSE EvalConstExprValCtx(e, env, w), w)

\* The initialiser with its calls folded, itself where they cannot be.
Folded(e, env) ==
  LET s == Substitute(e, env, 0) IN IF ExprHasCall(e) /\ Is(s) /\ ~ExprHasCall(The(s)) THEN The(s) ELSE e

\* The width and sign a declaration gives its value.
WidthOf(d, env) ==
  LET u == UntypedWidth(d.init, env) IN
  CASE ~IsUntyped(d.t) -> ResolveTypeWidth(d.t, env)
    [] IsUntyped(d.t) -> IF Is(u) THEN The(u) ELSE IntWidth
SignOf(d, t, env) == IF IsUntyped(d.t) /\ d.t.signing = "none" THEN UntypedSigned(d.init, env) ELSE SignedType(t)

OneBitFill(d) == [FillOf(d.init.bit) EXCEPT !.is_fill = FALSE]

\* register_packed_param_shape and tls_register_struct_layout
Shape(d, env) == BoundElem(d, BoundLayout(d, env))

\* A header parameter without an override.
InHeader(d, env) ==
  LET t == Resolved(d.t, env)
      v == [EvalParamInit(d.t, Folded(d.init, env), env, WidthOf(d, env)) EXCEPT !.is_signed = SignOf(d, t, env)]
  IN IF IsUntyped(d.t) /\ IsFill(d.init) THEN OneBitFill(d) ELSE InStatesOf(t, v)

Seeded(d, env) ==
  [EvalParamInit(d.t, Folded(d.init, env), env, WidthOf(d, env)) EXCEPT !.is_signed = SignOf(d, d.t, env)]

\* A body parameter: a call that cannot be folded leaves 0 and the simulator
\* to do it (`defers`); an initialiser with a call takes no context.
WalkedWith(d, folded, w, env) ==
  LET calls == ExprHasCall(d.init)
      defers == ExprHasCall(folded)
      fills == IsUntyped(d.t) /\ IsFill(d.init) /\ ~Known_(env, d.n)
      v == [CASE defers -> Zero(w)
              [] calls /\ ~defers -> EvalInitForWidth(folded, env, w)
              [] ~calls -> EvalParamInit(d.t, d.init, env, w)
            EXCEPT !.is_signed = SignOf(d, Resolved(d.t, env), env)]
  IN [defers |-> defers,
      shape |-> Shape(d, env),
      val |-> IF fills THEN OneBitFill(d) ELSE InStatesOf(d.t, v)]
Walked(d, env) == WalkedWith(d, Folded(d.init, env), WidthOf(d, env), env)

\* A header parameter of an instance: its default in the instance's own
\* scope, or its override (found to be `old` as it stands) in the scope of
\* the instantiation, assigned to the type it is declared with.
InInstance(d, over, old, scope, env) ==
  LET src == IF Is(over) THEN Folded(The(over), scope) ELSE Folded(d.init, env)
      own == IF Is(over) THEN old ELSE EvalConstExprVal(src, env)
  IN CASE ~IsUntyped(d.t) ->
            Convert(Resolved(d.t, env), src, IF Is(over) THEN scope ELSE env, ResolveTypeWidth(d.t, env))
       [] IsUntyped(d.t) /\ d.t.signing = "none" -> own
       [] IsUntyped(d.t) /\ d.t.signing # "none" -> [own EXCEPT !.is_signed = SignedType(d.t)]

\* An override of a parameter of the instance's body is converted only when
\* it has a type whose ranges can be evaluated.
Overridden(d, over, scope, env) ==
  LET converts == /\ Is(over) /\ ~IsUntyped(d.t)
                  /\ d.t.k = "vec" => \A i \in DOMAIN d.t.dims : \A j \in 1 .. 2 : IsConstExpr(d.t.dims[i][j], env)
  IN [converts |-> converts,
      val |-> IF converts THEN Convert(Resolved(d.t, env), Folded(The(over), scope), scope, ResolveTypeWidth(d.t, env))
              ELSE Zero(IntWidth)]

-----------------------------------------------------------------------------

Evaluate(how, x, env) ==
  CASE how = "value" -> ValueOf(x[1], env)
    [] how = "operator" -> BinaryValue(x[1], x[2], x[3])
    [] how = "value in context" -> ValueInContext(x[1], env, x[2])
    [] how = "integer" -> IntegerOf(x[1], env)
    [] how = "width" -> SelfWidth(x[1], env)
    [] how = "bits" -> QueryBits(x[1], env)
    [] how = "width of type" -> TypeWidth(x[1], env)
    [] how = "call" -> UserCall(x[1], env)
    [] how = "substituted" -> Substituted(x[1], env, x[2])
    [] how = "function" -> UserFunction(x[1], x[2], env, x[3])
    [] how = "body" -> ExecAll(x[1], x[2], env, x[3])
    [] how = "within function" -> WithinFunction(x[1], x[2], env, x[3])
    [] how = "header" -> [val |-> InHeader(x[1], env), shape |-> Shape(x[1], env)]
    [] how = "seed" -> [val |-> Seeded(x[1], env)]
    [] how = "walk" -> Walked(x[1], env)
    [] how = "instance" -> [val |-> InInstance(x[1], x[2], x[3], x[4], env), shape |-> Shape(x[1], env)]
    [] how = "connect" -> [val |-> ValueOf(Folded(x[1].init, env), env)]
    [] how = "size" -> [size |-> IntegerOf(x[1], env)]
    [] how = "override" -> Overridden(x[1], x[2], x[4], env)

=============================================================================
