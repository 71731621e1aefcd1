----------------------------- MODULE CompileTime -----------------------------
(***************************************************************************)
(* The passes of the compiler that rewrite the abstract syntax             *)
(* (crates/lean_compiler/src/a_simplify_lang/mod.rs, up to                 *)
(* transform_mutable_in_loops): the scoping check, what is computed at     *)
(* compile time (constants, inlined functions, functions of constant       *)
(* parameters, unrolled loops, match_range), the check of the vectors, and *)
(* the loops that change mutable variables.                                *)
(*                                                                         *)
(* A pass gives [fns, err] or [lines, st]; err is "" if it accepts the     *)
(* program, "error" if it reports one, "panic" if it stops the compiler.   *)
(***************************************************************************)
EXTENDS Zkdsl, SequencesExt

CONSTANT UnrollChunk  \* DYNAMIC_UNROLL_CHUNK_SIZE

ASSUME ChunkAssumption == UnrollChunk \in Nat \ {0}

(* A name for a value. *)
With(x, In(_)) == In(x)

(* The members of a set, in some order. *)
Listed(S) == FoldSet(LAMBDA x, s : Append(s, x), <<>>, S)

(* The expressions of a line: its values, then the indices of its targets.    *)
MapExprs(l, Value(_)) ==
    [l EXCEPT !.e = Each(@, Value),
              !.t = Each(@, LAMBDA x : IF x.k = "at" THEN [x EXCEPT !.a = <<@[1], Value(@[2])>>] ELSE x)]

LineExprs(l) ==
    l.e \o [k \in 1..Cardinality(IndexedTargets(l)) |->
              LET i == CHOOSE i \in IndexedTargets(l) :
                          Cardinality({j \in IndexedTargets(l) : j <= i}) = k
              IN  l.t[i].a[2]]

-----------------------------------------------------------------------------
(* check_program_scoping.  A name is visible if an enclosing scope or the     *)
(* constant arrays define it; a declaration may not repeat one of its scope.  *)
RECURSIVE ScopedExpr(_, _, _)
ScopedExpr(e, outer, local) ==
    CASE e.k = "var" -> e.s \in outer \cup local
      [] e.k = "lambda" -> e.s \notin local /\ ScopedExpr(e.a[1], outer, local \cup {e.s})
      [] e.k \notin {"var", "lambda"} ->
            \A i \in DOMAIN Inner(e) : ScopedExpr(Inner(e)[i], outer, local)

NewTargets(l, visible) == {x.s : x \in {l.t[i] : i \in DOMAIN l.t \ IndexedTargets(l)}} \ visible

RECURSIVE ScopedBlock(_, _, _)
ScopedBlock(lines, outer, local) ==
    IF lines = <<>> THEN TRUE
    ELSE LET l == Head(lines)
             x == l.t[1].s
             visible == outer \cup local
             valuesScoped == \A i \in DOMAIN l.e : ScopedExpr(l.e[i], outer, local)
             added == CASE l.k \in {"fwd", "vec"} -> {x}
                        [] l.k = "let" -> NewTargets(l, visible)
                        [] l.k \notin {"fwd", "vec", "let"} -> {}
         IN  /\ valuesScoped
             /\ l.k \in {"fwd", "vec"} => x \notin local
             /\ l.k \in {"push", "pop"} => x \in visible
             /\ \A i \in IndexedTargets(l) : ScopedExpr(l.t[i].a[2], outer, local \cup added)
             /\ \A i \in DOMAIN l.b : ScopedBlock(l.b[i], visible, IF l.k = "for" THEN {x} ELSE {})
             /\ ScopedBlock(Tail(lines), outer, local \cup added)

Scoped(prog) ==
    \A f \in DOMAIN prog.fns :
        LET params == prog.fns[f].params
        IN  ScopedBlock(prog.fns[f].body, DOMAIN prog.arrays, {params[i].x : i \in DOMAIN params})

-----------------------------------------------------------------------------
(* The names in lines, and their replacement. *)
RECURSIVE ExprNames(_)
ExprNames(e) ==
    (IF e.k \in {"var", "len", "lambda"} THEN {e.s} ELSE {}) \cup UNION {ExprNames(e.a[i]) : i \in DOMAIN e.a}

RECURSIVE LineNames(_)
LineNames(lines) ==
    UNION {UNION {ExprNames(l.t[i]) : i \in DOMAIN l.t}
           \cup UNION {ExprNames(l.e[i]) : i \in DOMAIN l.e}
           \cup UNION {LineNames(l.b[i]) : i \in DOMAIN l.b} : l \in Range(lines)}

(* transform_vars_in_lines: m maps names to variables and constants.           *)
RECURSIVE RenamedExpr(_, _)
RenamedExpr(e, m) ==
    LET r == [e EXCEPT !.a = Each(@, LAMBDA x : RenamedExpr(x, m))]
    IN  CASE e.k = "var" /\ e.s \in DOMAIN m ->
                IF IsNum(m[e.s]) THEN m[e.s] ELSE [e EXCEPT !.s = m[e.s].s]
          [] e.k \in {"len", "lambda"} /\ e.s \in DOMAIN m -> [r EXCEPT !.s = m[e.s].s]
          [] OTHER -> r

RECURSIVE Renamed(_, _)
Renamed(lines, m) ==
    Each(lines, LAMBDA l : [l EXCEPT !.t = Each(@, LAMBDA x : RenamedExpr(x, m)),
                                     !.e = Each(@, LAMBDA x : RenamedExpr(x, m)),
                                     !.b = Each(@, LAMBDA x : Renamed(x, m))])

(* The names that stand where no constant may: apply_to_var panics. *)
RECURSIVE BoundInExpr(_)
BoundInExpr(e) ==
    (IF e.k \in {"len", "lambda"} THEN {e.s} ELSE {}) \cup UNION {BoundInExpr(e.a[i]) : i \in DOMAIN e.a}

RECURSIVE BoundNames(_)
BoundNames(lines) ==
    UNION {{l.t[i].s : i \in {i \in DOMAIN l.t : l.t[i].k = "var"}}
           \cup UNION {BoundInExpr(l.e[i]) : i \in DOMAIN l.e}
           \cup UNION {BoundNames(l.b[i]) : i \in DOMAIN l.b} : l \in Range(lines)}

(* Constants for variables, where they are values (substitute_const_vars_in_  *)
(* expr, substitute_lambda_param).                                            *)
RECURSIVE WithConstants(_, _)
WithConstants(e, m) ==
    IF e.k = "var" /\ e.s \in DOMAIN m THEN Num(m[e.s])
    ELSE WithInner(e, Each(Inner(e), LAMBDA x : WithConstants(x, m)))

(* replace_vars_by_const_in_lines, which leaves hint_witness alone. *)
RECURSIVE ReadArrays(_)
ReadArrays(e) ==
    IF e.k = "witness" THEN {}
    ELSE (IF e.k = "at" /\ e.a[1].k = "var" THEN {e.a[1].s} ELSE {})
         \cup UNION {ReadArrays(Inner(e)[i]) : i \in DOMAIN Inner(e)}

TargetName(t) == IF t.k = "var" THEN {t.s} ELSE IF t.a[1].k = "var" THEN {t.a[1].s} ELSE {}

(* Its assertions: no name of a constant is declared, assigned or an array.    *)
RECURSIVE OverridesConstant(_, _)
OverridesConstant(lines, names) ==
    \E l \in Range(lines) :
        \/ l.k \in {"fwd", "let"} /\ \E i \in DOMAIN l.t : TargetName(l.t[i]) \cap names # {}
        \/ \E i \in DOMAIN LineExprs(l) : ReadArrays(LineExprs(l)[i]) \cap names # {}
        \/ \E i \in DOMAIN l.b : OverridesConstant(l.b[i], names)

RECURSIVE Specialised(_, _)
Specialised(lines, m) ==
    Each(lines, LAMBDA l :
        [MapExprs(l, LAMBDA x : IF x.k = "witness" THEN x ELSE WithConstants(x, m))
            EXCEPT !.b = Each(@, LAMBDA x : Specialised(x, m))])

(* vars_in_expression and find_variable_usage: [int, ext], the names a block   *)
(* defines and those it takes from outside.                                   *)
RECURSIVE UsedNames(_)
UsedNames(e) ==
    (IF e.k = "var" THEN {e.s} ELSE {})
    \cup (IF e.k = "at" /\ e.a[1].k = "var" THEN {e.a[1].s} ELSE {})
    \cup UNION {UsedNames(Inner(e)[i]) : i \in DOMAIN Inner(e)}

Uses(u, es, arrays) ==
    [u EXCEPT !.ext = @ \cup ((UNION {UsedNames(es[i]) : i \in DOMAIN es} \ u.int) \ arrays)]

RECURSIVE UseTargets(_, _, _)
UseTargets(u, targets, arrays) ==
    IF targets = <<>> THEN u
    ELSE LET t == Head(targets)
             array == IF t.k = "at" /\ t.a[1].k = "var" THEN {t.a[1].s} ELSE {}
         IN  UseTargets(
                IF t.k = "var"
                THEN IF t.s \in u.ext THEN u ELSE [u EXCEPT !.int = @ \cup {t.s}]
                ELSE Uses([u EXCEPT !.ext = @ \cup (array \ u.int)], <<t.a[2]>>, arrays),
                Tail(targets), arrays)

RECURSIVE Usage(_, _, _)
RECURSIVE UseArms(_, _, _)
UseArms(u, arms, arrays) ==
    IF arms = <<>> THEN u
    ELSE With(Usage([int |-> {}, ext |-> {}], Head(arms), arrays), LAMBDA arm :
              UseArms([int |-> u.int \cup arm.int,
                       ext |-> u.ext \cup (arm.ext \ (u.int \cup arm.int))], Tail(arms), arrays))

UseLine(u, l, arrays) ==
    LET inside == [i \in DOMAIN l.b |-> Usage([int |-> {}, ext |-> {}], l.b[i], arrays)]
        vectors == {l.t[i].s : i \in DOMAIN l.t}
        values == Uses(u, l.e, arrays)
    IN  CASE l.k = "fwd" -> [u EXCEPT !.int = @ \cup vectors]
          [] l.k = "match" -> UseArms(values, l.b, arrays)
          [] l.k = "let" -> UseTargets(values, l.t, arrays)
          [] l.k = "if" ->
                LET int == u.int \cup inside[1].int \cup inside[2].int
                IN  [int |-> int, ext |-> values.ext \cup ((inside[1].ext \cup inside[2].ext) \ int)]
          [] l.k = "for" ->
                LET int == u.int \cup inside[1].int \cup vectors
                IN  Uses([int |-> int, ext |-> u.ext \cup (inside[1].ext \ int)], l.e, arrays)
          [] l.k = "vec" -> [values EXCEPT !.int = @ \cup vectors]
          [] l.k \in {"push", "pop"} ->
                Uses([u EXCEPT !.ext = @ \cup (vectors \ u.int)], l.e, arrays)
          [] l.k \in {"assert", "dassert", "ret", "panic"} -> values

Usage(u, lines, arrays) ==
    IF lines = <<>> THEN u ELSE Usage(UseLine(u, Head(lines), arrays), Tail(lines), arrays)

UsageOf(lines, arrays) == Usage([int |-> {}, ext |-> {}], lines, arrays)

(* Its assertion: no element of a constant array is assigned.                  *)
RECURSIVE AssignsConstArray(_, _)
AssignsConstArray(lines, arrays) ==
    \E l \in Range(lines) :
        \/ l.k = "let" /\ \E i \in IndexedTargets(l) : TargetName(l.t[i]) \cap arrays # {}
        \/ \E i \in DOMAIN l.b : AssignsConstArray(l.b[i], arrays)

-----------------------------------------------------------------------------
(* compile_time_transform_in_expr: what the constants, the constant arrays and *)
(* the lengths of the vectors decide is computed.  Crash is what panics: a    *)
(* division by zero, the length of a scalar, and a constant array read with   *)
(* fewer or more indices than it has dimensions.                              *)
Crash == Expr("crash", "", 0, <<>>)

RECURSIVE Crashes(_)
Crashes(e) == e.k = "crash" \/ \E i \in DOMAIN e.a : Crashes(e.a[i])

RECURSIVE Depth(_)
Depth(tree) == IF tree.k # "dyn" THEN 0 ELSE IF tree.a = <<>> THEN 1 ELSE 1 + Depth(tree.a[1])

Element(tree, index, e) ==
    IF Len(index) # Depth(tree) THEN Crash
    ELSE IF Navigable(tree, index) /\ IsNum(Navigate(tree, index)) THEN Navigate(tree, index) ELSE e

Length(tree, index, e) ==
    IF ~Navigable(tree, index) THEN e
    ELSE IF Navigate(tree, index).k = "dyn" THEN Num(Len(Navigate(tree, index).a)) ELSE Crash

Folded1(e, arrays, lens) ==
    LET index == Numbers(Inner(e))
        array == IF e.k = "at" THEN e.a[1].s ELSE e.s
    IN  CASE ~AllNums(Inner(e)) -> e
          [] AllNums(Inner(e)) /\ e.k = "op" -> IF Defined(e.s, index) THEN Num(Math(e.s, index)) ELSE Crash
          [] AllNums(Inner(e)) /\ e.k = "at" ->
                IF e.a[1].k = "var" /\ array \in DOMAIN arrays THEN Element(arrays[array], index, e) ELSE e
          [] AllNums(Inner(e)) /\ e.k = "len" ->
                IF array \in DOMAIN arrays THEN Length(arrays[array], index, e)
                ELSE IF array \in DOMAIN lens THEN Length(lens[array], index, e) ELSE e
          [] AllNums(Inner(e)) /\ e.k \notin {"op", "at", "len"} -> e

RECURSIVE Folded(_, _, _)
Folded(e, arrays, lens) ==
    Folded1(WithInner(e, Each(Inner(e), LAMBDA x : Folded(x, arrays, lens))), arrays, lens)

(* try_expand_match_range: an arm for each value of each range. *)
RECURSIVE RangeArms(_, _, _, _)
RangeArms(pairs, targets, arrays, lens) ==
    IF pairs = <<>> THEN <<>>
    ELSE LET range == pairs[1]
             bound(i) == Folded(range.a[i], arrays, lens).n
             lambda == pairs[2]
             arm(v) == <<Let(targets, WithConstants(lambda.a[1], lambda.s :> v))>>
         IN  [i \in 1..(bound(2) - bound(1)) |-> arm(bound(1) + i - 1)]
             \o RangeArms(SubSeq(pairs, 3, Len(pairs)), targets, arrays, lens)

RangeBound(args, k, i, arrays, lens) == Folded(args[2 * k].a[i], arrays, lens)

IsRange(e) == e.k = "call" /\ e.s = "range" /\ Len(e.a) = 2

RangeFits(args, k, arrays, lens) ==
    LET bound(j, i) == RangeBound(args, j, i, arrays, lens)
    IN  /\ IsRange(args[2 * k]) /\ IsNum(bound(k, 1)) /\ IsNum(bound(k, 2))
        /\ args[2 * k + 1].k = "lambda"
        /\ k > 1 => bound(k, 1) = bound(k - 1, 2)

MatchRangeOpens(l) ==
    /\ Len(l.e[1].a) >= 3 /\ Len(l.e[1].a) % 2 = 1
    /\ \A i \in DOMAIN l.t : ~(l.t[i].k = "var" /\ l.t[i].n = 1)

Ranges(l) == 1..(Len(l.e[1].a) - 1) \div 2

MatchRangeFits(l, arrays, lens) ==
    MatchRangeOpens(l) /\ \A k \in Ranges(l) : RangeFits(l.e[1].a, k, arrays, lens)

(* A bound of the first range that does not fit cannot be computed.            *)
MatchRangeCrashes(l, arrays, lens) ==
    LET args == l.e[1].a
        crashes(k, i) == Crashes(RangeBound(args, k, i, arrays, lens))
    IN  MatchRangeOpens(l) /\ \E k \in Ranges(l) :
            /\ IsRange(args[2 * k])
            /\ crashes(k, 1) \/ (IsNum(RangeBound(args, k, 1, arrays, lens)) /\ crashes(k, 2))
            /\ \A j \in 1..k - 1 : RangeFits(args, j, arrays, lens)

ExpandedMatchRange(l, arrays, lens) ==
    LET args == l.e[1].a
        names == SelectSeq(l.t, LAMBDA x : x.k = "var")
    IN  Each(names, LAMBDA x : Declare(x.s))
        \o <<Match(args[1], Folded(args[2].a[1], arrays, lens).n,
                   RangeArms(Tail(args), l.t, arrays, lens))>>

(* extract_preprocessed_calls: a call of an inlined function, or of one with   *)
(* constant parameters, inside an expression becomes a line of its own.       *)
NeedsPreprocessing(e, g) ==
    e.k = "call" /\ e.s \in DOMAIN g.fns /\ (g.fns[e.s].inlined \/ HasConst(g.fns[e.s]))

RECURSIVE Extracted(_, _, _), ExtractedAll(_, _, _)
ExtractedAll(es, g, x) ==
    IF es = <<>> THEN [es |-> <<>>, x |-> x]
    ELSE With(Extracted(Head(es), g, x), LAMBDA first :
         With(ExtractedAll(Tail(es), g, first.x), LAMBDA rest :
              [es |-> <<first.e>> \o rest.es, x |-> rest.x]))

(* x is [lines, i, err]: the new lines, and the next number of a temporary.    *)
ExtractedCall(e, f, g, y) ==
    LET tmp == "@extract_tmp_" \o ToString(y.i)
    IN  [e |-> Var(tmp),
         x |-> [lines |-> y.lines \o <<Declare(tmp), Set(tmp, f)>>,
                i |-> y.i + 1,
                err |-> IF g.fns[e.s].returns = 1 THEN y.err ELSE "error"]]

Extracted(e, g, x) ==
    With(ExtractedAll(Inner(e), g, x), LAMBDA inner :
         IF NeedsPreprocessing(e, g) THEN ExtractedCall(e, WithInner(e, inner.es), g, inner.x)
         ELSE [e |-> WithInner(e, inner.es), x |-> inner.x])

(* A direct call is only searched in its arguments. *)
ExtractedLine(l, g, i) ==
    LET fresh == [lines |-> <<>>, i |-> i, err |-> ""]
        direct == l.k = "let" /\ NeedsPreprocessing(l.e[1], g)
        es == IF direct THEN l.e[1].a ELSE LineExprs(l)
        n == Len(l.e)
        at(j) == n + Cardinality({k \in IndexedTargets(l) : k <= j})
    IN  With(ExtractedAll(es, g, fresh), LAMBDA r :
             [lines |-> r.x.lines, i |-> r.x.i, err |-> r.x.err,
              line |-> IF direct THEN [l EXCEPT !.e[1].a = r.es]
                       ELSE [l EXCEPT !.e = SubSeq(r.es, 1, n),
                                      !.t = [j \in DOMAIN @ |->
                                               IF j \in IndexedTargets(l)
                                               THEN [@[j] EXCEPT !.a[2] = r.es[at(j)]] ELSE @[j]] \o <<>>]])

(* replace_function_ret_in_lines: the returned values are assigned, one by one.*)
RECURSIVE ReturnsAssigned(_, _)
ReturnsAssigned(lines, targets) ==
    FlattenSeq(Each(lines, LAMBDA l :
        IF l.k = "ret" THEN [i \in DOMAIN targets |-> Let(<<targets[i]>>, l.e[i])] \o <<>>
        ELSE <<[l EXCEPT !.b = Each(@, LAMBDA x : ReturnsAssigned(x, targets))]>>))

(* inline_lines: the parameters become the arguments, every other name a new   *)
(* one.                                                                       *)
InlineNames(f, args, arrays, i) ==
    LET params == {f.params[k].x : k \in DOMAIN f.params}
    IN  [x \in (LineNames(f.body) \cup params) \ (arrays \ params) |->
            IF x \in params THEN args[CHOOSE k \in DOMAIN f.params : f.params[k].x = x]
            ELSE Var("@inlined_var_" \o ToString(i) \o "_" \o x)]

(* try_inline_call: an argument that is no value gets a variable first.        *)
IsValue(e) == e.k \in {"var", "num"}

InlineArgs(l, i) ==
    LET args == l.e[1].a
        nth(k) == i + Cardinality({j \in 1..k - 1 : ~IsValue(args[j])})
        tmp(k) == "@inline_arg_" \o ToString(nth(k))
    IN  [lines |-> FlattenSeq([k \in DOMAIN args |->
                      IF IsValue(args[k]) THEN <<>> ELSE <<Declare(tmp(k)), Set(tmp(k), args[k])>>] \o <<>>)
                   \o <<[l EXCEPT !.e[1].a = [k \in DOMAIN args |->
                            IF IsValue(args[k]) THEN args[k] ELSE Var(tmp(k))] \o <<>>]>>,
         i |-> i + Cardinality({k \in DOMAIN args : ~IsValue(args[k])})]

(* expand_dynamic_unroll: the bits of the number of iterations are hinted and  *)
(* constrained; for each bit set, as many iterations follow as it weighs.     *)
DynamicTemplate(l, id, start, bits) ==
    LET x(name) == "@du" \o ToString(id) \o "_" \o name
        v(name) == Var(x(name))
        item(name, k) == At(v(name), <<k>>)
        weight(k) == Op("exp", Num(2), Op("sub", Op("sub", Num(bits), Num(1)), k))
        width(k) == 2^(bits - 1 - k)
        name(prefix, k) == x("__" \o prefix \o "_" \o ToString(k))
        iteration(from, n) ==
            For("unroll", x("j"), Num(0), Num(n),
                <<Let(<<[l.t[1] EXCEPT !.n = 0]>>, Op("add", Var(from), v("j")))>> \o l.b[1])
        from(k) == Op("add", Num(start), item("ps", Num(k)))
        small(k) == <<Set(name("base", k), from(k)), iteration(name("base", k), width(k))>>
        large(k) == <<SetMut(name("offset", k), from(k)),
                      For("range", x("chunk"), Num(0), Num(width(k) \div UnrollChunk),
                          <<iteration(name("offset", k), UnrollChunk),
                            Set(name("offset", k), Op("add", Var(name("offset", k)), Num(UnrollChunk)))>>)>>
    IN  <<Set(x("end"), l.e[2]),
          Set(x("n_iters"), Op("sub", v("end"), Num(start))),
          Set(x("bits"), CallTo("Array", <<Num(bits)>>)),
          Do(CallTo("hint_decompose_bits", <<v("n_iters"), v("bits"), Num(bits)>>)),
          Set(x("ps"), CallTo("Array", <<Num(bits + 1)>>)),
          SetAt(x("ps"), Num(0), Num(0)),
          For("unroll", x("k"), Num(0), Num(bits),
              <<Set(x("b"), item("bits", v("k"))),
                AssertThat("==", Op("mul", v("b"), Op("sub", Num(1), v("b"))), Num(0)),
                SetAt(x("ps"), Op("add", v("k"), Num(1)),
                      Op("add", item("ps", v("k")), Op("mul", v("b"), weight(v("k")))))>>),
          AssertThat("==", v("n_iters"), item("ps", Num(bits)))>>
        \o [k \in 1..bits |->
              If("==", item("bits", Num(k - 1)), Num(1),
                 IF width(k - 1) <= UnrollChunk THEN small(k - 1) ELSE large(k - 1), <<>>)]

(* replace_vars_for_unroll, for every value of the iterator. *)
Unrolled(l, u, arrays) ==
    LET x == l.t[1].s
        int == UsageOf(l.b[1], arrays).int
        names(j) == [y \in int \cup {x} |->
                       IF y = x THEN Num(j)
                       ELSE Var("@unrolled_" \o ToString(u) \o "_" \o ToString(j) \o "_" \o y)]
        n == l.e[2].n - l.e[1].n
    IN  FlattenSeq([i \in 1..(IF n > 0 THEN n ELSE 0) |->
                       Renamed(l.b[1], names(l.e[1].n + i - 1))] \o <<>>)

(* The specialisation of a function to the values of its constant parameters.  *)
RECURSIVE Joined(_)
Joined(words) == IF words = <<>> THEN "" ELSE Head(words) \o Joined(Tail(words))

ConstParams(f) == SelectSeq([k \in DOMAIN f.params |-> k] \o <<>>, LAMBDA k : f.params[k].kind = "const")
OtherParams(f) == SelectSeq([k \in DOMAIN f.params |-> k] \o <<>>, LAMBDA k : f.params[k].kind # "const")

SpecialName(name, f, args) ==
    name \o Joined(Each(ConstParams(f), LAMBDA k : "_" \o f.params[k].x \o "=" \o ToString(args[k].n)))

Special(f, args) ==
    LET consts == Range(ConstParams(f))
        m == [x \in {f.params[k].x : k \in consts} |-> args[CHOOSE k \in consts : f.params[k].x = x].n]
    IN  [f EXCEPT !.params = Each(OtherParams(f), LAMBDA k : @[k]), !.body = Specialised(@, m)]

(* The lengths of the vectors. *)
PushIndex(l) == SubSeq(l.e, 1, Len(l.e) - 1)

-----------------------------------------------------------------------------
(* compile_time_transform_in_lines.  consts are the variables known to be      *)
(* constant, lens the shapes of the vectors; st is [new, u, i, err], the new   *)
(* functions and the counters.  The lines an expansion gives are gone through  *)
(* again.                                                                     *)
RECURSIVE TransformLines(_, _, _, _, _, _)

(* The blocks that stay in line see the constants. *)
RECURSIVE TransformBlocks(_, _, _, _)
TransformBlocks(blocks, consts, g, st) ==
    IF blocks = <<>> THEN [blocks |-> <<>>, st |-> st]
    ELSE With(TransformLines(Head(blocks), consts, <<>>, g, st, <<>>), LAMBDA first :
         With(TransformBlocks(Tail(blocks), consts, g, first.st), LAMBDA rest :
              [blocks |-> <<first.lines>> \o rest.blocks, st |-> rest.st]))

Fail(st, how) == [lines |-> <<>>, st |-> [st EXCEPT !.err = how]]

(* A faulty LearntConstants: the first constant a variable had is kept. *)
FirstConstants(l, consts) ==
    IF Len(l.t) = 1 /\ l.t[1].k = "var" /\ IsNum(l.e[1])
    THEN consts @@ (l.t[1].s :> l.e[1].n) ELSE consts

(* What an assignment tells of its target. *)
LearntConstants(l, consts) ==
    IF Len(l.t) = 1 /\ l.t[1].k = "var" /\ l.t[1].n = 0 /\ IsNum(l.e[1])
    THEN (l.t[1].s :> l.e[1].n) @@ consts ELSE consts

(* A statement: the inlined function, the specialised one, or what it is.      *)
TransformStatement(l, rest, consts, lens, g, st, out) ==
    LET call == l.e[1]
        f == g.fns[call.s]
        inline == call.k = "call" /\ call.s \in DOMAIN g.fns /\ f.inlined
        special == call.k = "call" /\ call.s \in DOMAIN g.fns /\ ~f.inlined /\ HasConst(f)
        name == SpecialName(call.s, f, call.a)
        known == name \in DOMAIN g.fns \cup DOMAIN st.new
        m == InlineNames(f, call.a, DOMAIN g.arrays, st.i)
    IN  CASE inline /\ ~(\A k \in DOMAIN call.a : IsValue(call.a[k])) ->
                LET r == InlineArgs(l, st.i)
                IN  TransformLines(r.lines \o rest, consts, lens, g, [st EXCEPT !.i = r.i], out)
          [] inline /\ \A k \in DOMAIN call.a : IsValue(call.a[k]) ->
                IF \/ \E x \in BoundNames(f.body) \cap DOMAIN m : IsNum(m[x])
                   \/ \E k \in DOMAIN f.body : f.body[k].k = "ret" /\ Len(f.body[k].e) # Len(l.t)
                THEN Fail(st, "panic")
                ELSE TransformLines(ReturnsAssigned(Renamed(f.body, m), l.t) \o rest,
                                    consts, lens, g, [st EXCEPT !.i = @ + 1], out)
          [] special ->
                IF \E k \in Range(ConstParams(f)) : ~IsNum(call.a[k]) THEN Fail(st, "error")
                ELSE IF ~known /\ OverridesConstant(f.body, {f.params[k].x : k \in Range(ConstParams(f))})
                THEN Fail(st, "panic")
                ELSE TransformLines(rest, consts, lens, g,
                        IF known THEN st ELSE [st EXCEPT !.new = (name :> Special(f, call.a)) @@ @],
                        Append(out, [l EXCEPT !.e[1] =
                            CallTo(name, Each(OtherParams(f), LAMBDA k : call.a[k]))]))
          [] ~inline /\ ~special ->
                TransformLines(rest, LearntConstants(l, consts), lens, g, st, Append(out, l))

TransformVector(l, rest, consts, lens, g, st, out) ==
    LET x == l.t[1].s
        index == IF l.k = "push" THEN PushIndex(l) ELSE l.e
        target == Navigate(lens[x], Numbers(index))
        new == IF l.k = "push" THEN [target EXCEPT !.a = Append(@, l.e[Len(l.e)])]
               ELSE [target EXCEPT !.a = SubSeq(@, 1, Len(@) - 1)]
    IN  IF l.k = "vec" THEN TransformLines(rest, consts, (x :> l.e[1]) @@ lens, g, st, Append(out, l))
        ELSE IF /\ AllNums(index) /\ x \in DOMAIN lens /\ Navigable(lens[x], Numbers(index))
                /\ target.k = "dyn"
                /\ l.k = "pop" => target.a # <<>>
        THEN TransformLines(rest, consts, [lens EXCEPT ![x] = Replanted(@, Numbers(index), new)],
                            g, st, Append(out, l))
        ELSE Fail(st, "error")

TransformFor(l, rest, consts, lens, g, st, out) ==
    LET next == [st EXCEPT !.u = @ + 1]
    IN  IF ~(\A i \in DOMAIN l.e : IsNum(l.e[i]) \/ (l.o = "dynamic_unroll" /\ i = 2)) THEN Fail(st, "error")
        ELSE IF l.o = "unroll"
        THEN IF l.t[1].s \in BoundNames(l.b[1]) \/ AssignsConstArray(l.b[1], DOMAIN g.arrays)
             THEN Fail(st, "panic")
             ELSE TransformLines(Unrolled(l, st.u, DOMAIN g.arrays) \o rest, consts, lens, g, next, out)
        ELSE IF l.e[3].n < 1 THEN Fail(st, "error")
        ELSE TransformLines(DynamicTemplate(l, st.u, l.e[1].n, l.e[3].n) \o rest, consts, lens, g, next, out)

(* The lines that stay, with their blocks transformed. *)
TransformOther(l, rest, consts, lens, g, st, out) ==
    With(TransformBlocks(l.b, IF l.k \in {"if", "match"} THEN consts ELSE <<>>, g, st), LAMBDA r :
         TransformLines(rest, consts, lens, g, r.st, Append(out, [l EXCEPT !.b = r.blocks])))

(* A line whose expressions are folded. *)
TransformFolded(l, rest, consts, lens, g, st, out) ==
    CASE l.k = "let" -> TransformStatement(l, rest, consts, lens, g, st, out)
      [] l.k \in {"vec", "push", "pop"} -> TransformVector(l, rest, consts, lens, g, st, out)
      [] l.k = "if" /\ AllNums(l.e) ->
            LET then == Compare(l.o, l.e[1].n, l.e[2].n)
            IN  TransformLines(l.b[IF then THEN 1 ELSE 2] \o rest, consts, lens, g, st, out)
      [] l.k = "for" /\ l.o \in {"unroll", "dynamic_unroll"} ->
            TransformFor(l, rest, consts, lens, g, st, out)
      [] OTHER -> TransformOther(l, rest, consts, lens, g, st, out)

TransformLines(lines, consts, lens, g, st, out) ==
    IF lines = <<>> \/ st.err # "" THEN [lines |-> out, st |-> st]
    ELSE LET l == Head(lines)
             rest == Tail(lines)
         IN  IF l.k = "let" /\ l.e[1].k = "call" /\ l.e[1].s = "match_range"
             THEN IF MatchRangeFits(l, g.arrays, lens)
                  THEN TransformLines(ExpandedMatchRange(l, g.arrays, lens) \o rest, consts, lens, g, st, out)
                  ELSE Fail(st, IF MatchRangeCrashes(l, g.arrays, lens) THEN "panic" ELSE "error")
             ELSE With(MapExprs(l, LAMBDA e : Folded(WithConstants(e, consts), g.arrays, lens)), LAMBDA folded :
                  IF \E i \in DOMAIN LineExprs(folded) : Crashes(LineExprs(folded)[i]) THEN Fail(st, "panic")
                  ELSE With(ExtractedLine(folded, g, st.i), LAMBDA x :
                       IF x.lines # <<>>
                       THEN TransformLines(x.lines \o <<x.line>> \o rest, consts, lens, g,
                                           [st EXCEPT !.i = x.i, !.err = x.err], out)
                       ELSE TransformFolded(folded, rest, consts, lens, g, st, out)))

(* check_inline_returns: one return at most, and not inside a block. *)
RECURSIVE CountReturns(_)
CountReturns(lines) ==
    IF lines = <<>> THEN 0
    ELSE (IF Head(lines).k = "ret" THEN 1 ELSE 0)
         + CountReturns(FlattenSeq(Head(lines).b)) + CountReturns(Tail(lines))

InlineReturnsOk(body) ==
    /\ \A i \in DOMAIN body : CountReturns(FlattenSeq(body[i].b)) = 0
    /\ CountReturns(body) <= 1

InlinedOk(f) == f.inlined => ~HasMut(f) /\ ~HasConst(f) /\ InlineReturnsOk(f.body)

(* compile_time_transform_in_program: every function, the new ones too; those  *)
(* of constant parameters are only transformed once specialised.              *)
RECURSIVE TransformFunctions(_, _, _)
TransformFunctions(names, g, p) ==
    IF names = <<>> \/ p.st.err # "" THEN p
    ELSE LET f == Head(names)
         IN  With(TransformLines(p.fns[f].body, <<>>, <<>>, g, [p.st EXCEPT !.new = <<>>], <<>>), LAMBDA r :
                  TransformFunctions(Tail(names), g,
                      [fns |-> [p.fns EXCEPT ![f].body = r.lines] @@ r.st.new,
                       done |-> p.done \cup {f}, st |-> r.st]))

RECURSIVE TransformRounds(_, _)
TransformRounds(p, arrays) ==
    LET todo == {f \in DOMAIN p.fns : ~p.fns[f].inlined /\ ~HasConst(p.fns[f])} \ p.done
    IN  IF todo = {} \/ p.st.err # "" THEN p
        ELSE TransformRounds(TransformFunctions(Listed(todo), [fns |-> p.fns, arrays |-> arrays], p), arrays)

CompileTimeTransform(prog) ==
    LET start == [fns |-> prog.fns, done |-> {}, st |-> [new |-> <<>>, u |-> 0, i |-> 0, err |-> ""]]
    IN  IF \E f \in DOMAIN prog.fns : ~InlinedOk(prog.fns[f]) THEN [fns |-> <<>>, err |-> "error"]
        ELSE With(TransformRounds(start, prog.arrays), LAMBDA p :
                  [fns |-> Restrict(p.fns, {f \in DOMAIN p.fns : ~p.fns[f].inlined}), err |-> p.st.err])

-----------------------------------------------------------------------------
(* validate_vectors: a vector of an enclosing scope is not changed where the   *)
(* number of executions is not known, and none is passed to a function.       *)
PassesVector(e, vecs) ==
    e.k = "call" /\ \E i \in DOMAIN e.a : e.a[i].k = "var" /\ e.a[i].s \in vecs

RECURSIVE LiteralPassesVector(_, _)
LiteralPassesVector(e, vecs) ==
    IF e.k = "dyn" THEN \E i \in DOMAIN e.a : LiteralPassesVector(e.a[i], vecs) ELSE PassesVector(e, vecs)

RECURSIVE VectorsValid(_, _, _, _)
VectorsValid(lines, outer, local, restricted) ==
    IF lines = <<>> THEN TRUE
    ELSE LET l == Head(lines)
             x == l.t[1].s
             here == IF l.k = "vec" THEN local \cup {x} ELSE local
             vecs == outer \cup here
             inside == l.k # "for" \/ l.o \notin {"unroll", "dynamic_unroll"}
         IN  /\ l.k \in {"push", "pop"} => x \in vecs /\ ~(restricted /\ x \in outer)
             /\ l.k \in {"vec", "push"} => ~LiteralPassesVector(l.e[Len(l.e)], vecs)
             /\ l.k = "let" => ~PassesVector(l.e[1], vecs)
             /\ \A i \in DOMAIN l.b : VectorsValid(l.b[i], vecs, {}, inside)
             /\ VectorsValid(Tail(lines), outer, here, restricted)

(* The functions are checked before those of constant parameters, now          *)
(* specialised, are dropped.                                                  *)
ValidateVectors(fns) ==
    IF \A f \in DOMAIN fns : VectorsValid(fns[f].body, {}, {}, FALSE)
    THEN [fns |-> Restrict(fns, {f \in DOMAIN fns : ~HasConst(fns[f])}), err |-> ""]
    ELSE [fns |-> fns, err |-> "error"]

-----------------------------------------------------------------------------
(* transform_mutable_in_loops: what a loop changes of an outer mutable         *)
(* variable goes through a buffer, one cell for each iteration.               *)
RECURSIVE AssignedIn(_, _)
AssignedIn(lines, ext) ==
    UNION {IF l.k = "let"
           THEN {l.t[i].s : i \in {i \in DOMAIN l.t : l.t[i].k = "var" /\ l.t[i].n = 0}} \cap ext
           ELSE UNION {AssignedIn(l.b[i], ext) : i \in DOMAIN l.b} : l \in Range(lines)}

(* A faulty ModifiedExternals: only the variables the body reads as well.      *)
ReadExternals(body, arrays, outerMut) ==
    LET u == UsageOf(body, arrays) IN AssignedIn(body, (u.ext \ u.int) \ arrays)

ModifiedExternals(body, arrays, outerMut) ==
    LET u == UsageOf(body, arrays)
    IN  AssignedIn(body, ((u.ext \ u.int) \cup outerMut) \ arrays)

BufferedLoop(l, modified, suffix) ==
    LET x(name) == "@loop_" \o name \o "_" \o ToString(suffix)
        buff(v) == x("buff_" \o v)
        body(v) == x("body_" \o v)
        vs == Listed(modified)
        iterations == Var(x("size"))
        index == Var(x("buff_idx"))
        next == Var(x("next_idx"))
        newBody ==
            <<Set(x("buff_idx"), Op("sub", Var(l.t[1].s), l.e[1]))>>
            \o Each(vs, LAMBDA v : SetMut(body(v), At(Var(buff(v)), <<index>>)))
            \o Renamed(l.b[1], [v \in modified |-> Var(body(v))])
            \o <<Set(x("next_idx"), Op("add", index, Num(1)))>>
            \o Each(vs, LAMBDA v : SetAt(buff(v), next, Var(body(v))))
    IN  <<Set(x("size"), Op("sub", l.e[2], l.e[1]))>>
        \o FlattenSeq(Each(vs, LAMBDA v :
              <<Set(buff(v), CallTo("Array", <<Op("add", iterations, Num(1))>>)),
                SetAt(buff(v), Num(0), Var(v))>>))
        \o <<[l EXCEPT !.b = <<newBody>>]>>
        \o Each(vs, LAMBDA v : Set(v, At(Var(buff(v)), <<iterations>>)))

(* mut are the variables declared mutable by a statement so far. *)
RECURSIVE LoopLines(_, _, _, _, _)
RECURSIVE LoopBlocks(_, _, _, _)
LoopBlocks(blocks, mut, arrays, n) ==
    IF blocks = <<>> THEN [blocks |-> <<>>, n |-> n]
    ELSE With(LoopLines(Head(blocks), mut, arrays, n, <<>>), LAMBDA first :
         With(LoopBlocks(Tail(blocks), mut, arrays, first.n), LAMBDA rest :
              [blocks |-> <<first.lines>> \o rest.blocks, n |-> rest.n]))

(* The first line, its blocks transformed; m is the number of the next loop. *)
AfterLoop(l, lines, mut, arrays, m, out) ==
    LET modified == IF l.k = "for" THEN ModifiedExternals(l.b[1], arrays, mut) ELSE {}
        declared == IF l.k # "let" THEN {}
                    ELSE {l.t[i].s : i \in {i \in DOMAIN l.t : l.t[i].k = "var" /\ l.t[i].n = 1}}
    IN  IF modified = {} THEN LoopLines(lines, mut \cup declared, arrays, m, Append(out, l))
        ELSE LoopLines(lines, mut, arrays, m + 1, out \o BufferedLoop(l, modified, m))

LoopLines(lines, mut, arrays, n, out) ==
    IF lines = <<>> THEN [lines |-> out, n |-> n]
    ELSE With(LoopBlocks(Head(lines).b, mut, arrays, n), LAMBDA r :
              AfterLoop([Head(lines) EXCEPT !.b = r.blocks], Tail(lines), mut, arrays, r.n, out))

RECURSIVE LoopFunctions(_, _, _, _)
LoopFunctions(names, fns, arrays, n) ==
    IF names = <<>> THEN fns
    ELSE With(LoopLines(fns[Head(names)].body, {}, arrays, n, <<>>), LAMBDA r :
              LoopFunctions(Tail(names), [fns EXCEPT ![Head(names)].body = r.lines], arrays, r.n))

TransformMutableInLoops(prog) ==
    LoopFunctions(Listed(DOMAIN prog.fns), prog.fns, DOMAIN prog.arrays, 0)

(* find_modified_external_vars stops at a loop that assigns to a constant array.*)
RECURSIVE LoopAssignsConstArray(_, _)
LoopAssignsConstArray(lines, arrays) ==
    \E l \in Range(lines) : \E i \in DOMAIN l.b :
        \/ l.k = "for" /\ AssignsConstArray(l.b[i], arrays)
        \/ LoopAssignsConstArray(l.b[i], arrays)

=============================================================================
