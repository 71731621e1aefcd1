------------------------------- MODULE Simplify -------------------------------
(***************************************************************************)
(* simplify_lines (crates/lean_compiler/src/a_simplify_lang/mod.rs): from  *)
(* the abstract syntax to lines of at most one operation each.  A mutable  *)
(* variable becomes one variable for each of its versions, which the       *)
(* branches of a condition have to agree on; an array of a constant size   *)
(* becomes cells of the frame; an element read twice is read once while    *)
(* the first reading is valid; a loop becomes a recursive function.        *)
(*                                                                         *)
(* A simple line is a record [k, d, e, b, o, n]: its kind, the variables   *)
(* or cells it defines, its operands, its blocks, a name and a number.     *)
(* The state of the pass holds the lines emitted (lines), the last         *)
(* expression (v), and the trackers:                                       *)
(*   ver, assigned   MutableVarTracker: the versions, the names assigned   *)
(*   keys, valid     ArrayManager: the readings of elements, the valid ones*)
(*   vecs            VectorTracker: the variables that hold the elements   *)
(*   mallocs         ConstMalloc: the arrays of constant size              *)
(*   aux, loops, labels, arrs   the counters                               *)
(*   new, err        the functions of the loops, and the error             *)
(***************************************************************************)
EXTENDS CompileTime

SLine(k, d, e, b, o, n) == [k |-> k, d |-> d, e |-> e, b |-> b, o |-> o, n |-> n]

Cell(label, offset) == Expr("cell", label, offset, <<>>)

SDeclare(x) == SLine("fwd", <<Var(x)>>, <<>>, <<>>, "", 0)
SAssign(x, op, a, c) == SLine("assign", <<x>>, <<a, c>>, <<>>, op, 0)
SEqual(x, a) == SAssign(x, "add", a, Num(0))
SRaw(res, index, shift) == SLine("raw", <<>>, <<res, index>>, <<>>, "", shift)
SIf(condition, then, else) == SLine("if", <<>>, <<condition>>, <<then, else>>, "", 0)
SCall(f, args, res) == SLine("call", res, args, <<>>, f, 0)
SReturn(es) == SLine("ret", <<>>, es, <<>>, "", 0)
SPanic == SLine("panic", <<>>, <<>>, <<>>, "", 0)
SMatch(x, arms, first) == SLine("match", <<>>, <<x>>, arms, "", first)
SMalloc(x, cells) == SLine("malloc", <<x>>, <<cells>>, <<>>, "", 0)
SConstMalloc(x, label, cells) == SLine("constMalloc", <<x>>, <<>>, <<>>, label, cells)
SBits(args) == SLine("bits", <<>>, args, <<>>, "", 0)
SWitness(name, ptr) == SLine("witness", <<>>, <<ptr>>, <<>>, name, 0)
SDebugAssert(rel, a, c, range) == SLine("dassert", <<>>, <<a, c>>, <<>>, rel, range)
SAssertEq(a, c) == SLine("asserteq", <<>>, <<a, c>>, <<>>, "", 0)
SRangeCheck(a, bound) == SLine("range", <<>>, <<a, bound>>, <<>>, "", 0)

(* ends_with_early_exit, and check_block_always_returns: they agree. *)
RECURSIVE AlwaysReturns(_)
AlwaysReturns(block) ==
    /\ block # <<>>
    /\ LET last == block[Len(block)]
       IN  \/ last.k \in {"panic", "ret"}
           \/ last.b # <<>> /\ \A i \in DOMAIN last.b : AlwaysReturns(last.b[i])

Emit(st, l) == [st EXCEPT !.lines = Append(@, l)]
Value(st, e) == [st EXCEPT !.v = e]
Rejects(st, how) == [st EXCEPT !.err = how]

(* The error of a step ends the pass. *)
Then(st, Rest(_)) == IF st.err # "" THEN st ELSE Rest(st)

AuxVar(st) == Var("@aux_var_" \o ToString(st.aux))
NextAux(st) == [st EXCEPT !.aux = @ + 1]

-----------------------------------------------------------------------------
(* MutableVarTracker. *)
Version(x, n) == "@mut_" \o x \o "_" \o ToString(n)
CurrentName(st, x) == IF x \in DOMAIN st.ver THEN Version(x, st.ver[x]) ELSE x

IsReassigned(st, x) == x \in DOMAIN st.ver /\ st.ver[x] > 0

(* get_target_var_name.  names are those of the source: the compiler assigns   *)
(* its own as it likes.                                                       *)
Targeted(st, t, names) ==
    IF t.n = 1 THEN [st EXCEPT !.ver = (t.s :> 0) @@ @, !.v = Var(Version(t.s, 0))]
    ELSE IF t.s \in DOMAIN st.ver
    THEN [st EXCEPT !.ver[t.s] = @ + 1, !.v = Var(Version(t.s, st.ver[t.s] + 1))]
    ELSE IF t.s \in names /\ t.s \in st.assigned THEN Rejects(st, "error")
    ELSE [st EXCEPT !.assigned = @ \cup {t.s}, !.v = Var(t.s)]

(* The target of an assignment, declared if it is a new version. *)
DeclaredTarget(st, t, names) ==
    Then(Targeted(st, t, names),
         LAMBDA s : IF IsReassigned(s, t.s) THEN Emit(s, SDeclare(s.v.s)) ELSE s)

RECURSIVE WithoutDeclaration(_, _)
WithoutDeclaration(lines, x) ==
    Each(SelectSeq(lines, LAMBDA l : ~(l.k = "fwd" /\ l.d[1].s = x)),
         LAMBDA l : [l EXCEPT !.b = Each(@, LAMBDA b : WithoutDeclaration(b, x))])

(* unify_branch_versions, for one variable.  u is [ver, decls, branches];      *)
(* before and after are the versions at the start and the end of the branches.*)
UnifyVar(u, x, before, after) ==
    LET known(m) == IF x \in DOMAIN m THEN m[x] ELSE 0
        going == {i \in DOMAIN u.branches : ~AlwaysReturns(u.branches[i])}
        versions == {known(after[i]) : i \in going}
        common == CHOOSE n \in versions : TRUE
        newest == CHOOSE n \in versions : \A m \in versions : m <= n
        unified == Version(x, newest + 1)
        local == x \notin DOMAIN before /\ \E i \in going : x \notin DOMAIN after[i]
    IN  CASE going = {} -> [u EXCEPT !.ver = (x :> known(before)) @@ @]
          [] going # {} /\ local -> [u EXCEPT !.local = @ \cup {x}]
          [] going # {} /\ ~local /\ Cardinality(versions) = 1 ->
                [u EXCEPT !.ver = (x :> common) @@ @,
                          !.decls = IF common > known(before) THEN Append(@, SDeclare(Version(x, common))) ELSE @,
                          !.branches = IF common > known(before)
                                       THEN Each(@, LAMBDA b : WithoutDeclaration(b, Version(x, common))) ELSE @]
          [] going # {} /\ ~local /\ Cardinality(versions) > 1 ->
                [u EXCEPT !.ver = (x :> newest + 1) @@ @,
                          !.decls = Append(@, SDeclare(unified)),
                          !.branches = [i \in DOMAIN @ |->
                              IF i \in going
                              THEN Append(@[i], SEqual(Var(unified), Var(Version(x, known(after[i])))))
                              ELSE @[i]] \o <<>>]

RECURSIVE UnifyVars(_, _, _, _)
UnifyVars(u, xs, before, after) ==
    IF xs = <<>> THEN u ELSE UnifyVars(UnifyVar(u, Head(xs), before, after), Tail(xs), before, after)

(* A faulty Unified: the branches keep their own versions, the last one counts.*)
LastBranchVersions(ver, before, after, branches) ==
    [ver |-> after[Len(after)], decls |-> <<>>, branches |-> branches]

Unified(ver, before, after, branches) ==
    With(UnifyVars([ver |-> ver, decls |-> <<>>, branches |-> branches, local |-> {}],
                   Listed(DOMAIN ver), before, after),
         LAMBDA u : [ver |-> Restrict(u.ver, DOMAIN u.ver \ u.local),
                     decls |-> u.decls, branches |-> u.branches])

-----------------------------------------------------------------------------
(* handle_array_assignment: res is the variable that takes the element, or the *)
(* value the element takes.                                                   *)
ArrayAssigned(st, array, index, res, reads) ==
    LET name == CurrentName(st, array.s)
        direct == array.k = "var" /\ IsNum(index) /\ name \in DOMAIN st.mallocs
        cell == Cell(st.mallocs[name], index.n)
        aux == AuxVar(st)
        based == IF array.k = "var" THEN st
                 ELSE Emit(NextAux(st), SEqual(aux, array))
        base == IF array.k = "var" THEN Var(name) ELSE aux
        ptr == AuxVar(based)
    IN  IF direct THEN Emit(st, IF reads THEN SEqual(res, cell) ELSE SEqual(cell, res))
        ELSE IF IsNum(index) THEN Emit(based, SRaw(res, base, index.n))
        ELSE Emit(Emit(NextAux(based), SAssign(ptr, "add", base, index)), SRaw(res, ptr, 0))

(* The key of a reading: the versioned array, and the index as it is written.  *)
AuxKey(st, array, index) == <<IF array.k = "var" THEN Var(CurrentName(st, array.s)) ELSE array, index>>

ConstIndex(e) == Folded(e, <<>>, <<>>)

(* simplify_expr: the lines are emitted, the value is a variable, a cell or a  *)
(* number.  g is [fns, arrays, names].                                        *)
RECURSIVE SimpleExpr(_, _, _), SimpleExprs(_, _, _)
ValueFirst(v, rest) == Then(rest, LAMBDA r : Value(r, <<v>> \o r.v))

SimpleExprs(g, st, es) ==
    IF st.err # "" THEN st
    ELSE IF es = <<>> THEN Value(st, <<>>)
    ELSE With(SimpleExpr(g, st, Head(es)),
              LAMBDA first : ValueFirst(first.v, SimpleExprs(g, first, Tail(es))))

(* An element of a vector: the variable that holds it. *)
SimpleElement(g, st, e, x) ==
    Then(SimpleExprs(g, st, Inner(e)),
         LAMBDA s : IF AllNums(s.v) /\ Navigable(s.vecs[x], Numbers(s.v))
                       /\ Navigate(s.vecs[x], Numbers(s.v)).k = "var"
                    THEN Value(s, Navigate(s.vecs[x], Numbers(s.v))) ELSE Rejects(s, "error"))

(* An element of an array: the reading is taken from the cache if it is valid. *)
SimpleReading(g, st, e) ==
    LET array == e.a[1]
        index == e.a[2]
        key == AuxKey(st, array, index)
        x == IF key \in DOMAIN st.keys THEN st.keys[key] ELSE "@arr_aux_" \o ToString(st.arrs)
        known == IF key \in DOMAIN st.keys THEN st
                 ELSE [st EXCEPT !.keys = (key :> x) @@ @, !.arrs = @ + 1]
    IN  IF Len(e.a) # 2 THEN Rejects(st, "panic")
        ELSE IF array.k = "var" /\ array.s \in DOMAIN st.mallocs /\ IsNum(ConstIndex(index))
        THEN Value(st, Cell(st.mallocs[array.s], ConstIndex(index).n))
        ELSE IF x \in known.valid THEN Value(known, Var(x))
        ELSE Then(SimpleExpr(g, [known EXCEPT !.valid = @ \cup {x}], index),
                  LAMBDA s : Value(ArrayAssigned(s, array, s.v, Var(x), TRUE), Var(x)))

(* An element of a constant array that could not be computed before. *)
SimpleConstant(st, tree, index) ==
    IF ~AllNums(index) THEN Rejects(st, "error")
    ELSE IF Navigable(tree, Numbers(index)) /\ IsNum(Navigate(tree, Numbers(index)))
    THEN Value(st, Navigate(tree, Numbers(index))) ELSE Rejects(st, "panic")

SimpleAt(g, st, e) ==
    LET array == e.a[1]
        name == CurrentName(st, array.s)
    IN  IF array.k = "var" /\ array.s \in DOMAIN g.arrays THEN SimpleConstant(st, g.arrays[array.s], Inner(e))
        ELSE IF array.k = "var" /\ name \in DOMAIN st.vecs THEN SimpleElement(g, st, e, name)
        ELSE SimpleReading(g, st, e)

(* An operation on numbers is computed later, by whoever needs its value. *)
SimpleOp(g, st, e) ==
    Then(SimpleExprs(g, st, e.a),
         LAMBDA s : IF AllNums(s.v)
                    THEN IF Defined(e.s, Numbers(s.v)) THEN Value(s, Num(Math(e.s, Numbers(s.v))))
                         ELSE Rejects(s, "panic")
                    ELSE IF e.s \notin RuntimeOps THEN Rejects(s, "error")
                    ELSE Value(Emit(NextAux(s), SAssign(AuxVar(s), e.s, s.v[1], s.v[2])), AuxVar(s)))

SimpleCall(g, st, e) ==
    IF e.s \notin DOMAIN g.fns THEN Rejects(st, "panic")
    ELSE IF g.fns[e.s].returns # 1 THEN Rejects(st, "error")
    ELSE Then(SimpleExprs(g, st, e.a),
              LAMBDA s : Value(Emit(NextAux(s), SCall(e.s, s.v, <<AuxVar(s)>>)), AuxVar(s)))

LenIn(s, x, index) ==
    IF ~(AllNums(s.v) /\ Navigable(s.vecs[x], index)) THEN Rejects(s, "error")
    ELSE IF Navigate(s.vecs[x], index).k = "dyn" THEN Value(s, Num(Len(Navigate(s.vecs[x], index).a)))
    ELSE Rejects(s, "panic")

SimpleLen(g, st, e) ==
    LET x == CurrentName(st, e.s)
    IN  IF x \notin DOMAIN st.vecs THEN Rejects(st, "panic")
        ELSE Then(SimpleExprs(g, st, e.a), LAMBDA s : LenIn(s, x, Numbers(s.v)))

SimpleExpr(g, st, e) ==
    CASE st.err # "" -> st
      [] st.err = "" /\ e.k = "num" -> Value(st, e)
      [] st.err = "" /\ e.k = "var" -> Value(st, Var(CurrentName(st, e.s)))
      [] st.err = "" /\ e.k = "at" -> SimpleAt(g, st, e)
      [] st.err = "" /\ e.k = "op" -> SimpleOp(g, st, e)
      [] st.err = "" /\ e.k = "call" -> SimpleCall(g, st, e)
      [] st.err = "" /\ e.k = "len" -> SimpleLen(g, st, e)
      [] st.err = "" /\ e.k \in {"lambda", "witness", "dyn"} -> Rejects(st, "error")

(* build_vector_value: a variable for each element. *)
RECURSIVE VectorTree(_, _, _), VectorTrees(_, _, _)
VectorTrees(g, st, es) ==
    IF st.err # "" THEN st
    ELSE IF es = <<>> THEN Value(st, <<>>)
    ELSE With(VectorTree(g, st, Head(es)),
              LAMBDA first : ValueFirst(first.v, VectorTrees(g, first, Tail(es))))

VectorTree(g, st, e) ==
    IF e.k = "dyn" THEN Then(VectorTrees(g, st, e.a), LAMBDA s : Value(s, DynArray(s.v)))
    ELSE Then(SimpleExpr(g, NextAux(st), e),
              LAMBDA s : Value(Emit(s, SEqual(AuxVar(st), s.v)), AuxVar(st)))

-----------------------------------------------------------------------------
(* The lines.  An operation whose operands are all known is not done at run    *)
(* time.                                                                      *)
Assignment(st, target, op, args) ==
    IF AllNums(args)
    THEN IF Defined(op, Numbers(args)) THEN Emit(st, SEqual(target, Num(Math(op, Numbers(args)))))
         ELSE Rejects(st, "panic")
    ELSE IF op \notin RuntimeOps THEN Rejects(st, "error")
    ELSE Emit(st, SAssign(target, op, args[1], args[2]))

ArrayMade(s, x, label) ==
    IF IsNum(s.v)
    THEN Emit([s EXCEPT !.labels = @ + 1, !.mallocs = (x.s :> label) @@ @], SConstMalloc(x, label, s.v.n))
    ELSE Emit(s, SMalloc(x, s.v))

SimpleArray(g, st, l) ==
    IF Len(l.t) # 1 \/ Len(l.e[1].a) # 1 \/ l.t[1].k = "at" THEN Rejects(st, "error")
    ELSE Then(Targeted(st, l.t[1], g.names),
              LAMBDA t : Then(SimpleExpr(g, t, l.e[1].a[1]),
                              LAMBDA s : ArrayMade(s, t.v, "malloc_" \o ToString(s.labels))))

(* The variables a call returns to; an element takes its value from one.       *)
CallTarget(g, st, t) ==
    IF t.k = "at" THEN Value(NextAux(st), AuxVar(st))
    ELSE Then(Targeted(st, t, g.names),
              LAMBDA s : IF t.n = 1 \/ IsReassigned(s, t.s) THEN Emit(s, SDeclare(s.v.s)) ELSE s)

RECURSIVE CallTargets(_, _, _)
CallTargets(g, st, targets) ==
    IF st.err # "" THEN st
    ELSE IF targets = <<>> THEN Value(st, <<>>)
    ELSE With(CallTarget(g, st, Head(targets)),
              LAMBDA s : ValueFirst(s.v, CallTargets(g, s, Tail(targets))))

ReturnedElement(g, st, t, value) ==
    IF t.k = "var" THEN st
    ELSE Then(SimpleExpr(g, st, t.a[2]), LAMBDA s : ArrayAssigned(s, t.a[1], s.v, value, FALSE))

RECURSIVE ReturnedElements(_, _, _, _)
ReturnedElements(g, st, targets, values) ==
    IF targets = <<>> \/ st.err # "" THEN st
    ELSE ReturnedElements(g, ReturnedElement(g, st, Head(targets), Head(values)), Tail(targets), Tail(values))

SimpleCallLine(g, st, l) ==
    LET call == l.e[1]
        f == g.fns[call.s]
    IN  IF call.s \notin DOMAIN g.fns THEN Rejects(st, "error")
        ELSE IF Len(l.t) # f.returns \/ Len(call.a) # Len(f.params) THEN Rejects(st, "error")
        ELSE With(SimpleExprs(g, st, call.a), LAMBDA s :
             Then(CallTargets(g, s, l.t), LAMBDA t :
                  ReturnedElements(g, Emit(t, SCall(call.s, s.v, t.v)), l.t, t.v)))

SimpleHint(g, st, l) ==
    IF l.t # <<>> THEN Rejects(st, "error")
    ELSE Then(SimpleExprs(g, st, l.e[1].a),
              LAMBDA s : Emit(s, IF l.e[1].k = "witness" THEN SWitness(l.e[1].s, s.v[1]) ELSE SBits(s.v)))

(* var = value.  The value is simplified before the variable gets its version; *)
(* the length of a vector is taken to have been computed before.              *)
SimpleVarLine(g, st, l) ==
    LET t == l.t[1]
        e == l.e[1]
        element == e.k = "at" /\ ~(e.a[1].k = "var" /\ CurrentName(st, e.a[1].s) \in DOMAIN st.vecs)
        parts == IF e.k = "op" \/ element THEN Inner(e) ELSE <<e>>
    IN  IF e.k \in {"len", "lambda"} THEN Rejects(st, "panic") ELSE
        Then(SimpleExprs(g, st, parts), LAMBDA s :
        Then(IF e.k = "at" /\ ~element THEN Targeted(s, t, g.names) ELSE DeclaredTarget(s, t, g.names),
             LAMBDA d : IF e.k = "op" THEN Assignment(d, d.v, e.s, s.v)
                        ELSE IF element
                        THEN IF Len(s.v) # 1 THEN Rejects(d, "panic") ELSE ArrayAssigned(d, e.a[1], s.v[1], d.v, TRUE)
                        ELSE Emit(d, SEqual(d.v, s.v[1]))))

(* array[index] = value. *)
SimpleElementLine(g, st, l) ==
    LET array == l.t[1].a[1]
        e == l.e[1]
        direct(i) == /\ IsNum(i.v) /\ array.k = "var" /\ array.s \in DOMAIN i.mallocs
                     /\ e.k = "op"
    IN  Then(SimpleExpr(g, st, l.t[1].a[2]), LAMBDA i :
        Then(IF direct(i) THEN SimpleExprs(g, i, e.a) ELSE SimpleExpr(g, i, e),
             LAMBDA s : IF direct(i) THEN Assignment(s, Cell(i.mallocs[array.s], i.v.n), e.s, s.v)
                        ELSE ArrayAssigned(s, array, i.v, s.v, FALSE)))

SimpleStatement(g, st, l) ==
    LET e == l.e[1]
    IN  CASE e.k = "call" /\ e.s = "Array" -> SimpleArray(g, st, l)
          [] e.k = "witness" \/ (e.k = "call" /\ e.s = "hint_decompose_bits") -> SimpleHint(g, st, l)
          [] e.k = "call" /\ e.s \notin Builtins -> SimpleCallLine(g, st, l)
          [] e.k \notin {"call", "witness"} ->
                IF Len(l.t) # 1 THEN Rejects(st, "panic")
                ELSE IF l.t[1].k = "var" THEN SimpleVarLine(g, st, l) ELSE SimpleElementLine(g, st, l)

(* An assertion on an order is one on what is left of the bound. *)
AssertLines(s, l, a, c, aux) ==
    LET bound == IF l.o = "<" THEN aux ELSE c
        before == IF l.o = "<" THEN Emit(NextAux(s), SAssign(aux, "sub", c, Num(1))) ELSE s
    IN  CASE l.k = "dassert" -> Emit(s, SDebugAssert(l.o, a, c, 0))
          [] l.k = "assert" /\ l.o = "!=" ->
                Emit(Emit(NextAux(s), SAssign(aux, "sub", a, c)), SIf(aux, <<>>, <<SPanic>>))
          [] l.k = "assert" /\ l.o = "==" ->
                IF AllNums(s.v) THEN IF a.n = c.n THEN s ELSE Rejects(s, "error")
                ELSE Emit(s, SAssertEq(a, c))
          [] l.k = "assert" /\ l.o \in {"<", "<="} ->
                Emit(Emit(before, SDebugAssert("<=", a, bound, 1)), SRangeCheck(a, bound))

SimpleAssert(g, st, l) ==
    Then(SimpleExprs(g, st, l.e), LAMBDA s : AssertLines(s, l, s.v[1], s.v[2], AuxVar(s)))

(* The vector x, or the one in it that index i.v reaches, gets or loses its last *)
(* element; s.v is the new one.                                               *)
VectorChanged(s, l, i, at) ==
    LET x == l.t[1].s
        target == Navigate(s.vecs[x], at)
        valid == /\ AllNums(i.v) /\ x \in DOMAIN s.vecs /\ Navigable(s.vecs[x], at)
                 /\ target.k = "dyn"
                 /\ l.k = "pop" => target.a # <<>>
        new == IF l.k = "push" THEN [target EXCEPT !.a = Append(@, s.v)]
               ELSE [target EXCEPT !.a = SubSeq(@, 1, Len(@) - 1)]
    IN  IF l.k = "vec" THEN [s EXCEPT !.vecs = (x :> s.v) @@ @]
        ELSE IF valid THEN [s EXCEPT !.vecs[x] = Replanted(@, at, new)]
        ELSE Rejects(s, "error")

SimpleVector(g, st, l) ==
    LET index == IF l.k = "push" THEN PushIndex(l) ELSE l.e
    IN  With(SimpleExprs(g, st, IF l.k = "vec" THEN <<>> ELSE index), LAMBDA i :
        Then(IF l.k = "pop" THEN i ELSE VectorTree(g, i, l.e[Len(l.e)]), LAMBDA s :
             VectorChanged(s, l, i, Numbers(i.v))))

(* create_recursive_function. *)
RecursiveFunction(name, args, x, end, body, externals) ==
    LET next == Var("@incremented_" \o x)
        diff == Var("@diff_" \o x)
    IN  [args |-> args, returns |-> 0,
         body |-> <<SAssign(diff, "sub", Var(x), end),
                    SIf(diff,
                        body \o <<SAssign(next, "add", Var(x), Num(1)),
                                  SCall(name, <<next>> \o Each(externals, LAMBDA y : Var(y)), <<>>),
                                  SReturn(<<>>)>>,
                        <<SReturn(<<>>)>>)>>]

RECURSIVE SimpleLines(_, _, _, _)
RECURSIVE SimpleArms(_, _, _, _, _)

(* The loop of l becomes a function of what it takes from outside: the names its *)
(* body uses, and the bounds that are variables and not names of the source.    *)
LoopCalled(s, l, b, named) ==
    LET x == l.t[1].s
        name == (IF l.o = "parallel_range" THEN "@parallel_loop_" ELSE "@loop_") \o ToString(b.loops)
        inFrame == s.v[2].k = "cell"
        aux == AuxVar(s)
        t == IF inFrame THEN Emit(NextAux(s), SEqual(aux, s.v[2])) ELSE s
        bounds == <<s.v[1], IF inFrame THEN aux ELSE s.v[2]>>
        computed == SelectSeq(<<1, 2>>, LAMBDA i : ~IsValue(l.e[i]) /\ bounds[i].k = "var")
        externals == named \o Each(computed, LAMBDA i : bounds[i].s)
    IN  Emit([t EXCEPT !.new = (name :> RecursiveFunction(name, <<x>> \o externals, x, bounds[2],
                                                          b.lines, externals)) @@ @],
             SCall(name, <<bounds[1]>> \o Each(externals, LAMBDA y : Var(y)), <<>>))

NamesNow(st, names) == Each(Listed(names), LAMBDA y : CurrentName(st, y))

(* The body was simplified in b; the rest goes on where the loop is. *)
AfterBody(g, st, l, b) ==
    LET arrays == DOMAIN g.arrays
        back == [b EXCEPT !.lines = st.lines, !.valid = st.valid, !.assigned = st.assigned,
                          !.mallocs = st.mallocs, !.loops = @ + 1]
        used == ((UsageOf(l.b[1], arrays).ext \cup UsedNames(l.e[1]) \cup UsedNames(l.e[2])) \ arrays)
                    \ {l.t[1].s}
    IN  Then(SimpleExprs(g, back, l.e), LAMBDA s : LoopCalled(s, l, b, NamesNow(back, used)))

(* A loop: its body is simplified with no reading valid and no array known. *)
SimpleFor(g, st, l) ==
    Then(SimpleLines(g, [st EXCEPT !.lines = <<>>, !.valid = {}, !.assigned = {}, !.mallocs = <<>>],
                     l.b[1], [returns |-> 0, inLoop |-> TRUE]),
         LAMBDA b : AfterBody(g, st, l, b))

(* The branches of a condition: `==` exchanges them, an order is unreachable.  *)
SimpleIf(g, st, l, c) ==
    LET first == IF l.o = "==" THEN 2 ELSE 1
    IN  IF l.o \notin {"==", "!="} THEN Rejects(st, "panic") ELSE
        Then(SimpleExprs(g, st, l.e), LAMBDA s :
        With(Emit(NextAux(s), SAssign(AuxVar(s), "sub", s.v[1], s.v[2])), LAMBDA o :
        With(SimpleLines(g, [o EXCEPT !.lines = <<>>], l.b[first], c), LAMBDA then :
        Then(SimpleLines(g, [then EXCEPT !.lines = <<>>, !.valid = o.valid, !.ver = o.ver,
                                         !.assigned = o.assigned, !.vecs = o.vecs], l.b[3 - first], c),
             LAMBDA else :
        With(Unified(o.ver, o.ver, <<then.ver, else.ver>>, <<then.lines, else.lines>>), LAMBDA u :
             [else EXCEPT !.ver = u.ver, !.assigned = o.assigned, !.vecs = o.vecs,
                          !.valid = @ \cap then.valid,
                          !.lines = o.lines \o u.decls \o
                                    <<SIf(AuxVar(s), u.branches[1], u.branches[2])>>])))))

SimpleArms(g, st, arms, c, start) ==
    IF arms = <<>> \/ st.err # "" THEN [st |-> st, lines |-> <<>>, vers |-> <<>>]
    ELSE With(SimpleLines(g, [st EXCEPT !.lines = <<>>, !.ver = start.ver, !.assigned = start.assigned,
                                        !.keys = start.keys, !.valid = start.valid,
                                        !.arrs = start.arrs], Head(arms), c), LAMBDA arm :
         With(SimpleArms(g, arm, Tail(arms), c, start), LAMBDA rest :
              [st |-> rest.st, lines |-> <<arm.lines>> \o rest.lines, vers |-> <<arm.ver>> \o rest.vers]))

SimpleMatch(g, st, l, c) ==
    Then(SimpleExpr(g, st, l.e[1]), LAMBDA s :
    With(SimpleArms(g, s, l.b, c, s), LAMBDA arms :
    Then(arms.st, LAMBDA last :
    With(Unified(last.ver, s.ver, arms.vers, arms.lines), LAMBDA u :
         [last EXCEPT !.ver = u.ver, !.keys = s.keys, !.valid = s.valid, !.arrs = s.arrs,
                      !.lines = s.lines \o u.decls \o <<SMatch(s.v, u.branches, l.n)>>]))))

SimpleReturn(g, st, l, c) ==
    IF c.inLoop \/ Len(l.e) # c.returns THEN Rejects(st, "error")
    ELSE Then(SimpleExprs(g, st, l.e), LAMBDA s : Emit(s, SReturn(s.v)))

SimpleDeclaration(st, l) ==
    LET x == l.t[1]
    IN  IF x.n = 1 THEN Emit([st EXCEPT !.ver = (x.s :> 0) @@ @], SDeclare(Version(x.s, 0)))
        ELSE Emit(st, SDeclare(x.s))

SimpleLine(g, st, l, c) ==
    CASE l.k = "fwd" -> SimpleDeclaration(st, l)
      [] l.k = "let" -> SimpleStatement(g, st, l)
      [] l.k \in {"assert", "dassert"} -> SimpleAssert(g, st, l)
      [] l.k = "if" -> SimpleIf(g, st, l, c)
      [] l.k = "for" -> SimpleFor(g, st, l)
      [] l.k = "match" -> SimpleMatch(g, st, l, c)
      [] l.k = "ret" -> SimpleReturn(g, st, l, c)
      [] l.k = "panic" -> Emit(st, SPanic)
      [] l.k \in {"vec", "push", "pop"} -> SimpleVector(g, st, l)

(* c is [returns, inLoop]: what a return must give, and whether there may be one. *)
SimpleLines(g, st, lines, c) ==
    IF lines = <<>> \/ st.err # "" THEN st
    ELSE SimpleLines(g, SimpleLine(g, st, Head(lines), c), Tail(lines), c)

-----------------------------------------------------------------------------
(* The functions, one by one: the counters go on, the trackers start anew.     *)
NewTrackers(st, f) ==
    LET mut == {f.params[i].x : i \in {i \in DOMAIN f.params : f.params[i].kind = "mut"}}
    IN  [st EXCEPT !.lines = <<>>, !.ver = [x \in mut |-> 0],
                   !.assigned = {f.params[i].x : i \in DOMAIN f.params} \ mut,
                   !.keys = <<>>, !.valid = {}, !.vecs = <<>>, !.mallocs = <<>>, !.arrs = 0]

FunctionAdded(s, start, f, name) ==
    IF ~AlwaysReturns(s.lines) THEN Rejects(s, "error")
    ELSE [s EXCEPT !.new = (name :> [args |-> Each(f.params, LAMBDA p : CurrentName(start, p.x)),
                                     returns |-> f.returns, body |-> s.lines]) @@ @]

SimpleFunction(g, start, f, name) ==
    Then(SimpleLines(g, start, f.body, [returns |-> f.returns, inLoop |-> FALSE]),
         LAMBDA s : FunctionAdded(s, start, f, name))

RECURSIVE SimpleFunctions(_, _, _)
SimpleFunctions(g, st, names) ==
    IF names = <<>> \/ st.err # "" THEN st
    ELSE LET f == g.fns[Head(names)]
         IN  SimpleFunctions(g, SimpleFunction(g, NewTrackers(st, f), f, Head(names)), Tail(names))

(* The part of simplify_program after the rewriting of the syntax.  names are  *)
(* those of the source.                                                       *)
SimplifyProgram(fns, arrays, names) ==
    LET g == [fns |-> fns, arrays |-> arrays, names |-> names]
    IN  With(SimpleFunctions(g,
                [lines |-> <<>>, v |-> Num(0), ver |-> <<>>, assigned |-> {}, keys |-> <<>>, valid |-> {},
                 vecs |-> <<>>, mallocs |-> <<>>, aux |-> 0, loops |-> 0, labels |-> 0, arrs |-> 0,
                 new |-> <<>>, err |-> ""],
                Listed(DOMAIN fns)),
             LAMBDA st : [fns |-> st.new, err |-> st.err])

=============================================================================
