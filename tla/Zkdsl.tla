-------------------------------- MODULE Zkdsl --------------------------------
(***************************************************************************)
(* The language the guest programs are written in                          *)
(* (crates/lean_compiler/src/lang.rs, zkDSL.md): its abstract syntax, the  *)
(* arithmetic its compile-time expressions are evaluated with, and what a  *)
(* program means when it is run like the Python program it also is.  The   *)
(* passes of the compiler are in CompileTime, Simplify, PostOptimize and   *)
(* Intermediate; the meaning here is what they must preserve.              *)
(*                                                                         *)
(* Every expression is a record [k, s, n, a] (its kind, a name, a number,  *)
(* its parts) and every line a record [k, t, e, b, o, n] (its kind, its    *)
(* targets, its expressions, its nested blocks, a name, a number), so that *)
(* a traversal reads the same for all of them.  Locations, print and the   *)
(* precompiles are left out.                                               *)
(***************************************************************************)
EXTENDS Vm, FiniteSets, TLC

CONSTANTS
    PublicInput,  \* the public input, padded: the first cells of the memory
    Heap          \* where the arrays of a program start, when it is interpreted

Expr(k, s, n, a) == [k |-> k, s |-> s, n |-> n, a |-> a]

Num(c) == Expr("num", "", c, <<>>)
Var(x) == Expr("var", x, 0, <<>>)
MutVar(x) == Expr("var", x, 1, <<>>)
At(array, index) == Expr("at", "", 0, <<array>> \o index)
Op(op, x, y) == Expr("op", op, 0, <<x, y>>)
CallTo(f, args) == Expr("call", f, 0, args)
LenOf(x, index) == Expr("len", x, 0, index)
Lambda(x, body) == Expr("lambda", x, 0, <<body>>)
WitnessHint(name, ptr) == Expr("witness", name, 0, <<ptr>>)
DynArray(elements) == Expr("dyn", "", 0, elements)

Line(k, t, e, b, o, n) == [k |-> k, t |-> t, e |-> e, b |-> b, o |-> o, n |-> n]

Declare(x) == Line("fwd", <<Var(x)>>, <<>>, <<>>, "", 0)
DeclareMut(x) == Line("fwd", <<MutVar(x)>>, <<>>, <<>>, "", 0)
Let(targets, value) == Line("let", targets, <<value>>, <<>>, "", 0)
Set(x, value) == Let(<<Var(x)>>, value)
SetMut(x, value) == Let(<<MutVar(x)>>, value)
SetAt(x, i, value) == Let(<<At(Var(x), <<i>>)>>, value)
Do(call) == Let(<<>>, call)
AssertThat(rel, x, y) == Line("assert", <<>>, <<x, y>>, <<>>, rel, 0)
DebugAssert(rel, x, y) == Line("dassert", <<>>, <<x, y>>, <<>>, rel, 0)
If(rel, x, y, then, else) == Line("if", <<>>, <<x, y>>, <<then, else>>, rel, 0)
For(kind, x, start, end, body) == Line("for", <<Var(x)>>, <<start, end>>, <<body>>, kind, 0)
DynamicUnroll(x, start, end, bits, body) ==
    Line("for", <<Var(x)>>, <<start, end, bits>>, <<body>>, "dynamic_unroll", 0)
Match(value, first, arms) == Line("match", <<>>, <<value>>, arms, "", first)
Return(values) == Line("ret", <<>>, values, <<>>, "", 0)
Panic == Line("panic", <<>>, <<>>, <<>>, "", 0)
Vector(x, elements) == Line("vec", <<Var(x)>>, <<DynArray(elements)>>, <<>>, "", 0)
Push(x, index, element) == Line("push", <<Var(x)>>, index \o <<element>>, <<>>, "", 0)
Pop(x, index) == Line("pop", <<Var(x)>>, index, <<>>, "", 0)

(* A parameter is immutable, "const" or "mut". *)
Param(x, kind) == [x |-> x, kind |-> kind]
Fun(params, inlined, returns, body) ==
    [params |-> params, inlined |-> inlined, returns |-> returns, body |-> body]

HasConst(f) == \E i \in DOMAIN f.params : f.params[i].kind = "const"
HasMut(f) == \E i \in DOMAIN f.params : f.params[i].kind = "mut"

(* inner_exprs: the array of an access is not one of them. *)
Inner(e) == IF e.k = "at" THEN Tail(e.a) ELSE e.a
WithInner(e, parts) == [e EXCEPT !.a = IF e.k = "at" THEN <<e.a[1]>> \o parts ELSE parts]

IsNum(e) == e.k = "num"
AllNums(es) == \A i \in DOMAIN es : IsNum(es[i])
Each(es, Value(_)) == [i \in DOMAIN es |-> Value(es[i])] \o <<>>
Numbers(es) == Each(es, LAMBDA x : x.n)

(* expressions_mut: the value, then the indices of the targets. *)
IndexedTargets(l) == {i \in DOMAIN l.t : l.t[i].k = "at"}

-----------------------------------------------------------------------------
(* MathOperation::eval.  The field operations are those of the VM; the others *)
(* work on the canonical integers and come back into the field.               *)
RECURSIVE Log2Ceil(_)
Log2Ceil(n) == IF n <= 1 THEN 0 ELSE 1 + Log2Ceil((n + 1) \div 2)

RECURSIVE FieldPower(_, _)
FieldPower(x, n) == IF n = 0 THEN 1 ELSE (x * FieldPower(x, n - 1)) % P

Math(op, v) ==
    CASE op = "add" -> (v[1] + v[2]) % P
      [] op = "mul" -> (v[1] * v[2]) % P
      [] op = "sub" -> (v[1] - v[2]) % P
      [] op = "div" -> (v[1] * InverseOf(v[2])) % P
      [] op = "exp" -> FieldPower(v[1], v[2])
      [] op = "mod" -> v[1] % v[2]
      [] op = "log2_ceil" -> Log2Ceil(v[1])
      [] op = "next_multiple_of" -> (((v[1] + v[2] - 1) \div v[2]) * v[2]) % P
      [] op = "saturating_sub" -> IF v[1] > v[2] THEN v[1] - v[2] ELSE 0
      [] op = "div_ceil" -> (v[1] + v[2] - 1) \div v[2]
      [] op = "div_floor" -> v[1] \div v[2]

(* A division by zero panics, at compile time and at run time. *)
Defined(op, v) == op \in {"div", "mod", "next_multiple_of", "div_ceil", "div_floor"} => v[2] # 0

RuntimeOps == {"add", "mul", "sub", "div"}

(* TreeVec::navigate, of the literals of vectors and of constant arrays. *)
RECURSIVE Navigable(_, _)
Navigable(tree, index) ==
    \/ index = <<>>
    \/ /\ tree.k = "dyn"
       /\ Head(index) < Len(tree.a)
       /\ Navigable(tree.a[Head(index) + 1], Tail(index))

RECURSIVE Navigate(_, _)
Navigate(tree, index) ==
    IF index = <<>> THEN tree ELSE Navigate(tree.a[Head(index) + 1], Tail(index))

(* The tree with the part at index replaced. *)
RECURSIVE Replanted(_, _, _)
Replanted(tree, index, part) ==
    IF index = <<>> THEN part
    ELSE [tree EXCEPT !.a[Head(index) + 1] = Replanted(@, Tail(index), part)]

-----------------------------------------------------------------------------
(* The meaning of a program.  A state of the interpreter holds the variables  *)
(* of the function (env, vecs), the write-once memory, the next free address, *)
(* the hints consumed, the value v of the last expression, and how the        *)
(* execution goes on: it runs, has returned, has failed, or has done what the *)
(* language leaves undefined (read a cell nobody has written, matched a value *)
(* no arm is for).  g is [fns, arrays, entries].                              *)

Running(s) == s.flow = "run"
Stops(s, how) == [s EXCEPT !.flow = how]

Written(s, a, v) ==
    IF a \in DOMAIN s.mem /\ s.mem[a] # v THEN Stops(s, "failed")
    ELSE [s EXCEPT !.mem = (a :> v) @@ @]

RECURSIVE WriteAll(_, _, _)
WriteAll(s, a, values) ==
    IF values = <<>> THEN s ELSE WriteAll(Written(s, a, Head(values)), a + 1, Tail(values))

(* The interpreter recurs through one operator: what x is says how it is run. *)
RECURSIVE Interpret(_, _, _, _)
Ev(g, e, s) == Interpret("expression", g, e, s)
EvAll(g, es, s) == Interpret("expressions", g, es, s)
Exec(g, lines, s) == Interpret("lines", g, lines, s)
Iterate(g, l, i, end, s) == Interpret("iterations", g, [loop |-> l, i |-> i, end |-> end], s)

(* The values of several expressions, in order. *)
EvSequence(g, es, s) ==
    IF ~Running(s) THEN s
    ELSE IF es = <<>> THEN [s EXCEPT !.v = <<>>]
    ELSE LET first == Ev(g, Head(es), s)
             rest == EvAll(g, Tail(es), first)
         IN  IF Running(rest) THEN [rest EXCEPT !.v = <<first.v>> \o @] ELSE rest

EvAt(g, e, s) ==
    LET array == e.a[1]
        t == EvAll(g, Tail(e.a), s)
        tree == IF array.s \in DOMAIN g.arrays THEN g.arrays[array.s] ELSE t.vecs[array.s]
        base == Ev(g, array, t)
        a == (base.v + t.v[1]) % P
    IN  IF ~Running(t) THEN t
        ELSE IF array.k = "var" /\ array.s \in DOMAIN g.arrays \cup DOMAIN t.vecs
        THEN IF Navigable(tree, t.v) THEN [t EXCEPT !.v = Navigate(tree, t.v).n] ELSE Stops(t, "undefined")
        ELSE IF ~Running(base) THEN base
        ELSE IF a \in DOMAIN t.mem THEN [t EXCEPT !.v = t.mem[a]] ELSE Stops(t, "undefined")

EvLen(g, e, s) ==
    LET t == EvAll(g, e.a, s)
        tree == IF e.s \in DOMAIN g.arrays THEN g.arrays[e.s] ELSE t.vecs[e.s]
    IN  IF Running(t) THEN [t EXCEPT !.v = Len(Navigate(tree, t.v).a)] ELSE t

(* A vector is passed by its name to an inlined function, which may change it. *)
VectorArgs(e, s) == {i \in DOMAIN e.a : e.a[i].k = "var" /\ e.a[i].s \in DOMAIN s.vecs}

EvCall(g, e, s) ==
    LET f == g.fns[e.s]
        vectors == VectorArgs(e, s)
        t == EvAll(g, [i \in DOMAIN e.a |-> IF i \in vectors THEN Num(0) ELSE e.a[i]] \o <<>>, s)
        name(i) == f.params[i].x
        env == [x \in {name(i) : i \in DOMAIN e.a \ vectors} |->
                   t.v[CHOOSE i \in DOMAIN e.a : name(i) = x]]
        vecs == [x \in {name(i) : i \in vectors} |->
                   t.vecs[e.a[CHOOSE i \in vectors : name(i) = x].s]]
        done == Exec(g, f.body, [t EXCEPT !.env = env, !.vecs = vecs])
        back == [x \in {e.a[i].s : i \in vectors} |->
                   done.vecs[name(CHOOSE i \in vectors : e.a[i].s = x)]]
    IN  IF ~Running(t) THEN t
        ELSE IF done.flow # "returned" THEN IF Running(done) THEN Stops(done, "undefined") ELSE done
        ELSE [done EXCEPT !.flow = "run", !.env = s.env, !.vecs = back @@ s.vecs]

(* match_range: the lambda of the range that holds the value. *)
EvMatchRange(g, e, s) ==
    LET t == Ev(g, e.a[1], s)
        bound(r, i) == Ev(g, r.a[i], t).v
        at == {i \in DOMAIN e.a : /\ i > 1 /\ i % 2 = 0
                                  /\ t.v \in bound(e.a[i], 1)..bound(e.a[i], 2) - 1}
        lambda == e.a[(CHOOSE i \in at : TRUE) + 1]
    IN  IF ~Running(t) THEN t
        ELSE IF at = {} THEN Stops(t, "undefined")
        ELSE LET r == Ev(g, lambda.a[1], [t EXCEPT !.env = (lambda.s :> t.v) @@ @])
             IN  [r EXCEPT !.env = s.env]

EvArray(g, e, s) ==
    LET t == Ev(g, e.a[1], s)
    IN  IF Running(t) THEN [t EXCEPT !.v = t.top, !.top = @ + t.v] ELSE t

EvDecompose(g, e, s) ==
    LET t == EvAll(g, e.a, s)
    IN  IF Running(t) THEN WriteAll(t, t.v[2], BitsOf(t.v[1], t.v[3]) \o <<>>) ELSE t

EvWitness(g, e, s) ==
    LET t == Ev(g, e.a[1], s)
    IN  IF ~Running(t) THEN t
        ELSE IF t.cursor[e.s] >= Len(g.entries[e.s]) THEN Stops(t, "failed")
        ELSE Written([t EXCEPT !.cursor[e.s] = @ + 1], t.v, g.entries[e.s][t.cursor[e.s] + 1])

Builtins == {"Array", "match_range", "hint_decompose_bits"}

(* The value of an expression: a call of a function with one result gives it, *)
(* a call of one with several gives them all.                                 *)
EvExpression(g, e, s) ==
    CASE ~Running(s) -> s
      [] Running(s) /\ e.k = "num" -> [s EXCEPT !.v = e.n]
      [] Running(s) /\ e.k = "var" ->
            IF e.s \in DOMAIN s.env THEN [s EXCEPT !.v = s.env[e.s]] ELSE Stops(s, "undefined")
      [] Running(s) /\ e.k = "op" ->
            LET t == EvAll(g, e.a, s)
            IN  IF ~Running(t) THEN t
                ELSE IF Defined(e.s, t.v) THEN [t EXCEPT !.v = Math(e.s, t.v)] ELSE Stops(t, "failed")
      [] Running(s) /\ e.k = "at" -> EvAt(g, e, s)
      [] Running(s) /\ e.k = "len" -> EvLen(g, e, s)
      [] Running(s) /\ e.k = "dyn" ->
            LET t == EvAll(g, e.a, s)
            IN  [t EXCEPT !.v = DynArray([i \in DOMAIN e.a |->
                                   IF e.a[i].k = "dyn" THEN t.v[i] ELSE Num(t.v[i])] \o <<>>)]
      [] Running(s) /\ e.k = "witness" -> EvWitness(g, e, s)
      [] Running(s) /\ e.k = "call" /\ e.s = "Array" -> EvArray(g, e, s)
      [] Running(s) /\ e.k = "call" /\ e.s = "match_range" -> EvMatchRange(g, e, s)
      [] Running(s) /\ e.k = "call" /\ e.s = "hint_decompose_bits" -> EvDecompose(g, e, s)
      [] Running(s) /\ e.k = "call" /\ e.s \notin Builtins ->
            LET t == EvCall(g, e, s)
            IN  IF Running(t) /\ g.fns[e.s].returns = 1 THEN [t EXCEPT !.v = t.v[1]] ELSE t

(* The targets take the values, in order. *)
RECURSIVE Assigned(_, _, _, _)
Assigned(g, targets, values, s) ==
    IF targets = <<>> \/ ~Running(s) THEN s
    ELSE LET t == Head(targets)
             address == EvAll(g, t.a, s)
         IN  Assigned(g, Tail(targets), Tail(values),
                IF t.k = "var" THEN [s EXCEPT !.env = (t.s :> Head(values)) @@ @]
                ELSE IF ~Running(address) THEN address
                ELSE Written(address, (address.v[1] + address.v[2]) % P, Head(values)))

(* An order can be asserted up to the bound that makes its range check sound. *)
Asserted(rel, v, s) ==
    IF rel \in {"<", "<="} /\ v[2] >= MinMemory THEN Stops(s, "undefined")
    ELSE IF Compare(rel, v[1], v[2]) THEN s ELSE Stops(s, "failed")

(* The iterations from i up to end.  An iteration of a loop declares its own   *)
(* variables; what it assigns of the enclosing ones stays assigned.           *)
ExecIterations(g, l, i, end, s) ==
    IF i >= end \/ ~Running(s) THEN s
    ELSE Iterate(g, l, i + 1, end, Exec(g, l.b[1], [s EXCEPT !.env = (l.t[1].s :> i) @@ @]))

ExecFor(g, l, s) ==
    LET t == EvAll(g, l.e, s)
        fits == l.o = "dynamic_unroll" => (t.v[2] - t.v[1]) % P < 2^t.v[3]
    IN  IF ~Running(t) THEN t
        ELSE IF fits THEN Iterate(g, l, t.v[1], t.v[2], t) ELSE Stops(t, "failed")

ExecVector(g, l, s) ==
    LET x == l.t[1].s
        t == EvAll(g, l.e, s)
        index == IF l.k = "push" THEN SubSeq(t.v, 1, Len(t.v) - 1) ELSE t.v
        element == LET v == t.v[Len(t.v)] IN IF l.e[Len(l.e)].k = "dyn" THEN v ELSE Num(v)
        old == Navigate(t.vecs[x], index)
        new == IF l.k = "push" THEN [old EXCEPT !.a = Append(@, element)]
               ELSE [old EXCEPT !.a = SubSeq(@, 1, Len(@) - 1)]
    IN  CASE ~Running(t) -> t
          [] Running(t) /\ l.k = "vec" -> [t EXCEPT !.vecs = (x :> t.v[1]) @@ @]
          [] Running(t) /\ l.k # "vec" -> [t EXCEPT !.vecs[x] = Replanted(@, index, new)]

ExecLine(g, l, s) ==
    CASE l.k = "fwd" -> s
      [] l.k = "let" ->
            LET t == Ev(g, l.e[1], s)
            IN  IF ~Running(t) THEN t
                ELSE Assigned(g, l.t, IF Len(l.t) = 1 THEN <<t.v>> ELSE t.v, t)
      [] l.k \in {"assert", "dassert"} ->
            LET t == EvAll(g, l.e, s) IN IF Running(t) THEN Asserted(l.o, t.v, t) ELSE t
      [] l.k = "if" ->
            LET t == EvAll(g, l.e, s)
            IN  IF ~Running(t) THEN t
                ELSE Exec(g, l.b[IF Compare(l.o, t.v[1], t.v[2]) THEN 1 ELSE 2], t)
      [] l.k = "for" -> ExecFor(g, l, s)
      [] l.k = "match" ->
            LET t == Ev(g, l.e[1], s)
            IN  IF ~Running(t) THEN t
                ELSE IF t.v - l.n \in 0..Len(l.b) - 1 THEN Exec(g, l.b[t.v - l.n + 1], t)
                ELSE Stops(t, "undefined")
      [] l.k = "ret" ->
            LET t == EvAll(g, l.e, s) IN IF Running(t) THEN Stops(t, "returned") ELSE t
      [] l.k = "panic" -> Stops(s, "failed")
      [] l.k \in {"vec", "push", "pop"} -> ExecVector(g, l, s)

ExecLines(g, lines, s) ==
    IF lines = <<>> \/ ~Running(s) THEN s ELSE Exec(g, Tail(lines), ExecLine(g, Head(lines), s))

Interpret(what, g, x, s) ==
    CASE what = "expression" -> EvExpression(g, x, s)
      [] what = "expressions" -> EvSequence(g, x, s)
      [] what = "lines" -> ExecLines(g, x, s)
      [] what = "iterations" -> ExecIterations(g, x.loop, x.i, x.end, s)

(* The meaning of a program for a witness: whether it accepts it.  A program    *)
(* has no output, and all the hints must be consumed.                         *)
Meaning(prog, witness) ==
    LET g == [fns |-> prog.fns, arrays |-> prog.arrays, entries |-> witness]
        s == Exec(g, prog.fns["main"].body,
                  [flow |-> "run", env |-> <<>>, vecs |-> <<>>, v |-> 0, top |-> Heap,
                   mem |-> [a \in 0..Len(PublicInput) - 1 |-> PublicInput[a + 1]],
                   cursor |-> [name \in DOMAIN witness |-> 0]])
        consumed == \A name \in DOMAIN witness : s.cursor[name] = Len(witness[name])
    IN  IF s.flow = "returned" /\ ~consumed THEN "failed" ELSE s.flow

=============================================================================
