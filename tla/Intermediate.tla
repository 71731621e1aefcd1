----------------------------- MODULE Intermediate -----------------------------
(***************************************************************************)
(* compile_to_intermediate_bytecode                                        *)
(* (crates/lean_compiler/src/b_compile_intermediate.rs): every variable of *)
(* a function gets a cell of its frame, and every simple line its          *)
(* instructions and hints, in blocks that have labels.                     *)
(*                                                                         *)
(* An intermediate instruction is one of the VM with operands that may be  *)
(* symbols: the pc of a label, the frame size of a function, the size and  *)
(* the first block of a match.  A hint is [op |-> "hint", hint |-> ...].   *)
(*                                                                         *)
(* The state of the compiler:                                              *)
(*   out         the instructions of the block that is compiled            *)
(*   code        the blocks, by label; matches the arms of the matches     *)
(*   ifs, calls, labels   the counters of the labels                       *)
(*   func, nArgs the function, and how many arguments it has               *)
(*   scopes      the positions of the variables, innermost scope last      *)
(*   pos, size   the next free position, the size of the frame             *)
(*   mallocs     the positions of the arrays of constant size              *)
(*   ptrs        the variables known to be fp plus an offset               *)
(*   deadPointers, deadStores, coalesced   what the analyses found         *)
(*   err         "panic" if the compiler stops                             *)
(*                                                                         *)
(* Then compile_to_low_level_bytecode                                      *)
(* (crates/lean_compiler/src/c_compile_final.rs): the blocks are laid out, *)
(* the arms of a match padded to the same size, the symbols replaced by    *)
(* what they stand for, and the hints attached to the instruction that     *)
(* follows them.  The last instruction of the bytecode jumps to itself.    *)
(***************************************************************************)
EXTENDS PostOptimize

CONSTANTS
    MinBytecode,  \* 1 << MIN_BYTECODE_LOG_SIZE
    MaxBytecode   \* 1 << MAX_BYTECODE_LOG_SIZE

ASSUME BytecodeAssumption == MinBytecode \in Nat \ {0} /\ MaxBytecode \in Nat

Sym(what, name, i, first) == [kind |-> "symbol", what |-> what, name |-> name, i |-> i, first |-> first]
LabelAt(label) == Sym("label", label, 0, 0)
FrameSize(f) == Sym("size", f, 0, 0)
MatchSize(i) == Sym("matchSize", "", i, 0)
MatchBase(i, first) == Sym("matchBase", "", i, first)

FunctionLabel(f) == "@function_" \o f
EndLabel == "@end_program"
NumberedLabel(kind, i) == "@" \o kind \o "_" \o ToString(i)

AddI(a, b, res) == [op |-> "add", a |-> a, c |-> b, res |-> res]
MulI(a, b, res) == [op |-> "mul", a |-> a, c |-> b, res |-> res]
DerefI(shift0, shift1, res) == [op |-> "deref", shift0 |-> shift0, shift1 |-> shift1, res |-> res]
JumpI(condition, dest, fp) == [op |-> "jump", condition |-> condition, dest |-> dest, updatedFp |-> fp]
GoTo(label) == JumpI(Const(1), LabelAt(label), FpRelative(0))
PanicI == [op |-> "panic"]
HintI(h) == [op |-> "hint", hint |-> h]

Equality(left, right) == AddI(left, Const(0), right)

(* IntermediateInstruction::computation: a difference and a quotient are what   *)
(* gives the first operand back.                                              *)
Computation(op, a, b, res) ==
    CASE op = "add" -> AddI(a, b, res)
      [] op = "mul" -> MulI(a, b, res)
      [] op = "sub" -> AddI(res, b, a)
      [] op = "div" -> MulI(res, b, a)

-----------------------------------------------------------------------------
(* The frame. *)
InScope(c, x) == \E i \in DOMAIN c.scopes : x \in DOMAIN c.scopes[i]

Placed(c, x) ==
    [c EXCEPT !.scopes[Len(c.scopes)] = (x :> c.pos) @@ @, !.pos = @ + 1]

(* register_var_if_needed. *)
Registered(c, e) == IF e.k # "var" \/ InScope(c, e.s) THEN c ELSE Placed(c, e.s)

RECURSIVE AllRegistered(_, _)
AllRegistered(c, es) == IF es = <<>> THEN c ELSE AllRegistered(Registered(c, Head(es)), Tail(es))

Resolves(c, e) ==
    CASE e.k = "num" -> TRUE
      [] e.k = "var" -> InScope(c, e.s)
      [] e.k = "cell" -> e.s \in DOMAIN c.mallocs

Offset(c, e) ==
    IF e.k = "cell" THEN c.mallocs[e.s] + e.n
    ELSE LET inner == CHOOSE i \in DOMAIN c.scopes :
                         /\ e.s \in DOMAIN c.scopes[i]
                         /\ \A j \in DOMAIN c.scopes : e.s \in DOMAIN c.scopes[j] => j <= i
         IN  c.scopes[inner][e.s]

Operand(c, e) == IF IsNum(e) THEN Const(e.n) ELSE Mem(Offset(c, e))

(* try_precompile_fp_relative. *)
KnownPointer(c, e) == e.k = "var" /\ e.s \in DOMAIN c.ptrs /\ c.ptrs[e.s] >= 0
Pointer(c, e) == IF KnownPointer(c, e) THEN FpRelative(c.ptrs[e.s]) ELSE Operand(c, e)

(* A faulty Sized: the frame ends with the last named variable, and the       *)
(* auxiliary cells behind it are not counted.                                 *)
NamedSized(c) ==
    [c EXCEPT !.size = Max({@} \cup UNION { { 1 + c.scopes[i][x] : x \in DOMAIN c.scopes[i] } :
                                            i \in DOMAIN c.scopes })]

Sized(c) == [c EXCEPT !.size = Max({@, c.pos})]
Out(c, instructions) == [c EXCEPT !.out = @ \o instructions]
Take(c, n) == [c EXCEPT !.pos = @ + n]

(* What a line does, if the expressions it reads are in scope. *)
Compiles(c, es, next) ==
    IF \A i \in DOMAIN es : Resolves(c, es[i]) THEN next ELSE [c EXCEPT !.err = "panic"]

-----------------------------------------------------------------------------
(* The variables whose value is not needed (compute_dead_vars).                *)
(* collect_fp_rel_capable: the arrays of constant size, and what is one of     *)
(* them plus or minus a constant; from maps the derived ones to their base.   *)
PointerBase(l) ==
    CASE l.o \in {"add", "sub"} /\ l.e[1].k = "var" /\ IsNum(l.e[2]) -> {l.e[1].s}
      [] l.o = "add" /\ IsNum(l.e[1]) /\ l.e[2].k = "var" -> {l.e[2].s}
      [] OTHER -> {}

DerivesFrom(l) ==
    IF l.k = "assign" /\ l.d[1].k = "var" THEN PointerBase(l) ELSE {}

PointersOf(all) ==
    FoldLeft(LAMBDA p, l :
                IF l.k = "constMalloc" THEN [p EXCEPT !.capable = @ \cup {l.d[1].s}]
                ELSE IF DerivesFrom(l) \cap p.capable # {}
                THEN [capable |-> p.capable \cup {l.d[1].s},
                      from |-> (l.d[1].s :> CHOOSE x \in DerivesFrom(l) : TRUE) @@ p.from]
                ELSE p,
             [capable |-> {}, from |-> <<>>],
             SelectSeq(all, LAMBDA l : l.k = "constMalloc" \/ DerivesFrom(l) # {}))

TimesRead(x, lines) ==
    Cardinality(UNION {{<<i, j>> : j \in {j \in DOMAIN lines[i].e : lines[i].e[j] = Var(x)}} :
                          i \in DOMAIN lines})

(* mark_dead_fp_rel: every use is one that takes fp plus an offset, or the      *)
(* definition of a variable that is dead itself.                              *)
RECURSIVE DeadPointer(_, _, _)
DeadPointer(x, p, all) ==
    LET children == {y \in DOMAIN p.from : p.from[y] = x}
        pointed == SelectSeq(all, LAMBDA l : l.k \in {"bits", "witness"})
    IN  TimesRead(x, all)
        = TimesRead(x, pointed) + Cardinality({y \in children : DeadPointer(y, p, all)})

DeadPointers(lines) ==
    LET all == Flattened(lines)
        p == PointersOf(all)
    IN  {x \in p.capable : DeadPointer(x, p, all)}

(* Declared or assigned, and never read. *)
DeadStores(lines) ==
    LET all == Flattened(lines)
        written == SelectSeq(all, LAMBDA l : l.k \in {"fwd", "assign"} /\ l.d[1].k = "var")
    IN  {x \in {written[i].d[1].s : i \in DOMAIN written} : TimesRead(x, all) = 0}

(* collect_return_coalescings: the variables that may live where they are       *)
(* returned, by slot.                                                         *)
ReturnedAt(returns, i) == {returns[j].e[i] : j \in DOMAIN returns}

Coalesced(lines, n, args) ==
    LET returns == SelectSeq(Flattened(lines), LAMBDA l : l.k = "ret")
        same(i) == /\ Cardinality(ReturnedAt(returns, i)) = 1
                   /\ \A e \in ReturnedAt(returns, i) : e.k = "var" /\ e.s \notin Range(args)
        var(i) == (CHOOSE e \in ReturnedAt(returns, i) : TRUE).s
        slots == {i \in 1..n : same(i)}
        first == {i \in slots : \A j \in slots : var(j) = var(i) => i <= j}
    IN  [x \in {var(i) : i \in first} |-> CHOOSE i \in first : var(i) = x]

-----------------------------------------------------------------------------
(* The lines that stay in their block. *)
Declaration(c, l) ==
    LET x == l.d[1].s
    IN  IF x \in c.deadPointers \cup c.deadStores \cup c.coalesced THEN c ELSE Placed(c, x)

(* A pointer that is fp plus a known offset is remembered as such. *)
PointerOffset(c, l) ==
    {IF l.o = "add" THEN c.ptrs[x] + (IF IsNum(l.e[2]) THEN l.e[2] ELSE l.e[1]).n
     ELSE c.ptrs[x] - l.e[2].n : x \in DerivesFrom(l) \cap DOMAIN c.ptrs}

CompiledAssign(c, l) ==
    LET x == l.d[1]
        offsets == PointerOffset(c, l)
        t == IF offsets = {} THEN c
             ELSE [c EXCEPT !.ptrs = (x.s :> CHOOSE n \in offsets : TRUE) @@ @]
        r == Registered(t, x)
    IN  IF offsets # {} /\ x.s \in c.deadPointers THEN t
        ELSE IF x.k = "var" /\ x.s \in c.deadStores THEN t
        ELSE Compiles(r, <<l.e[1], l.e[2], x>>,
                Out(r, <<Computation(l.o, Operand(r, l.e[1]), Operand(r, l.e[2]), Operand(r, x))>>))

CompiledRaw(c, l) ==
    LET r == Registered(c, l.e[1])
    IN  Compiles(r, l.e,
            Out(r, <<DerefI(IF IsNum(l.e[2]) THEN l.e[2].n ELSE Offset(r, l.e[2]), l.n, Operand(r, l.e[1]))>>))

CompiledReturn(c, l) ==
    LET needed == SelectSeq([i \in DOMAIN l.e |-> i] \o <<>>,
                            LAMBDA i : ~(l.e[i].k = "var" /\ l.e[i].s \in c.coalesced))
        given == Each(needed, LAMBDA i : l.e[i])
    IN  IF c.func = "main"
        THEN Out(Take(c, 1), <<AddI(Const(0), Const(0), Mem(c.pos)),
                               JumpI(Const(1), LabelAt(EndLabel), Mem(c.pos))>>)
        ELSE Compiles(c, given,
                Out(c, Each(needed, LAMBDA i : Equality(Mem(1 + c.nArgs + i), Operand(c, l.e[i])))
                       \o <<JumpI(Const(1), Mem(0), Mem(1))>>))

(* handle_const_malloc: the array is in the frame. *)
CompiledConstMalloc(c, l) ==
    LET x == l.d[1]
        live == x.s \notin c.deadPointers
        r == IF live THEN Registered(c, x) ELSE c
        t == Take([r EXCEPT !.mallocs = (l.o :> r.pos) @@ @, !.ptrs = (x.s :> r.pos) @@ @], l.n)
    IN  IF live THEN Out(t, <<AddI(Const(r.pos), FpRelative(0), Operand(r, x))>>) ELSE t

CompiledMalloc(c, l) ==
    LET r == Registered(c, l.d[1])
    IN  Compiles(r, l.e,
            Out(r, <<HintI([kind |-> "requestMemory", offset |-> Offset(r, l.d[1]),
                            size |-> Operand(r, l.e[1])])>>))

CompiledHint(c, l) ==
    LET ptr == l.e[1]
        inline == KnownPointer(c, ptr)
        needed == SelectSeq(l.e, LAMBDA e : ~KnownPointer(c, e))
    IN  IF l.k = "bits"
        THEN Compiles(c, needed, Out(c, <<HintI([kind |-> "bits", args |-> Each(l.e, LAMBDA e : Pointer(c, e))])>>))
        ELSE IF ptr.k # "var" THEN [c EXCEPT !.err = "panic"]
        ELSE Compiles(c, needed,
                Out(c, <<HintI([kind |-> "hintWitness", name |-> l.o, indirect |-> ~inline,
                                offset |-> IF inline THEN c.ptrs[ptr.s] ELSE Offset(c, ptr)])>>))

(* A range check: two derefs prove that the value, and what is left of the      *)
(* bound, are addresses.                                                      *)
CompiledRangeCheck(c, l) ==
    LET constant == IsNum(l.e[1])
        r == IF constant
             THEN Out(Take(c, 1), <<AddI(Const(l.e[1].n), Const(0), Mem(c.pos))>>) ELSE c
        x == IF constant THEN c.pos ELSE Offset(c, l.e[1])
        aux == r.pos
    IN  Compiles(c, l.e,
            Out(Take(r, 3),
                <<HintI([kind |-> "derefHint", src |-> x, target |-> aux]),
                  DerefI(x, 0, Mem(aux)),
                  AddI(Mem(x), Mem(aux + 1), Operand(c, l.e[2])),
                  HintI([kind |-> "derefHint", src |-> aux + 1, target |-> aux + 2]),
                  DerefI(aux + 1, 0, Mem(aux + 2))>>))

CompiledLine(c, l) ==
    CASE l.k = "fwd" -> Declaration(c, l)
      [] l.k = "assign" -> CompiledAssign(c, l)
      [] l.k = "raw" -> CompiledRaw(c, l)
      [] l.k = "ret" -> CompiledReturn(c, l)
      [] l.k = "panic" -> Out(c, <<PanicI>>)
      [] l.k = "malloc" -> CompiledMalloc(c, l)
      [] l.k = "constMalloc" -> CompiledConstMalloc(c, l)
      [] l.k \in {"bits", "witness"} -> CompiledHint(c, l)
      [] l.k = "dassert" ->
            Compiles(c, l.e, Out(c, <<HintI([kind |-> "debugAssert", rel |-> l.o, left |-> Operand(c, l.e[1]),
                                            right |-> Operand(c, l.e[2]), rangeCheck |-> l.n = 1])>>))
      [] l.k = "asserteq" ->
            LET r == AllRegistered(c, l.e)
            IN  Compiles(r, l.e, Out(r, <<Equality(Operand(r, l.e[1]), Operand(r, l.e[2]))>>))
      [] l.k = "range" -> CompiledRangeCheck(c, l)

-----------------------------------------------------------------------------
(* The lines that end their block: what follows them has a label of its own.   *)
Nested(c, pos) == [c EXCEPT !.out = <<>>, !.pos = pos, !.scopes = Append(@, <<>>)]

(* emit_call_frame. *)
CallFrameOf(c, l, slot, returnPc, returnFp) ==
    <<HintI([kind |-> "requestMemory", offset |-> slot, size |-> FrameSize(l.o)]),
      DerefI(slot, 0, returnPc), DerefI(slot, 1, returnFp)>>
    \o ([i \in DOMAIN l.e |-> DerefI(slot, 1 + i, Operand(c, l.e[i]))] \o <<>>)
    \o <<JumpI(Const(1), LabelAt(FunctionLabel(l.o)), Mem(slot))>>

IsTailCall(c, l, rest) == l.d = <<>> /\ l.o = c.func /\ rest = <<SReturn(<<>>)>>

TailCall(c, l) ==
    Compiles(c, l.e, Sized(Take(Out(c, CallFrameOf(c, l, c.pos, Mem(0), Mem(1))), 1)))

(* CompileLines(c, lines, jump): the lines, then a jump to a label, if any. *)
RECURSIVE CompileLines(_, _, _)

CompileCall(c, l, rest, jump) ==
    LET label == NumberedLabel("return_from_call", c.calls)
        slot == c.pos
        frame == Out(Take([c EXCEPT !.calls = @ + 1], 1),
                     CallFrameOf(c, l, slot, LabelAt(label), FpRelative(0)))
        r == AllRegistered(frame, l.d)
        copies == [i \in DOMAIN l.d |-> DerefI(slot, 1 + Len(l.e) + i, Mem(Offset(r, l.d[i])))] \o <<>>
    IN  With(CompileLines([r EXCEPT !.out = copies], rest, jump), LAMBDA after :
             Compiles(c, l.e, [after EXCEPT !.code = (label :> after.out) @@ @, !.out = frame.out]))

(* If: a product with the inverse makes the condition 0 or 1. *)
CompileIf(c, l, rest, jump) ==
    LET label(kind) == NumberedLabel(kind, c.ifs)
        end == label("if_else_end")
        x == Operand(c, l.e[1])
        inverse == c.pos
        product == c.pos + 1
        complement == c.pos + 2
        head == Out(Take([c EXCEPT !.ifs = @ + 1], 3),
                    <<HintI([kind |-> "inverse", arg |-> x, offset |-> inverse]),
                      MulI(x, Mem(inverse), Mem(product)),
                      AddI(Mem(complement), Mem(product), Const(1)),
                      MulI(Mem(complement), x, Const(0)),
                      JumpI(Mem(product), LabelAt(label("if")), FpRelative(0)),
                      GoTo(label("else"))>>)
    IN  With(CompileLines(Nested(head, head.pos), l.b[1], end), LAMBDA then :
        With(CompileLines(Nested([then EXCEPT !.scopes = head.scopes], head.pos), l.b[2], end), LAMBDA else :
        With(CompileLines([else EXCEPT !.out = <<>>, !.scopes = head.scopes,
                                       !.pos = Max({@, then.pos})], rest, jump), LAMBDA after :
             Compiles(c, l.e,
                 [after EXCEPT !.code = (label("if") :> then.out) @@ (label("else") :> else.out)
                                        @@ (end :> after.out) @@ @,
                               !.out = head.out]))))

RECURSIVE CompileArms(_, _, _, _)
CompileArms(c, arms, saved, end) ==
    IF arms = <<>> \/ c.err # "" THEN [c |-> c, outs |-> <<>>, pos |-> saved.pos]
    ELSE With(CompileLines(Nested([c EXCEPT !.scopes = saved.scopes], saved.pos), Head(arms), end), LAMBDA first :
         With(CompileArms(first, Tail(arms), saved, end), LAMBDA others :
              [c |-> others.c, outs |-> <<first.out>> \o others.outs, pos |-> Max({first.pos, others.pos})]))

MatchHead(c, l, arms) ==
    LET k == Len(arms.c.matches) + 1
        scaled == arms.pos
        dest == arms.pos + 1
    IN  c.out \o <<MulI(Operand(c, l.e[1]), MatchSize(k), Mem(scaled)),
                    AddI(Mem(scaled), MatchBase(k, l.n), Mem(dest)),
                    JumpI(Const(1), Mem(dest), FpRelative(0))>>

CompileMatch(c, l, rest, jump) ==
    LET end == NumberedLabel("match_end", c.labels)
        start == [c EXCEPT !.labels = @ + 1, !.scopes = Append(@, <<>>)]
    IN  With(CompileArms(start, l.b, start, end), LAMBDA arms :
        With(CompileLines([arms.c EXCEPT !.matches = Append(@, arms.outs), !.pos = arms.pos + 2,
                                         !.scopes = start.scopes, !.out = <<>>], rest, jump), LAMBDA after :
             Compiles(c, l.e, [after EXCEPT !.code = (end :> after.out) @@ @, !.out = MatchHead(c, l, arms)])))

CompileLines(c, lines, jump) ==
    CASE c.err # "" -> c
      [] c.err = "" /\ lines = <<>> -> Sized(IF jump = "" THEN c ELSE Out(c, <<GoTo(jump)>>))
      [] c.err = "" /\ lines # <<>> ->
            LET l == Head(lines)
                rest == Tail(lines)
            IN  CASE l.k = "match" -> CompileMatch(c, l, rest, jump)
                  [] l.k = "if" -> CompileIf(c, l, rest, jump)
                  [] l.k = "call" /\ IsTailCall(c, l, rest) -> TailCall(c, l)
                  [] l.k = "call" /\ ~IsTailCall(c, l, rest) -> CompileCall(c, l, rest, jump)
                  [] l.k \notin {"match", "if", "call"} -> CompileLines(CompiledLine(c, l), rest, jump)

-----------------------------------------------------------------------------
(* The functions. *)
IsParallelLoop(f, fns) == \E i \in 0..Cardinality(DOMAIN fns) : f = "@parallel_loop_" \o ToString(i)

FunctionDone(c, name) ==
    [c EXCEPT !.code = (FunctionLabel(name) :> c.out) @@ @, !.sizes = (name :> c.size) @@ @]

CompileFunction(c, name, f, parallel) ==
    LET nArgs == Len(f.args)
        coalesced == Coalesced(f.body, f.returns, f.args)
        positions == [x \in Range(f.args) |-> 1 + CHOOSE i \in 1..nArgs : f.args[i] = x]
                     @@ [x \in DOMAIN coalesced |-> 1 + nArgs + coalesced[x]]
        start == [c EXCEPT !.func = name, !.nArgs = nArgs, !.pos = 2 + nArgs + f.returns,
                           !.size = 2 + nArgs + f.returns, !.scopes = <<positions>>,
                           !.mallocs = <<>>, !.ptrs = <<>>, !.coalesced = DOMAIN coalesced,
                           !.deadPointers = DeadPointers(f.body), !.deadStores = DeadStores(f.body),
                           !.out = <<>>]
        end == f.body[1].e[2]
        batched == <<HintI([kind |-> "parallelBatchStart", nArgs |-> nArgs, end |-> Operand(start, end)])>>
    IN  FunctionDone(CompileLines(IF parallel THEN Out(start, batched) ELSE start, f.body, ""), name)

RECURSIVE CompileFunctions(_, _, _)
CompileFunctions(c, names, fns) ==
    IF names = <<>> \/ c.err # "" THEN c
    ELSE CompileFunctions(CompileFunction(c, Head(names), fns[Head(names)], IsParallelLoop(Head(names), fns)),
                          Tail(names), fns)

ToIntermediate(fns) ==
    LET start == [out |-> <<>>, code |-> <<>>, matches |-> <<>>, ifs |-> 0, calls |-> 0, labels |-> 0,
                  func |-> "", nArgs |-> 0, scopes |-> <<>>, pos |-> 0, size |-> 0,
                  mallocs |-> <<>>, ptrs |-> <<>>, deadPointers |-> {}, deadStores |-> {},
                  coalesced |-> {}, sizes |-> <<>>, err |-> ""]
    IN  With(CompileFunctions(start, Listed(DOMAIN fns), fns), LAMBDA c :
             [code |-> c.code, matches |-> c.matches, sizes |-> c.sizes, err |-> c.err])

-----------------------------------------------------------------------------
(* The bytecode. *)
(* count_real_instructions. *)
RealSize(block) == Len(SelectSeq(block, LAMBDA ins : ins.op # "hint"))

Padded(arm, n) == arm \o [i \in 1..(n - RealSize(arm)) |-> PanicI] \o <<>>

(* Where every block starts: main at 0, the others after it, then the arms of   *)
(* the matches; l is [pcs, pc, blocks].                                       *)
LaidOut(l, label, block) ==
    [pcs |-> (label :> l.pc) @@ l.pcs, pc |-> l.pc + RealSize(block), blocks |-> l.blocks \o block]

Layout(ir) ==
    LET main == FunctionLabel("main")
        start == LaidOut([pcs |-> <<>>, pc |-> 0, blocks |-> <<>>], main, ir.code[main])
        labelled == FoldLeft(LAMBDA l, label : LaidOut(l, label, ir.code[label]),
                             start, Listed(DOMAIN ir.code \ {main}))
        sizes == Each(ir.matches, LAMBDA arms : Max({RealSize(arms[i]) : i \in DOMAIN arms}))
        placeMatch(l, i) ==
            LET arms == Each(ir.matches[i], LAMBDA arm : Padded(arm, sizes[i]))
            IN  [pcs |-> l.pcs, pc |-> l.pc + Len(arms) * sizes[i], blocks |-> l.blocks \o FlattenSeq(arms),
                 firsts |-> Append(l.firsts, l.pc)]
        placed == FoldLeft(placeMatch, labelled @@ [firsts |-> <<>>],
                           [i \in DOMAIN ir.matches |-> i] \o <<>>)
        length == NextPowerOfTwo(Max({placed.pc + 1, MinBytecode}))
    IN  [pcs |-> (EndLabel :> length - 1) @@ placed.pcs, firsts |-> placed.firsts, sizes |-> sizes,
         end |-> length - 1,
         blocks |-> placed.blocks \o ([i \in 1..(length - 1 - placed.pc) |-> PanicI] \o <<>>)
                    \o <<GoTo(EndLabel)>>]

(* eval_const_expression, of the symbols.  A match base is what the scaled value *)
(* is added to: its first block, less the patterns below the first.            *)
Constant(x, l, frames) ==
    IF x.kind # "symbol" THEN x
    ELSE Const(CASE x.what = "label" -> l.pcs[x.name]
                 [] x.what = "size" -> frames[x.name]
                 [] x.what = "matchSize" -> l.sizes[x.i]
                 [] x.what = "matchBase" -> (l.firsts[x.i] - x.first * l.sizes[x.i]) % P)

(* compile_block: the instruction that is emitted. *)
Emitted(ins, l, frames) ==
    LET value(x) == Constant(x, l, frames)
    IN  CASE ins.op \in {"add", "mul"} ->
                IF value(ins.a).kind = "const" /\ value(ins.c).kind = "const"
                THEN [op |-> "add", a |-> Const(0), c |-> value(ins.res),
                      res |-> Const(Compute(ins.op, value(ins.a).n, value(ins.c).n))]
                ELSE IF value(ins.c).kind = "const"
                THEN [op |-> ins.op, a |-> value(ins.c), c |-> value(ins.a), res |-> value(ins.res)]
                ELSE [op |-> ins.op, a |-> value(ins.a), c |-> value(ins.c), res |-> value(ins.res)]
          [] ins.op = "panic" -> [op |-> "mul", a |-> Const(0), c |-> FpRelative(0), res |-> Const(1)]
          [] ins.op = "deref" -> [ins EXCEPT !.res = value(@)]
          [] ins.op = "jump" -> [ins EXCEPT !.dest = value(@), !.updatedFp = value(@)]

EmittedHint(h, l, frames) ==
    IF h.kind = "requestMemory" THEN [h EXCEPT !.size = Constant(@, l, frames)] ELSE h

(* The hints before an instruction are run when the pc reaches it. *)
Entries(l, frames) ==
    LET real == SelectSeq([i \in DOMAIN l.blocks |-> i], LAMBDA i : l.blocks[i].op # "hint")
        before(k) == IF k = 1 THEN 0 ELSE real[k - 1]
    IN  [k \in DOMAIN real |->
            [hints |-> [j \in 1..(real[k] - before(k) - 1) |->
                            EmittedHint(l.blocks[before(k) + j].hint, l, frames)] \o <<>>,
             instruction |-> Emitted(l.blocks[real[k]], l, frames)]] \o <<>>

BytecodeOf(all, end, frame) ==
    IF Len(all) > MaxBytecode THEN [err |-> "error"]
    ELSE [err |-> "",
          bytecode |-> [code |-> [pc \in 0..end |-> all[pc + 1]] @@ <<>>, endingPc |-> end, startingFrame |-> frame]]

LinkedAt(l, ir) == BytecodeOf(Entries(l, ir.sizes), l.end, ir.sizes["main"])

ToBytecode(ir) == LinkedAt(Layout(ir), ir)

=============================================================================
