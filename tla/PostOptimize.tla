----------------------------- MODULE PostOptimize -----------------------------
(***************************************************************************)
(* propagate_copies                                                        *)
(* (crates/lean_compiler/src/a_simplify_lang/post_optimization.rs): what   *)
(* is done to the simple lines of a function before they are compiled.     *)
(* Copies are replaced by what they copy, an offset goes into the deref    *)
(* that uses it, an operation done twice is done once, and what is only    *)
(* computed to be asserted equal is computed into what it must equal.      *)
(***************************************************************************)
EXTENDS Simplify

InMemory(e) == e.k \in {"var", "cell"}

RECURSIVE Flattened(_)
Flattened(lines) ==
    FlattenSeq(Each(lines, LAMBDA l : <<l>> \o FlattenSeq(Each(l.b, LAMBDA b : Flattened(b)))))

(* get_var_refs: what the lines define and what they read, once for each time. *)
DefinedBy(l) == CASE l.k = "raw" -> <<l.e[1]>> [] l.k = "fwd" -> <<>> [] l.k \notin {"raw", "fwd"} -> l.d
ReadBy(l) == IF l.k = "raw" THEN <<l.e[2]>> ELSE l.e

VarRefs(lines) ==
    LET all == Flattened(lines)
        defined == FlattenSeq(Each(all, LAMBDA l : DefinedBy(l)))
        read == FlattenSeq(Each(all, LAMBDA l : ReadBy(l)))
        times(es, x) == Cardinality({i \in DOMAIN es : es[i] = x})
        vars == {x \in Range(defined) \cup Range(read) : x.k = "var"}
    IN  [x \in {x.s : x \in vars} |->
            [definitions |-> times(defined, Var(x)), uses |-> times(read, Var(x))]] @@ <<>>

UniquelyDefined(x, refs) == x \in DOMAIN refs /\ refs[x].definitions = 1
OneTime(x, refs) == UniquelyDefined(x, refs) /\ refs[x].uses = 1

-----------------------------------------------------------------------------
(* Substitutions. *)
RECURSIVE Chased(_, _)
Chased(e, subst) == IF e.k = "var" /\ e.s \in DOMAIN subst THEN Chased(subst[e.s], subst) ELSE e

RECURSIVE Substituted(_, _)
Substituted(lines, subst) ==
    LET goes(l) == l.k \in {"assign", "fwd"} /\ l.d[1].k = "var" /\ l.d[1].s \in DOMAIN subst
    IN  Each(SelectSeq(lines, LAMBDA l : ~goes(l)),
             LAMBDA l : [l EXCEPT !.e = Each(@, LAMBDA e :
                                            IF e.k = "var" /\ e.s \in DOMAIN subst THEN subst[e.s] ELSE e),
                                  !.b = Each(@, LAMBDA b : Substituted(b, subst))])

(* `var = something + 0`, its only definition. *)
IsCopy(l, refs) ==
    /\ l.k = "assign" /\ l.d[1].k = "var" /\ l.o = "add" /\ InMemory(l.e[1]) /\ l.e[2] = Num(0)
    /\ UniquelyDefined(l.d[1].s, refs)

CopiesPropagated(lines) ==
    LET refs == VarRefs(lines)
        copies == SelectSeq(Flattened(lines), LAMBDA l : IsCopy(l, refs))
    IN  Substituted(lines, FoldLeft(LAMBDA subst, l : (l.d[1].s :> Chased(l.e[1], subst)) @@ subst,
                                    <<>>, copies))

-----------------------------------------------------------------------------
(* fold_const_offset_into_deref.                                              *)
(* The line of a block that defines a variable by an addition, the only one.  *)
AdditionsTo(x, lines, refs) ==
    {i \in DOMAIN lines : /\ lines[i].k = "assign" /\ lines[i].o = "add" /\ lines[i].d[1] = x
                          /\ UniquelyDefined(x.s, refs)}

(* The operands k of the addition at ptr that are themselves the sum of a      *)
(* constant and something of the memory.                                      *)
FoldableSides(ptr, lines, refs) ==
    {k \in 1..2 : LET x == lines[ptr].e[k]
                  IN  /\ x.k = "var" /\ OneTime(x.s, refs)
                      /\ \E i \in AdditionsTo(x, lines, refs) :
                            \E j \in 1..2 : IsNum(lines[i].e[j]) /\ InMemory(lines[i].e[3 - j])}

RECURSIVE OffsetsFolded(_, _)
OffsetsFolded(block, refs) ==
    LET lines == Each(block, LAMBDA l : [l EXCEPT !.b = Each(@, LAMBDA b : OffsetsFolded(b, refs))])
        defines(x) == CHOOSE i \in AdditionsTo(x, lines, refs) : TRUE
        work == {i \in DOMAIN lines :
                    /\ lines[i].k = "raw" /\ lines[i].n = 0
                    /\ lines[i].e[2].k = "var" /\ OneTime(lines[i].e[2].s, refs)
                    /\ \E ptr \in AdditionsTo(lines[i].e[2], lines, refs) :
                          FoldableSides(ptr, lines, refs) # {}}
        ptr(i) == defines(lines[i].e[2])
        side(i) == CHOOSE k \in FoldableSides(ptr(i), lines, refs) :
                      \A m \in FoldableSides(ptr(i), lines, refs) : k <= m
        inner(i) == defines(lines[ptr(i)].e[side(i)])
        constant(i) == CHOOSE j \in 1..2 : IsNum(lines[inner(i)].e[j])
        at(p) == CHOOSE i \in work : ptr(i) = p
        folded(p) == CASE p \in work -> [lines[p] EXCEPT !.n = lines[inner(p)].e[constant(p)].n]
                       [] p \in {ptr(i) : i \in work} ->
                            [lines[p] EXCEPT !.e[side(at(p))] = lines[inner(at(p))].e[3 - constant(at(p))]]
                       [] OTHER -> lines[p]
        dropped == {lines[inner(i)].d[1] : i \in work}
    IN  FlattenSeq([p \in DOMAIN lines |->
            IF \/ p \in {inner(i) : i \in work}
               \/ lines[p].k = "fwd" /\ lines[p].d[1] \in dropped
            THEN <<>> ELSE <<folded(p)>>] \o <<>>)

-----------------------------------------------------------------------------
(* dedup_arithmetic_operations.                                               *)
OperationKey(l, subst) ==
    LET args == Each(l.e, LAMBDA e : Chased(e, subst))
    IN  <<l.o, IF l.o \in {"add", "mul"} THEN Range(args) ELSE args>>

RECURSIVE Deduplicated(_, _)
Deduplicated(block, refs) ==
    LET lines == Each(block, LAMBDA l : [l EXCEPT !.b = Each(@, LAMBDA b : Deduplicated(b, refs))])
        operations == SelectSeq(lines, LAMBDA l :
            l.k = "assign" /\ l.d[1].k = "var" /\ l.o \in RuntimeOps /\ UniquelyDefined(l.d[1].s, refs))
        seen == FoldLeft(
            LAMBDA s, l :
                LET key == OperationKey(l, s.subst)
                IN  IF key \in DOMAIN s.first
                    THEN [s EXCEPT !.subst = (l.d[1].s :> s.first[key]) @@ @]
                    ELSE [s EXCEPT !.first = (key :> l.d[1]) @@ @],
            [first |-> <<>>, subst |-> <<>>], operations)
    IN  Substituted(lines, seen.subst)

-----------------------------------------------------------------------------
(* fuse_raw_asserts and fuse_assign_asserts: `v = ...; assert v == x` becomes  *)
(* `x = ...` where the assertion was.                                         *)
ResultOf(l) == IF l.k = "raw" THEN l.e[1] ELSE l.d[1]
WithResult(l, x) == IF l.k = "raw" THEN [l EXCEPT !.e[1] = x] ELSE [l EXCEPT !.d = <<x>>]

FusableAsserts(lines, i, x, replaced) ==
    {j \in i + 1..Len(lines) : lines[j].k = "asserteq" /\ j \notin replaced /\ x \in Range(lines[j].e)}

RECURSIVE AssertsFused(_, _, _)
AssertsFused(block, refs, kind) ==
    LET lines == Each(block, LAMBDA l : [l EXCEPT !.b = Each(@, LAMBDA b : AssertsFused(b, refs, kind))])
        fuse(f, i) ==
            LET x == ResultOf(lines[i])
                asserts == FusableAsserts(lines, i, x, DOMAIN f.replaced)
                j == CHOOSE j \in asserts : \A m \in asserts : j <= m
                other == lines[j].e[IF lines[j].e[1] = x THEN 2 ELSE 1]
            IN  IF lines[i].k = kind /\ x.k = "var" /\ OneTime(x.s, refs) /\ asserts # {}
                THEN [replaced |-> (j :> WithResult(lines[i], other)) @@ f.replaced,
                      gone |-> f.gone \cup {i}, declarations |-> f.declarations \cup {x}]
                ELSE f
        f == FoldLeft(fuse, [replaced |-> <<>>, gone |-> {}, declarations |-> {}],
                      [i \in DOMAIN lines |-> i] \o <<>>)
    IN  FlattenSeq([i \in DOMAIN lines |->
            IF i \in f.gone \/ (lines[i].k = "fwd" /\ lines[i].d[1] \in f.declarations) THEN <<>>
            ELSE IF i \in DOMAIN f.replaced THEN <<f.replaced[i]>> ELSE <<lines[i]>>] \o <<>>)

-----------------------------------------------------------------------------
(* propagate_copies: the references are counted anew before each pass. *)
FoldRawOffsets(body) == OffsetsFolded(body, VarRefs(body))
DedupOperations(body) == Deduplicated(body, VarRefs(body))
FuseRawAsserts(body) == AssertsFused(body, VarRefs(body), "raw")
FuseAssignAsserts(body) == AssertsFused(body, VarRefs(body), "assign")

OptimisedBody(body) == FuseAssignAsserts(FuseRawAsserts(DedupOperations(FoldRawOffsets(CopiesPropagated(body)))))

PropagateCopies(fns) == [f \in DOMAIN fns |-> [fns[f] EXCEPT !.body = OptimisedBody(@)]] @@ <<>>

=============================================================================
