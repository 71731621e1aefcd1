----------------------------- MODULE MCCompiler -----------------------------
(***************************************************************************)
(* Small programs, one for each thing the language has and the compiler    *)
(* treats apart.  Most read two hinted values, w and r, and end by         *)
(* asserting that what they compute from w is r.                           *)
(***************************************************************************)
EXTENDS Compiler, MCRunner

v(x) == Var(x)
Plus(x, y) == Op("add", x, y)
Times(x, y) == Op("mul", x, y)
Minus(x, y) == Op("sub", x, y)
Elem(array, i) == At(v(array), <<i>>)
NewArray(x, n) == Set(x, CallTo("Array", <<n>>))
IsR(x) == <<AssertThat("==", x, v("r")), Return(<<>>)>>

Hinted(x) == <<NewArray("buf_" \o x, Num(1)), Do(WitnessHint("h", v("buf_" \o x))),
               Set(x, Elem("buf_" \o x, Num(0)))>>
HintedWR == Hinted("w") \o Hinted("r")

(* pairs are the values of w and r. *)
Given(pairs) == {[h |-> pair] : pair \in pairs}
Source(name, fns, arrays, witnesses) ==
    [name |-> name, fns |-> fns, arrays |-> arrays, witnesses |-> witnesses]
Main(body) == "main" :> Fun(<<>>, FALSE, 0, body)
Plain(name, body, pairs) == Source(name, Main(HintedWR \o body), <<>>, Given(pairs))
WithFun(name, f, fun, body, pairs) ==
    Source(name, (f :> fun) @@ Main(HintedWR \o body), <<>>, Given(pairs))

Imm(x) == Param(x, "immutable")
Nothing == <<>>

-----------------------------------------------------------------------------
(* Mutable variables. *)
MutableIf == Plain("mutable_if",
    <<SetMut("x", v("w")),
      If("==", v("w"), Num(1), <<Set("x", Plus(v("x"), Num(10))), Set("x", Times(v("x"), Num(2)))>>,
         <<If("!=", v("w"), Num(2), <<Set("x", Plus(v("x"), Num(5)))>>, Nothing)>>)>>
    \o IsR(v("x")),
    {<<0, 5>>, <<1, 22>>, <<1, 11>>, <<2, 2>>})

MutableMatch == Plain("mutable_match",
    <<SetMut("x", Plus(v("w"), Num(0))), SetMut("y", Num(4)),
      Match(v("w"), 0, <<
        <<Set("x", Num(5)), Set("y", Plus(v("x"), v("y")))>>,
        <<Set("x", Plus(v("x"), Num(7)))>>,
        <<If("==", v("r"), Num(9), <<Set("y", Plus(v("y"), v("y"))), Set("y", Plus(v("y"), v("w")))>>,
             <<Panic>>)>> >>)>>
    \o IsR(Plus(v("x"), v("y"))),
    {<<0, 14>>, <<1, 12>>, <<2, 9>>, <<2, 12>>, <<1, 13>>})

DeclaredInBranches == Plain("declared_in_branches",
    <<Declare("x"),
      If("==", v("w"), Num(0), <<Set("t", Plus(v("r"), Num(1))), Set("x", v("t"))>>,
         <<Set("x", Plus(v("w"), Num(1)))>>)>>
    \o IsR(Times(v("x"), Num(2))),
    {<<0, 1021 - 2>>, <<0, 1>>, <<4, 10>>})

CopiedInBranches == Plain("copied_in_branches",
    <<Declare("x"),
      If("==", v("w"), Num(0), <<Set("x", v("r"))>>, <<Set("x", v("w"))>>),
      Set("y", v("x"))>>
    \o IsR(Plus(v("y"), v("w"))),
    {<<0, 3>>, <<2, 4>>, <<2, 3>>})

EarlyReturn == Plain("early_return",
    <<If("==", v("w"), Num(0), <<AssertThat("==", v("r"), Num(4)), Return(<<>>)>>,
         <<SetMut("x", v("w")), Set("x", Plus(v("x"), v("x")))>>)>>
    \o IsR(Num(6)),
    {<<0, 4>>, <<0, 6>>, <<1, 6>>, <<1, 4>>})

(* Loops. *)
RangeSum == Plain("range_sum",
    <<SetMut("s", Num(1)),
      For("range", "i", Num(0), Num(3), <<Set("s", Plus(v("s"), Times(v("i"), v("w"))))>>)>>
    \o IsR(v("s")),
    {<<2, 7>>, <<2, 5>>, <<0, 1>>})

RangeToHint == Plain("range_to_hint",
    <<SetMut("s", Num(0)), SetMut("last", Num(9)),
      For("range", "i", Num(1), v("w"), <<Set("last", v("i")), Set("s", Plus(v("s"), v("last")))>>)>>
    \o IsR(Plus(v("s"), v("last"))),
    {<<1, 9>>, <<3, 5>>, <<3, 3>>})

NestedRanges == Plain("nested_ranges",
    <<SetMut("s", v("w")),
      For("range", "i", Num(0), Num(2),
          <<SetMut("p", Num(1)),
            For("range", "j", Num(0), Num(2), <<Set("p", Plus(v("p"), v("i")))>>),
            Set("s", Plus(v("s"), v("p")))>>)>>
    \o IsR(v("s")),
    {<<0, 4>>, <<1, 5>>, <<1, 4>>})

RangeWithMatch == Plain("range_with_match",
    <<SetMut("s", Num(0)),
      For("range", "i", Num(0), Num(2),
          <<Match(v("i"), 0, << <<Set("s", v("w"))>>,
                               <<If("==", v("w"), Num(1), <<Set("s", Plus(v("s"), Num(4)))>>, Nothing)>> >>)>>)>>
    \o IsR(v("s")),
    {<<1, 5>>, <<2, 2>>, <<2, 6>>})

Parallel == Plain("parallel",
    <<NewArray("res", Num(2)),
      For("parallel_range", "i", Num(0), Num(2), <<SetAt("res", v("i"), Times(v("i"), v("w")))>>)>>
    \o IsR(Plus(Elem("res", Num(0)), Elem("res", Num(1)))),
    {<<2, 2>>, <<2, 5>>})

ParallelHints == Source("parallel_hints",
    Main(<<NewArray("res", Num(2)),
           For("parallel_range", "i", Num(0), Num(2),
               Hinted("w") \o <<AssertThat("<", v("w"), Num(5)), SetAt("res", v("i"), v("w"))>>)>>
         \o <<AssertThat("==", Elem("res", Num(1)), Num(3)), Return(<<>>)>>),
    <<>>, {[h |-> <<4, 3>>], [h |-> <<5, 3>>], [h |-> <<3, 4>>], [h |-> <<3>>]})

UnrolledLoop == Plain("unroll",
    <<SetMut("s", Num(0)), NewArray("a", Num(4)), SetAt("a", Num(0), v("w")),
      For("unroll", "i", Num(0), Num(3),
          <<Set("t", Plus(Elem("a", v("i")), v("i"))), SetAt("a", Plus(v("i"), Num(1)), v("t")),
            Set("s", Plus(v("s"), v("t")))>>)>>
    \o IsR(v("s")),
    {<<0, 4>>, <<1, 7>>, <<1, 4>>})

DynamicallyUnrolled == Plain("dynamic_unroll",
    <<SetMut("s", Num(0)),
      DynamicUnroll("i", Num(1), v("w"), Num(2), <<Set("s", Plus(v("s"), v("i")))>>)>>
    \o IsR(v("s")),
    {<<1, 0>>, <<3, 3>>, <<4, 6>>, <<4, 5>>, <<6, 6>>})

(* What the compiler computes itself. *)
Constants == Source("constants",
    Main(HintedWR
         \o <<SetMut("s", v("w")), Set("n", Op("next_multiple_of", LenOf("table", <<>>), Num(2))),
              If("==", v("n"), Num(4), <<Set("s", Plus(v("s"), Num(1)))>>, <<Panic>>),
              For("unroll", "i", Num(0), LenOf("table", <<>>),
                  <<Set("s", Plus(v("s"), Times(Elem("table", v("i")), v("w"))))>>)>>
         \o IsR(v("s"))),
    "table" :> DynArray(<<Num(3), Num(0), Num(4)>>), Given({<<1, 9>>, <<2, 17>>, <<2, 9>>}))

ConstantsInBranches == Plain("constants_in_branches",
    <<Set("c", Num(2)), SetMut("x", v("c")),
      If("==", v("w"), v("c"), <<Set("k", Num(7)), Set("x", Plus(v("x"), v("k")))>>,
         <<Set("k", Num(3)), Set("x", Times(v("x"), v("k")))>>)>>
    \o IsR(v("x")),
    {<<2, 9>>, <<0, 6>>, <<0, 9>>})

MutableConstants == Plain("mutable_constants",
    <<SetMut("x", Num(1)),
      If("==", v("w"), Num(0), <<Set("x", Plus(v("x"), Num(1)))>>, Nothing),
      SetMut("y", Plus(v("x"), Num(1)))>>
    \o IsR(v("y")),
    {<<0, 3>>, <<1, 2>>, <<0, 2>>})

MatchRange == Plain("match_range",
    <<Set("y", CallTo("match_range", <<v("w"),
                 CallTo("range", <<Num(0), Num(2)>>), Lambda("k", Times(v("k"), Num(3))),
                 CallTo("range", <<Num(2), Num(4)>>), Lambda("k", Plus(v("k"), v("w")))>>))>>
    \o IsR(v("y")),
    {<<0, 0>>, <<1, 3>>, <<3, 6>>, <<2, 6>>})

(* Functions. *)
Inlined == WithFun("inlined", "f",
    Fun(<<Imm("a"), Imm("b")>>, TRUE, 1, <<Set("c", Times(v("a"), v("b"))), Return(<<Plus(v("c"), v("a"))>>)>>),
    <<Set("y", CallTo("f", <<v("w"), Plus(v("w"), Num(1))>>)),
      Set("z", Plus(CallTo("f", <<v("y"), Num(2)>>), CallTo("f", <<Num(1), v("w")>>)))>>
    \o IsR(v("z")),
    {<<1, 11>>, <<0, 1>>, <<1, 9>>})

Specialisation == WithFun("specialised", "g",
    Fun(<<Param("n", "const"), Imm("x")>>, FALSE, 1,
        <<SetMut("acc", v("n")), For("unroll", "i", Num(0), v("n"), <<Set("acc", Plus(v("acc"), v("x")))>>),
          Return(<<v("acc")>>)>>),
    <<Set("y", Plus(CallTo("g", <<Num(3), v("w")>>), CallTo("g", <<Num(2), v("w")>>)))>>
    \o IsR(v("y")),
    {<<1, 10>>, <<2, 15>>, <<2, 13>>})

TwoResults == WithFun("two_results", "f",
    Fun(<<Imm("a"), Imm("b")>>, FALSE, 2,
        <<Set("s", Plus(v("a"), v("b"))), Set("t", Times(v("a"), v("b"))),
          If("==", v("a"), Num(1), <<Return(<<v("s"), v("t")>>)>>, <<Return(<<v("t"), v("b")>>)>>)>>),
    <<NewArray("a", Num(1)), Let(<<v("x"), At(v("a"), <<Num(0)>>)>>, CallTo("f", <<v("w"), Num(3)>>))>>
    \o IsR(Plus(v("x"), Times(Num(10), Elem("a", Num(0))))),
    {<<1, 34>>, <<2, 36>>, <<2, 34>>})

Recursion == WithFun("recursion", "fact",
    Fun(<<Imm("n")>>, FALSE, 1,
        <<If("==", v("n"), Num(0), <<Return(<<Num(1)>>)>>,
             <<Set("m", CallTo("fact", <<Minus(v("n"), Num(1))>>)), Return(<<Times(v("n"), v("m"))>>)>>)>>),
    IsR(CallTo("fact", <<v("w")>>)),
    {<<0, 1>>, <<3, 6>>, <<3, 5>>})

TailRecursion == WithFun("tail_recursion", "count",
    Fun(<<Imm("n"), Imm("dest")>>, FALSE, 0,
        <<If("==", v("n"), Num(0), <<SetAt("dest", Num(0), Num(7)), Return(<<>>)>>,
             <<SetAt("dest", v("n"), v("n")), Do(CallTo("count", <<Minus(v("n"), Num(1)), v("dest")>>)),
               Return(<<>>)>>)>>),
    <<NewArray("a", Plus(v("w"), Num(1))), Do(CallTo("count", <<v("w"), v("a")>>))>>
    \o IsR(Plus(Elem("a", Num(0)), Elem("a", v("w")))),
    {<<2, 9>>, <<0, 14>>, <<2, 7>>})

MutableParameter == WithFun("mutable_parameter", "f",
    Fun(<<Param("x", "mut")>>, FALSE, 1,
        <<Set("x", Plus(v("x"), Num(1))), If("==", v("x"), Num(2), <<Set("x", Num(9))>>, Nothing),
          Return(<<v("x")>>)>>),
    <<Set("y", CallTo("f", <<v("w")>>))>> \o IsR(Plus(v("y"), v("w"))),
    {<<1, 10>>, <<4, 9>>, <<1, 3>>})

Frames == WithFun("frames", "f",
    Fun(<<Imm("a")>>, FALSE, 1,
        <<SetMut("x", v("a")),
          If("==", v("a"), Num(1),
             <<Set("b", Times(v("a"), v("a"))), Set("c", Times(v("b"), Plus(v("a"), Num(1)))),
               Set("d", Times(v("c"), Plus(v("b"), v("c")))), Set("e", Times(v("d"), Plus(v("d"), v("c")))),
               Set("x", Times(v("e"), Plus(v("e"), v("d"))))>>,
             Nothing),
          Return(<<Plus(v("x"), Num(1))>>)>>),
    <<Set("p", CallTo("f", <<v("w")>>)), Set("q", CallTo("f", <<v("p")>>))>> \o IsR(Plus(v("p"), v("q"))),
    {<<0, 552>>, <<2, 7>>, <<2, 8>>})

(* Arrays and vectors. *)
Readings == Plain("readings",
    <<NewArray("a", Plus(v("w"), Num(2))),
      SetAt("a", Num(0), Num(4)), SetAt("a", v("w"), Num(6)), SetAt("a", Plus(v("w"), Num(1)), Num(8)),
      SetMut("s", Plus(Elem("a", v("w")), Num(0))),
      If("==", v("r"), Num(1), <<Set("s", Plus(v("s"), Elem("a", Num(0))))>>,
         <<Set("s", Plus(v("s"), Elem("a", Plus(v("w"), Num(1)))))>>),
      Set("t", Plus(Elem("a", v("w")), Elem("a", Num(0))))>>
    \o IsR(Minus(Plus(v("s"), v("t")), Num(22))),
    {<<1, 2>>, <<2, 2>>, <<1, 1>>})

Pointers == Source("pointers",
    Main(<<NewArray("a", Num(4)), Set("p", Plus(v("a"), Num(1))), Set("q", Plus(v("p"), Num(1))),
           Do(WitnessHint("h", v("a"))), Do(WitnessHint("h", v("p"))), SetAt("q", Num(0), Num(5)),
           Set("i", Plus(Elem("a", Num(0)), Num(0))),
           NewArray("b", Plus(v("i"), Num(4))), SetAt("b", Plus(v("i"), Num(3)), Num(3)),
           AssertThat("==", Elem("b", Plus(Num(3), v("i"))), Elem("p", Num(0))),
           AssertThat("!=", Elem("a", Plus(v("i"), Num(2))), Elem("p", Num(0))), Return(<<>>)>>),
    <<>>, Given({<<0, 3>>, <<0, 5>>, <<1, 5>>}))

Vectors == Plain("vectors",
    <<Vector("vec", <<v("w"), Num(2)>>),
      For("unroll", "i", Num(0), Num(2), <<Push("vec", <<>>, Times(v("i"), v("w")))>>),
      Pop("vec", <<>>), Push("vec", <<>>, v("r")), SetMut("s", LenOf("vec", <<>>)),
      For("unroll", "i", Num(0), LenOf("vec", <<>>),
          <<Set("s", Plus(v("s"), Times(v("i"), Elem("vec", v("i")))))>>)>>
    \o <<AssertThat("==", v("s"), Num(9)), Return(<<>>)>>,
    {<<1, 1>>, <<3, 1>>, <<3, 0>>})

Repeated == Plain("repeated",
    <<Set("t", Plus(v("w"), v("r"))), Set("u", Plus(v("r"), v("w"))), Set("k", Times(v("t"), v("u"))),
      Set("l", Minus(v("w"), v("r"))), Set("m", Minus(v("r"), v("w"))),
      AssertThat("==", v("k"), Num(9)), AssertThat("==", Plus(v("l"), v("m")), Num(0)),
      AssertThat("==", Op("div", v("l"), v("t")), Op("div", Num(1), Num(3))), Return(<<>>)>>,
    {<<2, 1>>, <<1, 2>>, <<2, 2>>})

RangeChecks == Plain("range_checks",
    <<AssertThat("<", v("w"), Num(3)), AssertThat("<=", v("w"), v("r")), AssertThat("!=", v("w"), Num(1)),
      DebugAssert("<=", v("w"), v("r"))>>
    \o IsR(Num(2)),
    {<<0, 2>>, <<1, 2>>, <<2, 2>>, <<3, 2>>, <<2, 1>>})

(* Programs the compiler refuses. *)
Refused == {
    Plain("out_of_scope", <<Set("x", v("y"))>> \o IsR(v("x")), {<<0, 0>>}),
    Plain("assigned_twice", <<Set("x", v("w")), Set("x", v("r")), Return(<<>>)>>, {<<0, 0>>}),
    Plain("pushed_in_loop",
          <<Vector("vec", <<v("w")>>), For("range", "i", Num(0), Num(2), <<Push("vec", <<>>, v("i"))>>)>>
          \o IsR(Num(0)), {<<0, 0>>}),
    Plain("unrolled_to_hint", <<For("unroll", "i", Num(0), v("w"), <<Set("x", v("i"))>>)>> \o IsR(Num(0)), {<<0, 0>>}),
    Plain("returns_in_loop", <<For("range", "i", Num(0), Num(2), <<Return(<<>>)>>)>> \o IsR(Num(0)), {<<0, 0>>})}

-----------------------------------------------------------------------------
(* Programs the compiler does not treat as their text asks. *)

(* An assertion of two values that are only computed for it: it is dropped. *)
ComputedSides == Plain("computed_sides",
    <<AssertThat("==", Times(v("w"), v("w")), Plus(v("w"), v("r"))), Return(<<>>)>>,
    {<<2, 2>>, <<2, 3>>})

DroppedAssertions == {ComputedSides}

(* A constant that a mutable variable had is still put in its place. *)
StaleConstant == Plain("stale_constant",
    <<SetMut("x", Num(0)), Set("x", Num(5)), Set("x", Plus(v("x"), v("w"))), Set("y", v("x"))>> \o IsR(v("y")),
    {<<1, 6>>, <<1, 5>>})

StaleConstantLoop == Plain("stale_constant_loop",
    <<SetMut("x", Num(0)), Set("x", Num(5)),
      For("range", "i", Num(0), Num(2), <<Set("x", Plus(v("x"), v("w")))>>), Set("y", v("x"))>> \o IsR(v("y")),
    {<<1, 7>>, <<1, 5>>})

(* An element read before its index changed is not read again. *)
StaleReading == Plain("stale_reading",
    <<NewArray("a", Plus(v("w"), Num(2))), SetAt("a", Num(0), Num(4)), SetAt("a", Num(1), Num(6)),
      SetMut("i", Times(v("w"), Num(0))), Set("y", Plus(Elem("a", v("i")), Num(0))),
      Set("i", Plus(v("i"), Num(1))), Set("z", Plus(Elem("a", v("i")), v("y")))>> \o IsR(v("z")),
    {<<1, 10>>, <<1, 8>>})

(* The length of a vector of the enclosing block. *)
LenInBranch == Plain("len_in_branch",
    <<Vector("vec", <<v("w"), v("r")>>), Declare("n"),
      If("==", v("w"), Num(0), <<Set("n", LenOf("vec", <<>>))>>, <<Set("n", Num(3))>>)>>
    \o IsR(v("n")),
    {<<0, 2>>, <<1, 3>>, <<1, 2>>})

(* An element of a vector of the enclosing block, in a loop that stays a loop. *)
ElementInLoop == Plain("element_in_loop",
    <<Vector("vec", <<v("w"), Num(2)>>), SetMut("s", Num(0)),
      For("range", "i", Num(0), Num(2), <<Set("s", Plus(v("s"), Elem("vec", Num(0))))>>)>>
    \o IsR(v("s")),
    {<<1, 2>>, <<1, 3>>})

(* An element that both branches read, and the lines after them. *)
ReadInBothBranches == Plain("read_in_both_branches",
    <<NewArray("a", Plus(v("w"), Num(2))), SetAt("a", v("w"), Num(6)), SetMut("s", Plus(v("w"), Num(0))),
      If("==", v("r"), Num(7), <<Set("s", Plus(v("s"), Elem("a", v("w"))))>>,
         <<Set("s", Times(v("s"), Elem("a", v("w"))))>>),
      Set("t", Plus(v("s"), Elem("a", v("w"))))>>
    \o IsR(Minus(v("t"), Num(6))),
    {<<1, 7>>, <<1, 6>>, <<2, 7>>})

(* An operation done twice: the variable of the enclosing scope stays unset. *)
DroppedAssignment == Plain("dropped_assignment",
    <<Declare("x"),
      If("==", v("w"), Num(1), <<Set("t", Plus(v("w"), v("r"))), Set("x", Plus(v("w"), v("r"))),
                                AssertThat("==", v("t"), Num(4))>>, <<Panic>>),
      AssertThat("==", v("x"), Num(3)), Return(<<>>)>>,
    {<<1, 3>>, <<1, 2>>})

(* A mutable variable declared first and assigned in a loop gets no buffer. *)
WrittenInLoop == Plain("written_in_loop",
    <<DeclareMut("x"), For("range", "i", Num(0), Num(2), <<Set("x", v("i"))>>)>> \o IsR(v("x")),
    {<<1, 1>>, <<1, 2>>})

(* A constant parameter assigned again, a constant array written, an order     *)
(* asked for at run time, a constant index out of bounds.                     *)
ConstantRebound == WithFun("constant_rebound", "f",
    Fun(<<Param("n", "const"), Imm("x")>>, FALSE, 1, <<Set("n", Plus(v("x"), Num(1))), Return(<<v("n")>>)>>),
    <<Set("y", CallTo("f", <<Num(1), v("w")>>))>> \o IsR(v("y")),
    {<<1, 2>>})

TableWritten == Source("table_written",
    Main(HintedWR \o <<For("unroll", "i", Num(0), Num(2), <<SetAt("table", v("i"), Num(3))>>)>> \o IsR(v("w"))),
    "table" :> DynArray(<<Num(3), Num(3)>>), Given({<<1, 1>>}))

OrderInCondition == Plain("order_in_condition",
    <<Declare("x"), If("<", v("w"), v("r"), <<Set("x", Num(4))>>, <<Set("x", v("w"))>>)>> \o IsR(v("x")),
    {<<1, 4>>, <<2, 2>>})

IndexOutOfBounds == Source("index_out_of_bounds",
    Main(HintedWR \o IsR(Plus(v("w"), Elem("table", Num(2))))),
    "table" :> DynArray(<<Num(3), Num(3)>>), Given({<<1, 4>>}))

Mistreated == {ComputedSides, StaleConstant, StaleConstantLoop, StaleReading, LenInBranch, ElementInLoop,
    ReadInBothBranches, DroppedAssignment, WrittenInLoop, ConstantRebound, TableWritten, OrderInCondition,
    IndexOutOfBounds}

MCSources ==
    {MutableIf, MutableMatch, DeclaredInBranches, CopiedInBranches, EarlyReturn, RangeSum, RangeToHint,
     NestedRanges, RangeWithMatch, Parallel, ParallelHints, UnrolledLoop, DynamicallyUnrolled, Constants,
     ConstantsInBranches, MutableConstants, MatchRange, Inlined, Specialisation, TwoResults, Recursion,
     TailRecursion, MutableParameter, Frames, Readings, Pointers, Vectors, Repeated, RangeChecks}
    \cup Refused \cup Mistreated

=============================================================================
