------------------------------ MODULE Compiler ------------------------------
(***************************************************************************)
(* The compiler of the guest programs                                      *)
(* (crates/lean_compiler/src/lib.rs, try_compile_program_with_flags), pass *)
(* by pass, followed by a run of the bytecode it gives on the runner of    *)
(* the VM, with a witness of the program's.                                *)
(*                                                                         *)
(* A source is a program that is already parsed, [name, fns, arrays,       *)
(* witnesses].  `unit` is what the last pass gave; `stage` is that pass,   *)
(* "running" once the bytecode is loaded, "error" when the compiler has    *)
(* refused the program and "panic" when it has stopped on it.  A bytecode  *)
(* of Programs is given to the runner as it is.                            *)
(***************************************************************************)
EXTENDS Intermediate, Runner

CONSTANTS
    Sources   \* programs of zkDSL

VARIABLES source, unit, stage

compiling == <<source, unit, stage>>
compilerVars == <<vars, compiling>>

NoUnit == [none |-> TRUE]
NoBytecode == [code |-> <<>>, endingPc |-> 0, startingFrame |-> 0]

NoSource == [name |-> "", fns |-> <<>>, arrays |-> <<>>, witnesses |-> {}]

CompilerInit ==
    \/ /\ source \in Sources
       /\ unit = source.fns
       /\ stage = "source"
       /\ program = NoBytecode
       /\ entries = <<>>
       /\ mem = <<>>
       /\ size = 0
       /\ cpu = <<>>
       /\ batch = NoBatch
       /\ mode = "compiling"
       /\ resolver = NoPass
    \/ /\ source = NoSource
       /\ unit = NoUnit
       /\ stage = "given"
       /\ Init

-----------------------------------------------------------------------------
(* The passes. *)

Refuse(how) ==
    /\ stage' = how
    /\ unit' = NoUnit
    /\ UNCHANGED <<source, vars>>

Advance(next, result) ==
    /\ stage' = next
    /\ unit' = result
    /\ UNCHANGED <<source, vars>>

Result(err, result) == [err |-> err, unit |-> result]

(* The names of the variables in a source. *)
SourceNames(s) ==
    UNION {LineNames(s.fns[f].body) \cup {s.fns[f].params[i].x : i \in DOMAIN s.fns[f].params} :
              f \in DOMAIN s.fns}

(* try_compile_program_with_flags: the passes, in their order. *)
PassNames == <<"scoped", "transformed", "validated", "loops", "simple", "optimised", "intermediate", "compiled">>

(* What a pass gives of s, whose functions the passes before it have made into u. *)
PassOf(pass, s, u) ==
    CASE pass = "scoped" -> Result(IF Scoped(s) THEN "" ELSE "panic", u)
      [] pass = "transformed" -> With(CompileTimeTransform(s), LAMBDA r : Result(r.err, r.fns))
      [] pass = "validated" -> With(ValidateVectors(u), LAMBDA r : Result(r.err, r.fns))
      [] pass = "loops" ->
            IF \E f \in DOMAIN u : LoopAssignsConstArray(u[f].body, DOMAIN s.arrays) THEN Result("panic", u)
            ELSE Result("", TransformMutableInLoops([fns |-> u, arrays |-> s.arrays]))
      [] pass = "simple" -> With(SimplifyProgram(u, s.arrays, SourceNames(s)), LAMBDA r : Result(r.err, r.fns))
      [] pass = "optimised" -> Result("", PropagateCopies(u))
      [] pass = "intermediate" -> With(ToIntermediate(u), LAMBDA r : Result(r.err, r))
      [] pass = "compiled" -> With(ToBytecode(u), LAMBDA r : Result(r.err, IF r.err = "" THEN r.bytecode ELSE u))

(* Nothing is done with a program that a pass has refused. *)
AfterPass(pass, s, given) == IF given.err = "" THEN PassOf(pass, s, given.unit) ELSE given

(* What s is at first, and what each of the first k passes gives of it. *)
RECURSIVE PassesUpTo(_, _)
PassesUpTo(s, k) ==
    IF k = 0 THEN <<Result("", s.fns)>>
    ELSE With(PassesUpTo(s, k - 1), LAMBDA given : Append(given, AfterPass(PassNames[k], s, given[k])))

Passes == [s \in Sources |-> PassesUpTo(s, Len(PassNames))]

Pass(k) ==
    /\ stage = IF k = 1 THEN "source" ELSE PassNames[k - 1]
    /\ \E r \in {Passes[source][k + 1]} : IF r.err = "" THEN Advance(PassNames[k], r.unit) ELSE Refuse(r.err)

(* try_execute_bytecode: the runner starts on the bytecode. *)
Load ==
    /\ stage = "compiled"
    /\ \E witness \in source.witnesses :
          /\ entries' = witness
          /\ cpu' = [i \in {0} |-> NewCpu(0, InitialFp, InitialFp + unit.startingFrame,
                                          [name \in DOMAIN witness |-> 0])]
    /\ program' = unit
    /\ mem' = [a \in 0..Len(PublicMemory) - 1 |-> PublicMemory[a + 1]]
    /\ size' = Len(PublicMemory)
    /\ mode' = "run"
    /\ stage' = "running"
    /\ unit' = NoUnit
    /\ UNCHANGED <<source, batch, resolver>>

Compile == (\E k \in 1..Len(PassNames) : Pass(k)) \/ Load

(* The bytecode runs as it does in Runner. *)
Run == Next /\ UNCHANGED compiling

(* The compiler has returned without a bytecode. *)
Stopped == stage \in {"error", "panic"}

StayStopped == Stopped /\ UNCHANGED compilerVars

CompilerNext == Compile \/ Run \/ StayStopped

CompilerSpec == CompilerInit /\ [][CompilerNext]_compilerVars /\ WF_compilerVars(CompilerNext)

-----------------------------------------------------------------------------
(* Properties *)

Rewritten == stage \in {"transformed", "validated", "loops"}

CompilerTypeOK ==
    /\ stage \in {"source", "scoped", "transformed", "validated", "loops", "simple", "optimised",
                  "intermediate", "compiled", "running", "given", "error", "panic"}
    /\ source \in Sources \cup {NoSource} /\ (source = NoSource <=> stage = "given")
    /\ stage \in {"running", "given"} =>
          /\ stage = "running" => entries \in source.witnesses
          /\ DOMAIN mem \subseteq 0..size - 1
          /\ \A a \in DOMAIN mem : mem[a] \in F
          /\ 0 \in DOMAIN cpu /\ \A i \in DOMAIN cpu : cpu[i] \in CpuType
          /\ mode \in {"batch", "segments"} => batch # NoBatch
          /\ mode # "segments" => DOMAIN cpu = {0} \/ mode = "error"
    /\ mode = "compiling" <=> stage \notin {"running", "given"}

(* What a source looks like when the compiler is known not to treat it as its  *)
(* text asks (README, findings and remarks on the compiler).  Each is read    *)
(* off the text alone, and says no more than it must.                         *)
RECURSIVE BlocksOf(_)
BlocksOf(lines) == {lines} \cup UNION {BlocksOf(b) : b \in UNION {Range(l.b) : l \in Range(lines)}}

LinesOf(lines) == UNION {Range(b) : b \in BlocksOf(lines)}
SourceBlocks == UNION {BlocksOf(source.fns[f].body) : f \in DOMAIN source.fns}
SourceLines == UNION {Range(b) : b \in SourceBlocks}
Inside(l) == LinesOf(FlattenSeq(l.b))

RECURSIVE PartsOf(_)
PartsOf(e) == {e} \cup UNION {PartsOf(x) : x \in Range(Inner(e))}
Parts(lines) == UNION {UNION {PartsOf(e) : e \in Range(LineExprs(l))} : l \in lines}
ReadingsIn(lines) == {e \in Parts(lines) : e.k = "at" /\ e.a[1].k = "var"}

Assigns(l, x) == l.k = "let" /\ \E i \in DOMAIN l.t : l.t[i].k = "var" /\ l.t[i].s = x
Mutables == {t.s : t \in {t \in UNION {Range(l.t) : l \in SourceLines} : t.k = "var" /\ t.n = 1}}
DeclaredAhead == {l.t[1].s : l \in {l \in SourceLines : l.k = "fwd"}}
Loops == {l \in SourceLines : l.k = "for" /\ l.o \in {"range", "parallel_range"}}

(* An assertion that two results are equal, neither of them named. *)
ChecksTwoResults == \E l \in SourceLines :
    l.k = "assert" /\ l.o = "==" /\ \A i \in 1..2 : l.e[i].k = "op" /\ UsedNames(l.e[i]) # {}

(* A variable is assigned a constant, then, in the same block, something else. *)
OverwritesAConstant == \E b \in SourceBlocks : \E i, j \in DOMAIN b :
    /\ i < j
    /\ b[i].k = "let" /\ Len(b[i].t) = 1 /\ b[i].t[1].k = "var" /\ b[i].t[1].n = 0 /\ IsNum(b[i].e[1])
    /\ \E l \in LinesOf(<<b[j]>>) : Assigns(l, b[i].t[1].s)

(* The index of a reading is a mutable variable. *)
MovesAnIndex == \E e \in ReadingsIn(SourceLines) : UNION {UsedNames(x) : x \in Range(Inner(e))} \cap Mutables # {}

(* A vector of an enclosing block is measured in a block, or read in a loop. *)
LooksOutside == \E l, vec \in SourceLines :
    /\ vec.k = "vec" /\ vec \notin Inside(l)
    /\ \/ l \in Loops \cup {m \in SourceLines : m.k \in {"if", "match"}}
          /\ \E e \in Parts(Inside(l)) : e.k = "len" /\ e.s = vec.t[1].s
       \/ l \in Loops /\ \E e \in ReadingsIn(Inside(l)) : e.a[1].s = vec.t[1].s

(* A mutable variable declared ahead is assigned in a loop. *)
AssignsInALoop == \E l \in Loops, x \in DeclaredAhead \cap Mutables : \E m \in Inside(l) : Assigns(m, x)

(* Two branches of a condition read the same element. *)
ReadsInTwoBranches == \E l \in SourceLines : l.k = "if" /\
    {e \in ReadingsIn(LinesOf(l.b[1])) \cap ReadingsIn(LinesOf(l.b[2])) : e.a[1].s \notin DOMAIN source.arrays} # {}

(* A variable declared ahead is assigned a result that another has as well. *)
RepeatsAResult == \E l, m \in SourceLines :
    /\ l.k = "let" /\ m.k = "let" /\ l # m /\ l.e = m.e /\ l.e[1].k = "op"
    /\ \E x \in DeclaredAhead : Assigns(m, x)

(* A name that becomes a constant, or a constant array, is assigned. *)
RebindsAConstant ==
    \/ \E f \in Range(source.fns) : \E i \in DOMAIN f.params :
          (f.inlined \/ f.params[i].kind = "const") /\ f.params[i].x \in BoundNames(f.body)
    \/ \E l \in SourceLines : l.k = "for" /\ l.o = "unroll" /\ l.t[1].s \in BoundNames(l.b[1])
    \/ \E b \in SourceBlocks : AssignsConstArray(b, DOMAIN source.arrays)

(* A condition asks at run time which of two values is smaller. *)
OrdersInACondition == \E l \in SourceLines : l.k = "if" /\ l.o \notin {"==", "!="} /\ ~AllNums(l.e)

(* "zkDSL ... is a subset of Python": the bytecode accepts a witness exactly   *)
(* when the program, run like the Python it is written in, returns with every *)
(* hint consumed and no assertion failed.                                     *)
CompiledProgramsMeanTheirSource ==
    stage = "running" /\ mode \in {"halted", "error"} =>
        LET meaning == Meaning(source, entries)
        IN  meaning # "undefined" => (mode = "halted") = (meaning = "returned")

(* It does, whatever the passes have to do with a program, but for an assertion *)
(* that is dropped, constants and elements that are stale when they are used, *)
(* and variables that the passes leave without a value.                       *)
OnlyKnownProgramsAreMiscompiled ==
    \/ CompiledProgramsMeanTheirSource
    \/ ChecksTwoResults \/ OverwritesAConstant \/ MovesAnIndex \/ AssignsInALoop \/ RepeatsAResult

(* The passes on the syntax (constants, inlined and specialised functions,     *)
(* unrolled loops, the buffers of mutable variables) give a program that       *)
(* accepts what the source accepts, unless the constant that stands for a     *)
(* variable is no longer its value.                                           *)
RewritesPreserveMeaning ==
    Rewritten =>
        \/ OverwritesAConstant
        \/ \A witness \in source.witnesses :
              LET meaning == Meaning(source, witness)
              IN  meaning # "undefined" =>
                    Meaning([fns |-> unit, arrays |-> source.arrays], witness) = meaning

(* What is known along the lines of a function: the variables assigned on every *)
(* path so far and still in scope, those declared, and whether all was well.  *)
(* A variable a branch assigns is in scope after it if it was declared before;*)
(* a branch that exits does not count.                                        *)
VarNames(es) == {x.s : x \in {x \in Range(es) : x.k = "var"}}

RECURSIVE Flow(_, _, _)
LineFlow(l, f, once) ==
    LET reads == VarNames(ReadBy(l))
        writes == VarNames(DefinedBy(l))
        branches == [i \in DOMAIN l.b |-> Flow(l.b[i], f, once)]
        going == {i \in DOMAIN l.b : ~AlwaysReturns(l.b[i])}
        known == f.known \cup writes
    IN  [known |-> IF l.b = <<>> THEN known
                   ELSE {x \in known \cup f.declared : \A i \in going : x \in branches[i].known},
         declared |-> f.declared \cup (IF l.k = "fwd" THEN VarNames(l.d) ELSE {}),
         ok |-> /\ f.ok
                /\ reads \subseteq f.known
                /\ once /\ l.k # "raw" => writes \cap f.known = {}
                /\ \A i \in DOMAIN l.b : branches[i].ok]

Flow(lines, f, once) == FoldLeft(LAMBDA g, l : LineFlow(l, g, once), f, lines)

(* In the simple lines every variable a function reads is one of its arguments *)
(* or was assigned on every path that leads to the reading, in a scope that   *)
(* still holds; a version of a mutable variable, an auxiliary variable or a   *)
(* cached element that a path leaves out would be a cell the prover chooses.  *)
(* simplify_lines moreover assigns none twice, for an assignment to what has  *)
(* a value is an assertion (raw accesses, and the later fusions, mean one).   *)
(* The code keeps this but for a mutable variable declared ahead of the loop  *)
(* that assigns it, an element that both branches read, a repeated operation  *)
(* whose result has a declaration, and a vector used in a block further in.   *)
EveryReadIsAssigned ==
    stage \in {"simple", "optimised"} =>
        \/ AssignsInALoop \/ ReadsInTwoBranches \/ RepeatsAResult \/ LooksOutside
        \/ \A f \in DOMAIN unit :
              Flow(unit[f].body, [known |-> Range(unit[f].args), declared |-> {}, ok |-> TRUE],
                   stage = "simple").ok

(* "unreachable!()", "len() should have been resolved at parse time": what      *)
(* reaches a pass is what it is written for.  A program that some witness     *)
(* takes to its end, its names in scope, is compiled or refused with an error;*)
(* a pass only panics on it for a vector of an enclosing block, an element    *)
(* that both branches read, a constant assigned again, or an order asked for  *)
(* at run time.                                                               *)
OnlyKnownProgramsPanic ==
    stage = "panic" =>
        \/ ~Scoped(source)
        \/ \A witness \in source.witnesses : Meaning(source, witness) # "returned"
        \/ LooksOutside \/ ReadsInTwoBranches \/ RebindsAConstant \/ OrdersInACondition

(* The passes fit together: what one hands on is what the next is written for.  *)
PassesFitTogether == EveryReadIsAssigned /\ OnlyKnownProgramsPanic

(* What the bytecode writes it has allocated: the frames, whose sizes are       *)
(* computed block by block, are large enough for what runs in them.           *)
AllocatedBeforeWritten ==
    stage = "running" /\ mode \in {"run", "resolve", "halted"} =>
        \A a \in DOMAIN mem : a < cpu[0].ap

(* Every compilation ends, and every run does: the main runner gets back to     *)
(* the head of its loop or fails, and the passes over the pending deref hints  *)
(* stop although hints may wait for each other.                                *)
EveryRunEnds == <>(Stopped \/ mode \in {"halted", "error"})

=============================================================================
