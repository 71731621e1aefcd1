------------------------------ MODULE MCRunner ------------------------------
(***************************************************************************)
(* Small programs, laid out as the compiler lays out a parallel loop: the  *)
(* recursive function of create_recursive_function, whose tail call reuses *)
(* the return address of its caller.                                       *)
(*                                                                         *)
(*     def main():                                                         *)
(*         res = Array(n)                                                  *)
(*         for i in parallel_range(0, n):                                  *)
(*             buf = Array(1)                                              *)
(*             hint_witness("v", buf)                                      *)
(*             y = buf[0]                                                  *)
(*             assert y <= Bound                                           *)
(*             res[i] = y                                                  *)
(***************************************************************************)
EXTENDS RunnerReference

CONSTANT Bound

Add(a, c, res, hints) ==
    [hints |-> hints, instruction |-> [op |-> "add", a |-> a, c |-> c, res |-> res]]
Mul(a, c, res, hints) ==
    [hints |-> hints, instruction |-> [op |-> "mul", a |-> a, c |-> c, res |-> res]]
Deref(shift0, shift1, res, hints) ==
    [hints |-> hints, instruction |-> [op |-> "deref", shift0 |-> shift0, shift1 |-> shift1, res |-> res]]
JumpIf(condition, dest, fp) ==
    [hints |-> <<>>,
     instruction |-> [op |-> "jump", condition |-> condition, dest |-> dest, updatedFp |-> fp]]
Jump(dest, fp) == JumpIf(Const(1), dest, fp)

RequestMemory(offset, n) == [kind |-> "requestMemory", offset |-> offset, size |-> Const(n)]
HintWitness(offset, indirect) ==
    [kind |-> "hintWitness", name |-> "v", offset |-> offset, indirect |-> indirect]

LoopFrame == 19
MainFrame == 8

(* The call of the loop function at pc `loop` from main, returning to `ret`. *)
Call(slot, loop, ret, n, hints) == <<
    Deref(slot, 0, Const(ret), hints \o <<RequestMemory(slot, LoopFrame)>>),
    Deref(slot, 1, FpRelative(0), <<>>),
    Deref(slot, 2, Const(0), <<>>),
    Deref(slot, 3, Mem(2), <<>>),
    Deref(slot, 4, Const(n), <<>>),
    Jump(Const(loop), Mem(slot)) >>

(* The head of the loop function: m[fp + 2] is the iterator, m[fp + 3] is res, *)
(* m[fp + 4] is n; then `if i - n != 0`.                                       *)
LoopHead(loop) == <<
    Add(Mem(5), Mem(4), Mem(2), <<[kind |-> "parallelBatchStart", nArgs |-> 3, end |-> Mem(4)]>>),
    Mul(Mem(5), Mem(6), Mem(7), <<[kind |-> "inverse", arg |-> Mem(5), offset |-> 6]>>),
    Add(Mem(8), Mem(7), Const(1), <<>>),
    Mul(Mem(8), Mem(5), Const(0), <<>>),
    JumpIf(Mem(7), Const(loop + 7), FpRelative(0)),
    Jump(Const(loop + 6), FpRelative(0)),
    Jump(Mem(0), Mem(1)) >>

(* buf = Array(1); hint_witness("v", buf); y = buf[0]; assert y <= Bound. *)
RangeChecked == <<
    Deref(10, 0, Mem(9), <<RequestMemory(10, 1), HintWitness(10, TRUE)>>),
    Deref(9, 0, Mem(11), <<[kind |-> "debugAssert", rel |-> "<=", left |-> Mem(9), right |-> Const(Bound),
                            rangeCheck |-> TRUE],
                           [kind |-> "derefHint", src |-> 9, target |-> 11]>>),
    Add(Mem(9), Mem(12), Const(Bound), <<>>),
    Deref(12, 0, Mem(13), <<[kind |-> "derefHint", src |-> 12, target |-> 13]>>) >>

(* res[i] = y. *)
OwnCellBody == RangeChecked \o <<Add(Mem(3), Mem(2), Mem(14), <<>>), Deref(14, 0, Mem(9), <<>>)>>

(* res[0] = y: the iterations write the same cell. *)
SharedCellBody == RangeChecked \o <<Deref(3, 0, Mem(9), <<>>)>>

(* The tail call of the next iteration. *)
LoopTail(loop) == <<
    Add(Mem(2), Const(1), Mem(16), <<>>),
    Deref(17, 0, Mem(0), <<RequestMemory(17, LoopFrame)>>),
    Deref(17, 1, Mem(1), <<>>),
    Deref(17, 2, Mem(16), <<>>),
    Deref(17, 3, Mem(3), <<>>),
    Deref(17, 4, Mem(4), <<>>),
    Jump(Const(loop), Mem(17)) >>

Loop(loop, body) == LoopHead(loop) \o body \o LoopTail(loop)

(* The return of main: to the ending pc, with fp = 0. *)
Exit(end) == << Add(Const(0), Const(0), Mem(7), <<>>), Jump(Const(end), Mem(7)) >>

(* The blocks of a program, and the final jump at the ending pc. *)
Assemble(instructions) ==
    LET n == Len(instructions)
    IN  [code |-> [pc \in 0..n |-> IF pc < n THEN instructions[pc + 1] ELSE Jump(Const(n), FpRelative(0))],
         endingPc |-> n, startingFrame |-> MainFrame]

(* main: res = Array(n), the loop, and a read of res[0]. *)
OneLoop(n, body) ==
    LET main(end) == Call(3, 9, 6, n, <<RequestMemory(2, n)>>)
                     \o <<Deref(2, 0, Mem(4), <<>>)>> \o Exit(end)
    IN  Assemble(main(9 + Len(Loop(9, body))) \o Loop(9, body))

(* main calls a function that holds the loop twice, on the same res. *)
TwoCalls(n, body) ==
    LET main(end) == Call(3, 14, 6, n, <<RequestMemory(2, n)>>) \o Call(4, 14, 12, n, <<>>) \o Exit(end)
    IN  Assemble(main(14 + Len(Loop(14, body))) \o Loop(14, body))

(* A match on a hinted value, with two arms of two instructions. *)
Dispatch == Assemble(<<
    Mul(Mem(2), Const(2), Mem(3), <<HintWitness(2, FALSE)>>),
    Add(Mem(3), Const(3), Mem(4), <<>>),
    Jump(Mem(4), FpRelative(0)) >> \o Exit(7) \o Exit(7))

-----------------------------------------------------------------------------

MCPublicMemory == <<3, 5>>

RunnerPrograms ==
    {OneLoop(n, OwnCellBody) : n \in 0..3} \cup {OneLoop(n, SharedCellBody) : n \in 2..3} \cup {Dispatch}
OneIteration == {OneLoop(1, OwnCellBody)}
TwoCallPrograms == {TwoCalls(2, OwnCellBody)}

(* Hinted values: public memory, a cell of res, cells of the frames of the     *)
(* iterations, a cell no one writes, a value beyond Bound.                     *)
CONSTANT Values, MaxHints

SequencesOf(n) == UNION {[1..k -> Values] : k \in 0..n}
MCWitnesses == {[v |-> s] : s \in SequencesOf(MaxHints)}

=============================================================================
