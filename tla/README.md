# Corana: a TLA+ model of its exploration and its emulator

Corana is a dynamic symbolic execution tool for ARM Cortex-M binaries. It
decodes a binary with Capstone, runs it on an emulator whose registers, flags
and memory hold SMT formulas beside concrete values, asks Z3 which sides of a
branch are feasible, and writes the control flow graph it discovers as a `.dot`
file. It is one sequential Java thread; what makes it hard to get right is the
bookkeeping shared by all paths: static fields, a stack of pending branches, a
map of environments, and solver answers that may be missing.

All paths below are relative to the repository.

## 1. Inventory

| Component | Source | State | Operations | Hard behaviour |
|---|---|---|---|---|
| Exploration loop | `src/executor/Executor.java` | `jumpTo`, `jumpFrom`, `recentPop`, `envStack`, `labelToEnvModel`, `nodeLabelToIndex`, `countJumpedPair` (all static) | `execute`, `byteExecute`, `execFrom`, six `singleExec`, `decideToJump`, `pcJump`, `gg` | rollback over state shared by all paths, loop limit, one Java frame per instruction, an exception ends the search |
| Branch expansion and decoding | `src/executor/BinParser.java`, `src/pojos/AsmNode.java` | `end`, the node list | `parse`, `parseInstruction`, `parseObjDump`, `expand` | invented labels `L-2`, `L+2`; addresses drifting after an undecodable word; suffix stripping |
| Emulator core | `src/emulator/base/Emulator.java` | its `Environment` | `b`, `bl`, `bx`, condition checks, load/store, push/pop, arithmetic, flags | the concrete and the symbolic half of a value must agree |
| Cortex instruction sets | `src/emulator/cortex/*.java` | none of their own | about 800 instruction methods | six copies that should agree |
| Environment | `src/emulator/semantics/*.java` | registers, flags, stack, memory | get, set, clone | null values that fail instructions later |
| SMT interface | `src/utils/Z3Solver.java` | none | `checkSAT`, `solveBitVecArithmetic`, `getSMTFormula` | `-T:1` time-outs and errors that read as UNSAT |
| Graph exporter | `src/executor/Exporter.java` | `savedGraph`, `savedAsm`, the `.dot` file | `add`, `exportDot`, `exportAsm`, `exportNeo4j` | the file must keep up with a search that may exit |
| Bit vectors | `src/pojos/BitVec.java`, `BitBool.java` | formula, concrete value | construction, `rand` | unconstrained values get random concrete halves |
| Semantic check | `src/executor/SemanticCheck.java` | none | one `byteExecute` per instruction | statics surviving from call to call |
| Command line | `src/executor/Corana.java`, `Configs.java` | options | `main` | none |
| Utilities | `src/utils/*.java` | none | number conversions, I/O, logs | sign and width of conversions |
| Capstone, ELF | `src/capstone`, `src/elfutils` | | bindings, file reader | third party |

How they interact. `Corana.main` parses the binary (`BinParser`), which expands
every conditional instruction that is not a branch into three nodes, and calls
`Executor.execute` with the emulator of the chosen variation. `execFrom(label)`
calls `singleExec`, which first writes the `.dot` file and then calls the
emulator; a branch handler asks the emulator for its true and its false model,
each of which asks `Z3Solver`, and hands both to `decideToJump`, which pushes
them on `envStack` and pops the one to follow. Back in `execFrom` the edge to
the next label goes to `Exporter.add`, and `execFrom` calls itself.

What makes each component correct:

* exploration loop: only feasible paths are entered, no input is explored
  twice, a pending branch is neither lost nor reordered, a rollback cannot fail
  by itself, the search ends, and it exits the process only when nothing is
  pending;
* expansion: labels stay resolvable, and the guard of an instruction decides
  whether it runs;
* exporter: the graph is connected and the file complete;
* path and program: an input of the path condition really reaches the
  instruction, and the registers' formulas give what a core would hold;
* emulator: formula and concrete half of every result agree with each other and
  with the instruction set, at every boundary;
* decoding: labels agree with addresses, and a mnemonic is read as what it is;
* semantic check: a call's result depends on its own arguments only;
* SMT interface: null means UNSAT.

The hazards behind these, line by line, are in `PROJECT.json`.

## 2. Modules

| Module | Models | Used for |
|---|---|---|
| `Program` | labels, instructions, `nextInst`, `prevInst`, `BinParser.expand` | constant-level operators |
| `Explorer` | `Executor` with the parts of emulator, solver and exporter it drives | the core specification and its properties |
| `Worklist` | what a path exploration promises: split, put off, resume, finish | the abstract specification `Explorer` implements |
| `Lockstep` | `Explorer` composed with one ARM core per input | is an explored path a path of the program? |
| `Alu` | the data-processing handlers of M3, M4, M7 and M33 and the operators of `Emulator`, composed with one ARM core per input | are formulas, concrete values and flags right? |
| `Session` | several `byteExecute` calls over the static fields of `Executor` | what a call takes over from the calls before |
| `Parser` | the loops of `BinParser.parse` and `parseInstruction` | labels and mnemonics |
| `Budget` | one number for what a search may still spend | bounds the steps of `Explorer` and of a call in `Session` |
| `Claims` | what names, comments and messages say of the code, with a history variable | three statements |
| `MCExplorer`, `MCLockstep`, `MCAlu`, `MCSession`, `MCParser`, `MCClaims` | instances: inputs, words and sets of programs | the runs |
| `ExplorerProofs`, `TerminationProofs`, `WorklistProofs`, `LockstepProofs`, `AluProofs`, `SessionProofs`, `ParserProofs`, `BudgetProofs` | | the theorems, checked by TLAPS |

### State and actions of `Explorer`

A recursive call of `execFrom` is a *frame*. A frame takes two steps: `exec`
(all of `singleExec`, which leaves a destination in `jumpTo`) and `follow` (the
rest of `execFrom`, which counts the jump, adds the edge and enters the next
frame). The recursion is a tail call inside a `try` whose handler only logs, so
the frames above do nothing once the innermost one has ended: `returned` is the
end of the search, `exited` the `System.exit` of `gg`.

Formulas are modelled by their meaning. `Inputs` is the set of assignments to
the symbolic variables; a path condition is the set of inputs that satisfy it, a
bit-vector formula is a function on `Inputs`, and the concrete half of a value is
its value on `Zero`, the assignment of zeros the emulator starts with. A value
also has a `kind`, because the code looks at the text of a formula: a literal
can be parsed as an address, `SYM` names are never declared to Z3, and other
formulas are neither.

| Action | Code |
|---|---|
| `ExecBranch`, `BranchThrows` | the branch handlers of the six `singleExec`, `Emulator.b/bl/bx`, `checkPosCond`, `checkNegCond`, `decideToJump` |
| `BranchIgnored` | M0's return from a branch for which the emulator has no models |
| `ExecMov`, `ExecCmp` | the data-processing handlers: one register, or the flags, from a formula |
| `ExecLdr`, `ExecLdrb` | loads; `Memory.get` is a stub that returns null |
| `ExecPush`, `ExecPop` | register lists, M0's jump by a pop into pc (`pcJump`) |
| `ExecNop` | the fall-through for opcodes no handler matches |
| `TakeJump`, `Continue`, `BreakLoop` | the three ways `execFrom` goes on |
| `ReachEnd`, `StackOverflow` | the early return at `BinParser.end`, and the Java stack running out |

The six copies of `singleExec` differ in the constants of a record
(`SingleExecM0`, `SingleExecM3`, ...): which branch opcodes they know, what `bl`
leaves in `lr`, whether a direct branch uses its operand, whether the file is
written, and the order of push. `Variant` picks one by `Core`.

The solver may refuse anything when `SolverFails`, must refuse undeclared names
and empty sets, and answers with any input of the set otherwise. In M0, where a
path condition of more than 5000 characters is replaced by the empty one,
`CondTooLong` lets that happen at any jump by pop.

Two kinds of destination are read from text. The operand of a direct branch is an
address only if it is printed with `0x` (`isConcreteLabel`), and capstone prints
addresses up to 9 in decimal: such a branch is `Unreadable`, the emulator returns no
models, the handlers throw and M0's returns. The destination of a conditional
indirect branch is what z3 prints for `(eval reg)`. Without model completion that
is the value of the register in the model or, if the query does not mention the
register, its name. The name becomes a label (`Unevaluated`) that no instruction
has, so the search goes on at the next instruction under the true condition. Which
names a formula mentions is not part of its meaning; `Destinations` therefore allows
both for every formula that is not a literal.

`StackOverflow` may come at the head of a frame, which logs the instruction and sorts
the edges, or inside a branch, which starts z3 and clones the map: then `lr` and some
of the labels have been written and nothing has been pushed. The other handlers call
nothing deeper than the head does.

Left out of the step of an instruction: the write of the pc register at the head
of `singleExec` (no modelled handler reads it), the flags N, C and V (their
conditions are treated like those on Z), registers other than `r0` and `lr`, and
stores, which no load returns.

### The other modules

`Worklist` has three variables, the inputs of the current path, the sets put off
and a status. In `Explorer` they are `pathCond`, the path conditions on
`envStack`, and `phase` (`Search == INSTANCE Worklist WITH ...`). A branch whose
two sides are feasible is a `Fork`, one with a single answer a `Narrow`, a
rollback a `Resume`, `gg` a `Finish`, and an exception, the end of the code or a
full Java stack a `GiveUp`; data processing and the second half of a frame
stutter.

`Lockstep` adds to every step of `Explorer` the step of a core for each input of
the path condition. The core runs the code before its expansion, so the three
nodes of a guarded instruction are one step of it (`Runs`). The search leaves the
core of an input behind at places that are known, one definition for each:
after a rollback, which restores no register (`Resumed`); when a jump is outside
the program or over the limit (`Unmade`); at an indirect branch, which goes where
one input goes, or where none does when its destination is a name (`Misdirected`); at a pc that is popped or loaded and ignored
(`PcIgnored`); and at a register list pushed in the order of the pop, or a use of
a link in doubt (`Misread`). `Doubt` is about `lr`: `bl` gives it the wrong
address in five variations, `blx` has no handler in them, and `Emulator.bl`
writes it before the condition is checked, so that a call that is not taken has
still changed it. These inputs are `astray`, and the properties are about all the
others. `IndirectFollowed` leaves out `blx lr` in M0 for the same reason: the
operand is read after the link has been written over it. It also leaves out the
destination that is a name, as after `cmp r0, #0; bxeq lr`: there the code goes to the
next instruction, where no input of the condition goes, and all of them are astray.

`Alu` keeps for each register the formula (a function on `Inputs`), the concrete
half and the kind of text, because a formula on literals is folded by
`solveBitVecArithmetic` and `getVal` then reads the concrete half off the text.
One action executes a handler, one throws for a negative immediate whose text is
too wide. A value carries the inputs on which it went through an operator that
departs from ARM (`doubt`), and whether its two halves did (`split`): the
departures are `bvxnor` for eor, zeros shifted in by asr, ror and rrx, the carry
that adc ignores, rsb of a shifted operand the wrong way round, the shift that
bic, adc and mvn lose, the product that mul shifts out, and int's `>>` against
`bvlshr`. `executed` remembers which instructions ran. Each exclusion is needed: without any of them TLC reports a violation.

`Session` has the static fields of `Executor` as variables, and the frames of
`execFrom` look their node up in the list of the call through
`nodeLabelToIndex`, which an earlier call may have filled. `guarded` and
`refused` are history.

`Parser` reads one word per step in either of the two loops. Mnemonics are
strings there, because the code cuts them up; what capstone prints is external.

## 3. Properties and runs

| Run | Instance | Checks |
|---|---|---|
| `explorer_m7` | M7, all 6561 programs of four instructions out of nine (branches, calls, guarded instructions, loads), solver may fail | the first eight properties below, and `ImplementsWorklist` |
| `explorer_m0` | M0, all 20736 programs of four out of twelve (blx, a branch that is ignored, push, pop into pc), both values of `BinParser.end`, conditions may be dropped | `PendingFeasible`, `RollbackSafe`, `CfgConnected` |
| `explorer_terminates` | M33, all 2401 programs of four out of seven (loops), fair | `Terminates`, `Progresses` |
| `claim_rollback` | M4, a fork to address 12 whose first side changes `r0` | `RollbackRestores`, violated |
| `claim_return` | M3, a call and its return | `ReturnsAfterCall`, violated |
| `claim_summary` | M0+, a guarded mov as `SemanticCheck` runs it | `SummaryCorrect`, violated |
| `lockstep_m7` | M7, all 20736 programs of four out of twelve (blx and loads too), solver answers | `PathSound`, `PendingSound`, `IndirectFollowed`, `NoBranchLost`, `ResumesWhenStuck` |
| `lockstep_m0` | M0, all 10000 programs of four out of ten (one a branch that is ignored), solver may fail, conditions may be dropped | `PathSound`, `PendingSound` |
| `alu` | four-bit words, 25 inputs, sequences of three out of 66 instructions | `FormulaExact`, `HalvesAgree`, `FlagsExact`, `SignedOrder`, `FaithfulFormulas`, `FaithfulHalves` |
| `claim_xor` | the same, one instruction | `XorIsXor`, violated |
| `session` | three calls out of seven words, in every order, solver may fail, fair | `FreshResult`, `OwnInstruction`, `OwnCondition`, `LeftAtEnd`, `EveryCallEnds`, `CallProgresses` |
| `parser` | four words, the first out of all mnemonics, both loops | `NeverMistaken`, `ReadUnlessLost`, `TargetsResolve` |

* `TypeOK`: types; `execFrom` is only called with labels of the program, and a
  destination never outlives its frame.
* `PendingDisjoint`: pending branches and the current path share no input.
* `PendingFeasible`: each of them has one.
* `RollbackSafe`: the integer parse in `decideToJump` succeeds, and is not
  negative, for whatever is on `envStack`.
* `ExitExhausted`: `gg` inside the search only ends an exhausted search.
* `CfgConnected`: the graph is connected from the first instruction.
* `DotComplete`: the file is at most the edge into the current instruction
  behind the graph, also when the process exits.
* `NothingDropped`: branches leave `envStack` only from the top and only to be
  followed.
* `Terminates`: the limit per pair of labels bounds the whole search.
* `Progresses`: every step spends some of a budget that the length of the program
  and the loop limit fix; neither the solver nor a rollback gives any back.
* `ImplementsWorklist`: the search is a `Worklist`.
* `NoBranchLost`: with a solver that answers, a direct branch keeps every input.
* `ResumesWhenStuck`: a pending branch is resumed, and the process exited, only at
  a branch where the solver failed, a name is undeclared or `lr` holds no address.
  The end of a path is not among these: with a solver that answers and direct
  branches alone, the search follows one path, and what it put off stays there.
* `PathSound`: the core of every input of the path condition is at the current
  instruction, and formulas give what its registers and its Z flag hold.
* `PendingSound`: a branch on `envStack` waits where the cores of its inputs wait.
* `IndirectFollowed`: an indirect branch that goes to an address goes where some
  input goes.
* `FormulaExact`, `HalvesAgree`, `FlagsExact`: after any sequence of
  instructions, the formulas of registers and flags are those of the ARM core,
  and the concrete halves those of the formulas.
* `FaithfulFormulas`, `FaithfulHalves`: the same in terms of instructions. As
  long as none was executed of eor, mul, adc, asr, the shifts asr, ror and rrx, shifted operands
  of rsb, bic and mvn, and wide immediates of bic, the formulas are the core's on
  every input; without lsr either, the concrete halves are the core's that starts
  from zeros.
* `SignedOrder`: ge, lt, gt and le compare the operands of the last cmp, if their
  difference does not leave the signed range.
* `FreshResult`: a call returns its own environment.
* `OwnInstruction`: it executes its own instruction, unless a call before it was
  conditional and it is not: label 0 then has a stale index.
* `OwnCondition`: it returns its own path condition, unless the solver refused
  both sides of a branch and the search rolled back into an earlier call.
* `LeftAtEnd`: what calls leave on `envStack` waits at the end of the code.
* `EveryCallEnds`: a call ends whatever the calls before have counted.
* `CallProgresses`: every step inside a call spends some of a budget, and no call
  gives back jumps that another has used up.
* `NeverMistaken`: no mnemonic is read as another instruction that has a handler.
* `ReadUnlessLost`: those that are not read at all are exactly the ones listed in
  `Lost` (svc, movs, adcs, bics, and a few more in each loop).
* `TargetsResolve`: a branch names the label of its target, in `parse` exactly if
  every word between the two was decoded.

Every property has a mutant in `PROJECT.json`: a change of one definition that
makes TLC find it violated.

**Findings.** (1) `decideToJump` restores the destination, the path condition and
the map on a rollback, but not the emulator's environment: a pending branch runs
on the registers, flags and stack its sibling left. (2) `bl` links the address
of the call itself in every variation but M0, so a return repeats the call until
the loop limit breaks it. (3) The node list of a conditional instruction begins
with its unconditional copy, where `byteExecute` starts: the semantic check of
`MOVEQ` writes the register whatever the flags are. (4) `Emulator.xor` builds its
formula with `bvxnor`: symbolically, eor is the complement of what its concrete
half and its documentation say.

**Bounds.** Three inputs give every non-trivial split of a path condition, and a
further split of one side (z set on one input, `r0` equal to 4 on another). Four
instructions hold a fork in each side of a fork, a loop, a call with its return
and a guarded instruction at every place, the first and the last included.
`LoopLimit` is 2 in place of the code's value: a jump is taken, taken again, and
broken. In `Lockstep` it is 1: the names z3 may print double the ways out of
every indirect branch, and a jump that is taken and then broken is what its
properties tell apart. `HexThreshold` is 3 where capstone has 9, so that four
instructions have addresses on both sides of it: a branch to 0 cannot be read, one to
4 or 8 can. In the claims it is 9 and branches go to 12. In `Session` it is 9 too: a
direct branch to 0 cannot be read (`BranchFails`), one to 12 leads out of the call,
and the loops of a call come from indirect branches.
`PcFloor` is 0 instead of 1000, so that the programs' addresses lie above
it; `RandVals` holds a value that is an address and one that is not. In M7 a path
condition is never dropped. The values of `r0` and `lr` in `Lockstep` are
addresses of the program on some inputs and not on others, so that indirect
branches find a destination and miss it.

In `Alu`, W is 4 where the code has 32: the operators are uniform in the width,
and the inputs hold the values at which they change their behaviour (0, 1, the
greatest and the least signed word, -1) in every combination. Three instructions
are a value that leaves its halves split, its use, and the comparison on it. In
`Session`, three calls are one that leaves something behind, one that uses or
hides it, and a third that meets both. In `Parser`, four words hold a branch over
a gap in both directions; a mnemonic is taken apart without regard to its
neighbours, so only the first word needs all of them.

**Fairness.** `FairSpec` adds `WF_vars(Next)`: one thread which does nothing but
execute, and waits only for z3, which runs under `-T:1`. No fairness on single
actions is assumed; which one is taken is the program's choice, or the solver's.
In `Session` the fairness is `WF_vars(Frame)` alone: a call that has begun runs
on, and nothing obliges the caller to make another.
`CHECK_DEADLOCK FALSE` is set because a finished search, a decoded input, and a
session or an instruction sequence at its bound have no next step.

## 4. Proofs

`ExplorerProofs` holds for every program, variation, loop limit, set of inputs,
value of `BinParser.end` and behaviour of the solver. Its assumptions are
`ConstantsAssumption` (the constants have their types, and the null value is
none of the values) and `ProgramsAssumption` (a program is finite, it has an
instruction at address 0 and its instructions have their operands), which TLC
evaluates too.

The inductive invariant is

    IndInv == TypeOK /\ PendingFeasible /\ RollbackSafe /\ ExitExhausted

* `TypeOK` alone is not inductive in `label \in DOMAIN nodes`: a frame must be
  left with no destination (`phase = "exec" => jumpTo = NoLabel`) and only labels
  of the program are entered.
* `PendingFeasible` needs the types of `envStack`, and that an answer of
  `checkSAT` is given for a non-empty set only.
* `RollbackSafe` needs `NodesOK`: a *conditional* branch sits at a plain address,
  since `expand` puts only unconditional nodes at suffixed labels. So the false
  model, the only one that can remain on the stack, is labelled with a plain
  address of at least 4. The true model may have a suffix, but `decideToJump` pops
  it at once.
* `ExitExhausted` needs `RollbackSafe`: `gg` is also called for a negative
  address while branches are pending, and never gets there.

The proof has one lemma per action (`BranchStep`, `ThrowsStep`, `DataStep`,
`PushStep`, `PopStep`, `FollowStep`, ...). What `decideToJump` can do is stated
once (`DecideCases`: follow the true model, follow the false one, roll back, or
exit) and used by `PcJumpDecides`, `DecideKeeps`, `DecideDisjoint` and
`DecideKeepsPending`.

| Theorem | States |
|---|---|
| `InvHolds` | `Spec => []IndInv` |
| `TypeSafe`, `FeasibleSafe`, `RollbackIsSafe`, `ExitIsExhausted` | its four parts |
| `DisjointSafe` | `Spec => []PendingDisjoint` when conditions are never dropped |
| `NothingIsDropped` | `Spec => NothingDropped` |
| `DotIsComplete`, `CfgIsConnected` | `Spec => []DotComplete`, `Spec => []CfgConnected` |
| `ResumedWhenStuck` | `Spec => ResumesWhenStuck` |
| `SearchProgresses` (in `TerminationProofs`) | `Spec => Progresses` |

`DisjointSafe` assumes `~CondTooLong`: the condition that `Executor.java:589` and
`:872` replace by the empty one makes the current path overlap what is pending.

`ResumedWhenStuck` rests on `OneSide`: the conditions of the two sides of a branch
are complementary in a path condition that is not empty (`PendingFeasible`), so a
solver that answers accepts one of them, and `decideToJump` has a model to follow.
It then pops what it has just pushed, and the stack does not get shorter.

`TerminationProofs` has the safety part of termination. What the search may still
spend is ordered lexicographically: the jumps that each pair of labels has left
under the loop limit, then the labels ahead of the current one, then the rest of
the frame. `Budget` makes one natural number of the three,

    |jumps| * 3 * |labels| + 3 * |ahead| + frame,

and `BudgetProofs` shows that it gets smaller when a jump is used up
(`JumpSpends`), when the search moves ahead (`MoveSpends`) and within a frame
(`FrameSpends`). In `Explorer` a rollback is a jump like any other: it goes through
`TakeJump`, which counts it, or is broken off, and a search that falls through to
the next label moves ahead. The budget is finite because a program is, which is
the one assumption added (`ExpandFinite`: `expand` keeps it so). That a number which
every step lowers ends a behaviour, and that a fair one gets to its end, is the
temporal step that stays with TLC, as `Terminates`.

`WorklistProofs` shows that `Explorer` implements `Worklist`
(`WorklistImplemented`, under `~CondTooLong` for the same reason): the initial
states map to initial states, and each action to a step or a stutter, one lemma
per action over the cases of `DecideCases`. A `Fork` must have two feasible,
disjoint sides, which comes from `PendingFeasible` and from the complementary
conditions `PosCond` and `NegCond`; a `Finish` needs `ExitExhausted`.
`NoBranchIsLost` proves `NoBranchLost` for every program: a direct branch has a
destination, the fall-through has one because a conditional branch has a plain
label, and a solver that answers refuses only an empty side.

`SessionProofs` holds for sessions of any number of calls, from
`SessionAssumption` (the words are a mov, a branch or undecodable, and the
constants have their types). Its invariant `SessionInv` adds to `FreshResult` and
`OwnCondition` that every branch on `envStack` is labelled with the end of the
code; that the index knows only the four labels of a call, the end among them
once a call runs, and never `0-2` without `0+2` (`IndexOK`); and, inside a call,
that only the branch at label 0 is conditional and the condition in force belongs
to the call unless a branch of it was refused (`FrameOK`). `FreshResult` needs
`IndexOK`: the way out of `execFrom` that leaves `returnEnv` alone is taken when
the next label is unknown, and with a closed index there is no such label.
`LeftAtEnd` (theorem `LeftWaitAtEnd`) and `OwnCondition` (`ConditionIsOwn`) rest
on what `decideToJump` can do, stated once (`DecideCases`).

`CallRunsItsInstruction` proves `OwnInstruction` from a second invariant,
`OwnInv`, on top of the first: where a stale index can point (`PlacesOK`: `0-2` is
always first and `0+2` third, and label 0 is first until a conditional call has
come), that the node list is the parsed word of the call, and, inside a call the
property judges, what has run when the frame is at a label (`OwnFrame`).

`CallsProgress` proves `CallProgresses` with the same `Budget`. The labels of a frame
and of the node it executes may differ here, since the index may be an earlier
call's; but by `SessionInv` and `OwnInv` both are among the four labels of a call,
and so is every destination, so a jump is counted against a pair of these and a
fall-through goes ahead among them.

`ParserProofs` holds for code of any length. `TargetsResolve` compares nodes with
each other, so it is not inductive: `ParserInv` adds that the labels of any two
nodes, and of a node and the loop itself, are in step (`NodesInStep`,
`LoopInStep`), in `parse` if and only if there is no gap between them.

A destination that is a name is covered by the same proofs. `NameIsNoPlace` says that
it is no label of a program: `expand` produces none, so the jump is never taken, and
`RollbackSafe` holds because a true model is popped at once. A branch that
cannot be read changes neither path condition nor stack (`IgnoredStep`,
`OverflowStep`, and `FailsStep` in `SessionProofs`).

`LockstepProofs` holds for every program, variation, set of inputs and behaviour
of the solver, from the assumptions of `ExplorerProofs` and `OperandsAssumption`
(capstone prints the destination of a direct branch as an address, and a register
list names each register once). `PathSound` is not inductive: between two
frames the destination is in `jumpTo`, a value goes through the stack before it
is in a register again, and a core that waits must not be one that runs.
`LockInv` therefore has five parts: `OnPath` (registers outside `doubted`, flag,
stack and place of the core, in both halves of a frame), `PendingSound`,
`RunningApart` (the inputs of a pending branch are not on the path, unless they
are astray), `LiteralsConstant` (a literal is the same on all inputs, since the
jump of pop reads its concrete half), and `HistoryOK`. The
proof goes through the instruction kinds, and for a branch through the cases of
`DecideCases`; `RunningApart` replaces `PendingDisjoint`, so that the theorems need
no assumption on `CondTooLong`.

| Theorem | States |
|---|---|
| `LockInvHolds` | `LockstepSpec => [](IndInv /\ LockInv)` |
| `PathIsSound`, `PendingIsSound` | `PathSound` and `PendingSound`, always |
| `IndirectIsFollowed` | `LockstepSpec => IndirectFollowed` |

The attempt corrected the model: the first form of `Doubt` trusted `lr` after an
unhandled `blx` and after a conditional `bl`, which the programs of the run did not
contain. The step of those instructions could not be proved; the run has them now.

`AluProofs` holds for every width that is a multiple of four, every set of inputs
with the all-zero one, every set of instructions and any number of steps.
`AluAssumption` types the constants and bounds an immediate shift by W.
`WordsAssumption` is arithmetic that TLAPS has no theory of: `2^k * 2^(W-k) = 2^W`,
and that the sums of bits in `And` and `DigitsAsHex` are words; TLC evaluates it
for the width of the run. The invariant `AluInv` has

* `Related`: every register is a bit vector of words whose halves agree unless it is
  split, and whose formula is `Exact` on the inputs not in doubt; the cores hold
  words. `FormulaExact` alone is not inductive: the formula's `bvlshr` equals ARM's
  asr and ror only on words in range, and a subtraction equals the adder's
  complement only there;
* `FlagsExact` and `SignedOrder` themselves, with the domain of the flags.

Below it are three layers of lemmas: on words (remainders, the shifts, rotation,
`SubtractByAdding`, `SignedDifference`), on bit vectors (`Combined`: the constructor
keeps the halves together and the formula exact if the operator does; then one
lemma per operator), and on instructions (`OperandExact`, `ResultExact`,
`WrittenExact`, beside `ArmResultVal` and `ArmExecStep` for the core).

| Theorem | States |
|---|---|
| `AluInvHolds` | `Spec => []AluInv` |
| `FormulasAreExact`, `HalvesDoAgree` | `FormulaExact` and `HalvesAgree`, always |
| `FlagsAreExact`, `ConditionsOrder` | `FlagsExact` and `SignedOrder`, always |
| `FaithfulFormulasHold`, `FaithfulHalvesHold` | `FaithfulFormulas` and `FaithfulHalves`, always |

The last two need a second invariant, `GoodInv`: as long as only faithful instructions
were executed, no register and no flag is marked as doubtful or ill-formed, nor as
split if nothing was shifted to the right. It turns the conditional statements of
`AluInv`, whose exceptions are marks on values, into one about the instructions of a
program.

Only model-checked: `Terminates` and `EveryCallEnds` (liveness under fairness is
beyond the prover; `Progresses` and `CallProgresses`, from which they follow, are
proved); `NeverMistaken` and `ReadUnlessLost`, which cut mnemonics up
letter by letter (strings are atoms to the provers); and the four claims, which
are refuted on an instance.

## 5. Not modelled

* The data-processing methods of M0 and M0+, which are written differently, with
  shifts by a register and the 64-bit products of the other variations.
* Stores, and the addresses of loads: `Memory.get` returns null whatever the
  address is, so nothing stored is ever read.
* The instruction methods of the cortex classes that no handler of `singleExec`
  calls (most of the 800), and `BinParser.parseObjDump`, which nothing calls.
* The register objects that copies of an `Environment` share: an environment is
  an identity in `Session`.
* The text of formulas, listings, logs and Neo4j output: pure output.
* Capstone and ELF bindings, and the C and C++ sources of capstone and z3 under
  `libs/`: third-party or generated.

## 6. Plan

Done, in this order: `Program`, `Explorer`, the claims, the invariant and its
proof; `Worklist` and its refinement proof; `Lockstep`, `Alu`, `Parser`; `Session`
and its invariant; the invariants of `Parser`, `Lockstep` and `Alu` and the rest of
`Session`; the budgets of `Explorer` and `Session`, `ResumesWhenStuck`, and the
exactness of programs of faithful instructions. Every invariant and action property of a passing
run but the two on mnemonics has a theorem. What is left:

1. The data processing of M0 and M0+, as a second instance of the operators of `Alu`.
2. `Environment` with its register objects, to say which results of `byteExecute`
   share them.
