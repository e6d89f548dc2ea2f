------------------------------- MODULE Explorer -------------------------------
(***************************************************************************)
(* Corana's dynamic symbolic execution loop (executor/Executor.java) with  *)
(* the parts of the emulator, of the SMT interface and of the exporter it  *)
(* drives.  One recursive call of execFrom is one frame; a frame is two    *)
(* steps here: singleExec (phase "exec"), which leaves a destination in    *)
(* jumpTo, and the rest of execFrom (phase "follow"), which moves to the   *)
(* next label.                                                             *)
(*                                                                         *)
(* Formulas are kept by their meaning.  The symbolic variables (the        *)
(* registers and flags on entry) range over Inputs, one element per        *)
(* assignment: a path condition is the set of inputs that satisfy it, ""   *)
(* is Inputs, a bitvector formula is a function on Inputs.                 *)
(***************************************************************************)
EXTENDS Program, Budget

CONSTANTS
    Inputs,       \* assignments to the symbolic variables
    Zero,         \* the assignment the concrete half of the state follows
    InitReg,      \* the formula each register starts with
    InitZ,        \* the inputs whose Z flag is set on entry
    Programs,     \* the programs to explore: functions from addresses
    Core,         \* the variation given on the command line
    LoopLimit,    \* loopLimitation
    Ends,         \* values of BinParser.end: -1 (execute), 4 (byteExecute)
    PcFloor,      \* 1000, the least value a pop into pc may jump above
    HexThreshold, \* 9, the greatest address capstone prints in decimal
    RandVals,     \* what BitVec.rand may return
    SolverFails,  \* may Z3 time out (-T:1) or fail on a satisfiable formula?
    CondTooLong,  \* may a path condition outgrow 5000 characters?
    Null          \* the null BitVec

Cores == {"M0", "M0_PLUS", "M3", "M4", "M7", "M33"}

Values == [kind : {"literal", "formula", "SYM"}, sym : [Inputs -> Nat]]

ASSUME ConstantsAssumption ==
    /\ Zero \in Inputs
    /\ InitReg \in [Regs -> [Inputs -> Nat]]
    /\ \A r \in Regs : InitReg[r][Zero] = 0
    /\ InitZ \subseteq Inputs \ {Zero}
    /\ Core \in Cores
    /\ LoopLimit \in Nat
    /\ Ends \subseteq Int
    /\ PcFloor \in Nat /\ HexThreshold \in Nat
    /\ RandVals \subseteq Nat /\ RandVals # {}
    /\ SolverFails \in BOOLEAN /\ CondTooLong \in BOOLEAN
    /\ Null \notin Values

(***************************************************************************)
(* Every program is a function from a finite set of addresses that holds   *)
(* 0, and its instructions have their operands: rd for mov, rn for cmp, rd *)
(* and rn for ldr, the register of an indirect branch, and lists for push  *)
(* and pop in which, registers being in order, only the last may be pc.    *)
(***************************************************************************)
WellFormed(n) ==
    /\ n.op \in {"mov", "cmp"} => Len(n.regs) = 1 /\ n.regs[1] \in Regs
    /\ n.op = "ldr" => Len(n.regs) = 2 /\ n.regs[2] \in Regs
    /\ n.op \in BranchOps /\ n.target = NoLabel
         => Len(n.regs) = 1 /\ n.regs[1] \in Regs
    /\ n.op = "push" => n.regs \in Seq(Regs)
    /\ n.op = "pop" => n.regs # << >>

ASSUME ProgramsAssumption ==
    \A code \in Programs :
        /\ 0 \in DOMAIN code /\ DOMAIN code \subseteq Nat
        /\ IsFiniteSet(DOMAIN code)
        /\ \A a \in DOMAIN code :
              /\ code[a] \in Instructions
              /\ WellFormed(code[a])

(***************************************************************************)
(* What distinguishes the six copies of singleExec: the branch opcodes     *)
(* they know, the address bl leaves in lr, whether the operand of a direct *)
(* branch is used as its destination (and a null pair of models throws),   *)
(* whether the .dot file is written, and, for M0 only, the jump made by a  *)
(* pop into pc.  The blank lines of the five others differ, their          *)
(* statements do not.                                                      *)
(***************************************************************************)
SingleExecM0 == [branches |-> {"b", "bl", "bx", "blx"}, linksNext |-> TRUE,
                 usesTarget |-> FALSE, exportsDot |-> FALSE,
                 popJumps |-> TRUE, pushReversed |-> TRUE]

SingleExecM0_PLUS == [branches |-> {"b", "bl", "bx"}, linksNext |-> FALSE,
                      usesTarget |-> TRUE, exportsDot |-> TRUE,
                      popJumps |-> FALSE, pushReversed |-> FALSE]

SingleExecM3 == [branches |-> {"b", "bl", "bx"}, linksNext |-> FALSE,
                 usesTarget |-> TRUE, exportsDot |-> TRUE,
                 popJumps |-> FALSE, pushReversed |-> FALSE]

SingleExecM4 == [branches |-> {"b", "bl", "bx"}, linksNext |-> FALSE,
                 usesTarget |-> TRUE, exportsDot |-> TRUE,
                 popJumps |-> FALSE, pushReversed |-> FALSE]

SingleExecM7 == [branches |-> {"b", "bl", "bx"}, linksNext |-> FALSE,
                 usesTarget |-> TRUE, exportsDot |-> TRUE,
                 popJumps |-> FALSE, pushReversed |-> FALSE]

SingleExecM33 == [branches |-> {"b", "bl", "bx"}, linksNext |-> FALSE,
                  usesTarget |-> TRUE, exportsDot |-> TRUE,
                  popJumps |-> FALSE, pushReversed |-> FALSE]

\* execFrom's choice of singleExec by the class of the emulator.
Variant == CASE Core = "M0" -> SingleExecM0
             [] Core = "M0_PLUS" -> SingleExecM0_PLUS
             [] Core = "M3" -> SingleExecM3
             [] Core = "M4" -> SingleExecM4
             [] Core = "M7" -> SingleExecM7
             [] Core = "M33" -> SingleExecM33

VARIABLES
    nodes,      \* asmNodes with nodeLabelToIndex: the expanded program
    end,        \* BinParser.end
    phase,      \* "exec", "follow", "returned" (execFrom is over), "exited" (gg)
    label,      \* the label of the current frame
    jumpTo,     \* the destination singleExec found, or NoLabel
    pathCond,   \* the path condition of recentPop, Inputs when there is none
    envStack,   \* branches still to explore
    known,      \* keys of labelToEnvModel
    regs,       \* env.register: values, or Null after a load
    zero,       \* env.flags.Z: the inputs that set it, and is it declared?
    stacks,     \* env.stacks
    counts,     \* countJumpedPair
    savedGraph, \* edges handed to Exporter.add
    dot         \* edges in the .dot file

program == <<nodes, end>>
env == <<regs, zero, stacks>>
search == <<pathCond, envStack, known>>
graph == <<counts, savedGraph>>
vars == <<program, phase, label, jumpTo, search, env, graph, dot>>

Models == [label : Labels, pathCondition : SUBSET Inputs, known : SUBSET Labels]

\* execute and byteExecute: the static fields when the first execFrom is called.
InitWith(code) ==
    /\ nodes = expand(code)
    /\ label = firstLabel(code)
    /\ end \in Ends
    /\ phase = "exec"
    /\ jumpTo = NoLabel
    /\ pathCond = Inputs
    /\ envStack = << >>
    /\ known = {}      \* genesis, "-", is never a destination
    /\ regs = [r \in Regs |-> [kind |-> "formula", sym |-> InitReg[r]]]
    /\ zero = [set |-> InitZ, declared |-> TRUE]
    /\ stacks = << >>
    /\ counts = << >>
    /\ savedGraph = {}
    /\ dot = {}

Init == \E code \in Programs : InitWith(code)

-----------------------------------------------------------------------------
(***************************************************************************)
(* The emulator                                                            *)
(***************************************************************************)
Literal(n) == [kind |-> "literal", sym |-> [i \in Inputs |-> n]]

\* getVal: the concrete half of a BitVec, the value on the all-zero input.
Concrete(v) == v.sym[Zero]

\* getCondSuffixSMT, for a condition on Z.
Holds(cond) == IF cond = "eq" THEN zero.set ELSE Inputs \ zero.set

PosCond(cond) == IF cond = "" THEN pathCond ELSE pathCond \cap Holds(cond)
\* Mutant: the negation of the condition is forgotten.
NegCondWithoutNot(cond) == IF cond = "" THEN {} ELSE pathCond
NegCond(cond) == IF cond = "" THEN {} ELSE pathCond \ Holds(cond)

(***************************************************************************)
(* Z3Solver.checkSAT: the answers it may give, TRUE for a raw result and   *)
(* FALSE for null.  The script declares the registers and flags; a formula *)
(* on any other name ("r0_SYM") makes z3 fail, which reads as null.        *)
(***************************************************************************)
\* Mutant: any output of z3 is taken for a model.
checkSATUnread(set, declared) == {declared}

checkSAT(set, declared) ==
    {a \in BOOLEAN : IF a THEN declared /\ set # {}
                          ELSE ~declared \/ set = {} \/ SolverFails}

\* Without a condition there is no query: the true model always exists and
\* the false one never does.
PosAnswers(cond, declared) ==
    IF cond = "" THEN {TRUE} ELSE checkSAT(PosCond(cond), declared)
NegAnswers(cond, declared) ==
    IF cond = "" THEN {FALSE} ELSE checkSAT(NegCond(cond), declared)

-----------------------------------------------------------------------------
(***************************************************************************)
(* Steps of a frame                                                        *)
(***************************************************************************)
\* Mutant: the file is written by the branch handlers only.
exportDotAtBranch ==
    dot' = IF Variant.exportsDot /\ nodes[label].op \in BranchOps
             THEN savedGraph ELSE dot

\* Exporter.exportDot, at the head of singleExec.
exportDot == dot' = IF Variant.exportsDot THEN savedGraph ELSE dot

\* The exception handler of execFrom; the frames above only return.
Throw ==
    /\ phase' = "returned"
    /\ UNCHANGED <<program, label, jumpTo, pathCond, envStack, graph>>

\* A frame that ends, by `return' or an exception, before it changed anything.
Return == Throw /\ UNCHANGED <<known, env>>

\* System.exit, from gg.
gg ==
    /\ phase' = "exited"
    /\ UNCHANGED <<jumpTo, search>>

Instr == nodes[label]

\* A singleExec that ran to its end without looking for a destination.
NoJump ==
    /\ phase' = "follow"
    /\ UNCHANGED <<program, label, jumpTo, search, graph>>

(***************************************************************************)
(* decideToJump: push the false model, then the true model, each with a    *)
(* clone of labelToEnvModel; pop the one to follow.  A model without a     *)
(* label is not pushed.  Following neither of the two is a rollback, which *)
(* first parses the label before the destination.                          *)
(***************************************************************************)
Pushed(model, map) ==
    IF model.label \in map
      THEN <<[label |-> model.label, pathCondition |-> model.pathCondition,
              known |-> map]>>
      ELSE << >>

Top(s) == s[Len(s)]

Below(s) == SubSeq(s, 1, Len(s) - 1)

Pop(stack, modelTrue, modelFalse) ==
    LET top == Top(stack)
        rollback == top.label \notin {modelTrue.label, modelFalse.label}
    IN  IF stack = << >> THEN gg
        ELSE /\ jumpTo' = top.label
             /\ pathCond' = top.pathCondition
             /\ envStack' = Below(stack)
             /\ known' = top.known
             /\ phase' = IF ~rollback THEN "follow"
                         ELSE IF ~HasPrev(top.label) THEN "returned"
                         ELSE IF prevAddress(top.label) < 0 THEN "exited"
                         ELSE "follow"

\* Mutant: the true model is pushed first.
decideToJumpTrueFirst(modelTrue, modelFalse, map) ==
    Pop(envStack \o Pushed(modelTrue, map) \o Pushed(modelFalse, map),
        modelTrue, modelFalse)

\* Mutant: the search exits when neither model can be followed.
decideToJumpNoRollback(modelTrue, modelFalse, map) ==
    LET pushed == Pushed(modelFalse, map) \o Pushed(modelTrue, map)
    IN  IF pushed = << >> THEN gg
                          ELSE Pop(envStack \o pushed, modelTrue, modelFalse)

\* Mutant: a rollback discards the last pending branch and follows the one below.
decideToJumpPopsTwice(modelTrue, modelFalse, map) ==
    LET pushed == Pushed(modelFalse, map) \o Pushed(modelTrue, map)
    IN  Pop(IF pushed = << >> THEN Below(envStack) ELSE envStack \o pushed,
            modelTrue, modelFalse)

\* Mutant: the false model is only pushed when there is no true one.
decideToJumpEither(modelTrue, modelFalse, map) ==
    LET true == Pushed(modelTrue, map)
    IN  Pop(envStack \o (IF true # << >> THEN true ELSE Pushed(modelFalse, map)),
            modelTrue, modelFalse)

decideToJump(modelTrue, modelFalse, map) ==
    Pop(envStack \o Pushed(modelFalse, map) \o Pushed(modelTrue, map),
        modelTrue, modelFalse)

NoModel == [label |-> NoLabel, pathCondition |-> {}]

\* The copy of decideToJump that only pushes the true model.
pcJump(modelTrue, map) ==
    Pop(envStack \o Pushed(modelTrue, map), modelTrue, NoModel)

\* Mutant: the models are not put into the map before they are pushed.
PutOwn(labels) == known \cup {label}

\* labelToEnvModel after the puts of a branch; null labels are not put.
Put(labels) == known \cup (labels \ {NoLabel})

(***************************************************************************)
(* b, bl, bx, blx.  bl writes lr first.  A direct branch goes to its       *)
(* operand (not in M0).  A conditional indirect one goes where Z3's (eval  *)
(* reg) says: the value of the register in the model found or, when the    *)
(* query does not constrain the register, its name, since z3 completes no  *)
(* model.  Which registers a formula mentions is not in its meaning, so    *)
(* either may come for a formula; a literal has a value.  An unconditional *)
(* one goes to the concrete value of lr, whatever its register, if that is *)
(* a non-zero multiple of four, and nowhere otherwise.                     *)
(*                                                                         *)
(* An address that capstone prints in decimal is neither an address nor a  *)
(* register to singleExec: the emulator returns no models.                 *)
(***************************************************************************)
Link == IF Variant.linksNext THEN nextInst(label).at ELSE label.at

Linked == IF Instr.op \in {"bl", "blx"}
            THEN [regs EXCEPT !["lr"] = Literal(Link)] ELSE regs

Direct == Instr.target # NoLabel

Unreadable == Direct /\ ~isConcreteLabel(label, Instr.target, HexThreshold)

ViaModel == ~Direct /\ Instr.cond # ""

ViaTarget == Direct /\ Variant.usesTarget

DestinationOfLr ==
    LET a == Concrete(Linked["lr"])
    IN  IF a # 0 /\ a % InstructionSize = 0 THEN Plain(a) ELSE NoLabel

Operand == Linked[Instr.regs[1]]

\* Mutant: a conditional indirect branch goes to the concrete half of its register.
DestinationsConcrete ==
    IF ViaTarget THEN {Instr.target}
    ELSE IF ViaModel THEN {Plain(Concrete(Operand))}
    ELSE {DestinationOfLr}

Destinations ==
    IF ViaTarget THEN {Instr.target}
    ELSE IF ViaModel THEN {Plain(Operand.sym[i]) : i \in PosCond(Instr.cond)}
                            \cup (IF Operand.kind = "formula" THEN {Unevaluated} ELSE {})
    ELSE {DestinationOfLr}

\* Is the query free of undeclared names?  The destination is part of it.
Declared == zero.declared /\ (ViaModel => Operand.kind # "SYM")

\* A null register: val(r) throws, and so does getVal on lr.
OperandIsNull == ~Direct /\ Operand = Null
LrIsNull == ~ViaTarget /\ ~ViaModel /\ Linked["lr"] = Null

ExecBranch ==
    /\ phase = "exec" /\ label # Plain(end)
    /\ Instr.op \in Variant.branches
    /\ exportDot
    /\ ~OperandIsNull /\ ~Unreadable
    /\ \E pos \in PosAnswers(Instr.cond, Declared),
          neg \in NegAnswers(Instr.cond, Declared) :
         /\ ~(pos /\ LrIsNull)
         /\ \E dest \in IF pos THEN Destinations ELSE {NoLabel} :
              LET next == IF neg THEN nextInst(label) ELSE NoLabel
              IN  decideToJump(
                    [label |-> dest, pathCondition |-> PosCond(Instr.cond)],
                    [label |-> next, pathCondition |-> NegCond(Instr.cond)],
                    Put({label, dest, next}))
    /\ regs' = Linked
    /\ UNCHANGED <<program, label, zero, stacks, graph>>

\* M0 returns when there are no models; the handler then ends without a jump.
BranchIgnored ==
    /\ phase = "exec" /\ label # Plain(end)
    /\ Instr.op \in Variant.branches
    /\ Unreadable /\ ~Variant.usesTarget
    /\ exportDot
    /\ phase' = "follow"
    /\ known' = Put({label})
    /\ regs' = Linked
    /\ UNCHANGED <<program, label, jumpTo, pathCond, envStack, zero, stacks, graph>>

BranchThrows ==
    /\ phase = "exec" /\ label # Plain(end)
    /\ Instr.op \in Variant.branches
    /\ \/ OperandIsNull
       \/ Unreadable /\ Variant.usesTarget
       \/ ~Unreadable /\ LrIsNull /\ TRUE \in PosAnswers(Instr.cond, Declared)
    /\ exportDot
    /\ Throw
    /\ known' = Put({label})
    /\ regs' = Linked
    /\ UNCHANGED <<zero, stacks>>

(***************************************************************************)
(* The other instructions.  mov and cmp stand for the data-processing      *)
(* handlers, which write one register, or the flags, from a formula.       *)
(***************************************************************************)
Executes(op) == phase = "exec" /\ label # Plain(end) /\ Instr.op = op

ExecMov ==
    /\ Executes("mov")
    /\ exportDot
    /\ regs' = [regs EXCEPT ![Instr.regs[1]] = Literal(Instr.num)]
    /\ NoJump
    /\ UNCHANGED <<zero, stacks>>

\* cmp updates Z with (= (bvsub rn #num) 0).
ExecCmp ==
    /\ Executes("cmp")
    /\ exportDot
    /\ LET v == regs[Instr.regs[1]]
       IN  IF v = Null THEN Return
           ELSE /\ zero' = [set |-> {i \in Inputs : v.sym[i] = Instr.num},
                            declared |-> v.kind # "SYM"]
                /\ NoJump
                /\ UNCHANGED <<regs, stacks>>

\* Memory.get is a stub that returns null, which ldr writes to its register;
\* M0 then reads the pc it has just loaded.
ExecLdr ==
    /\ Executes("ldr")
    /\ exportDot
    /\ IF \/ regs[Instr.regs[2]] = Null
          \/ Instr.regs[1] = "pc" /\ Variant.popJumps
         THEN Return
       ELSE /\ regs' = [r \in Regs |-> IF r = Instr.regs[1] THEN Null ELSE regs[r]]
            /\ NoJump
            /\ UNCHANGED <<zero, stacks>>

\* ldrb and ldrh extend the null they load.
ExecLdrb ==
    /\ Executes("ldrb")
    /\ exportDot
    /\ Return

\* nop, svc, stores, and every opcode no handler matches.
ExecNop ==
    /\ phase = "exec" /\ label # Plain(end)
    /\ Instr.op = "nop" \/ Instr.op \in BranchOps \ Variant.branches
    /\ exportDot
    /\ NoJump
    /\ UNCHANGED env

\* The registers in the order they are pushed.
PushOrder == LET n == Len(Instr.regs)
             IN  [k \in DOMAIN Instr.regs |-> Instr.regs[IF Variant.pushReversed
                                              THEN n - k + 1 ELSE k]]

\* n registers are pushed: all of them, or those before the first null.
ExecPush ==
    /\ Executes("push")
    /\ exportDot
    /\ \E n \in 0..Len(Instr.regs) :
         /\ \A k \in 1..n : regs[PushOrder[k]] # Null
         /\ stacks' = stacks \o [k \in 1..n |-> regs[PushOrder[k]]]
         /\ \/ n = Len(Instr.regs) /\ NoJump
            \/ /\ n < Len(Instr.regs) /\ regs[PushOrder[n + 1]] = Null
               /\ Throw /\ known' = known
    /\ UNCHANGED <<regs, zero>>

(***************************************************************************)
(* pop.  An empty stack yields "r0_SYM" with a random concrete half; a     *)
(* popped "SYM" formula is replaced by the null that memory returns.       *)
(***************************************************************************)
\* Mutant: the values are taken from the other end of the stack.
PoppedFromBottom(k, rand) ==
    IF k > Len(stacks) THEN [kind |-> "SYM", sym |-> [i \in Inputs |-> rand[k]]]
    ELSE IF stacks[k].kind = "SYM" THEN Null ELSE stacks[k]

Popped(k, rand) ==
    IF k > Len(stacks) THEN [kind |-> "SYM", sym |-> [i \in Inputs |-> rand[k]]]
    ELSE LET v == stacks[Len(stacks) - k + 1]
         IN  IF v.kind = "SYM" THEN Null ELSE v

PopRegs(rand) ==
    [r \in Regs |-> IF \E k \in DOMAIN Instr.regs : Instr.regs[k] = r
                      THEN Popped(CHOOSE k \in DOMAIN Instr.regs :
                                        Instr.regs[k] = r, rand)
                      ELSE regs[r]]

PopStacks == SubSeq(stacks, 1, Len(stacks) - Len(Instr.regs))

PopsPc == Variant.popJumps /\ Top(Instr.regs) = "pc"

\* The register list ends with pc in M0, and hexToInt of the value popped into
\* it: "SYM" reads -1, any other formula and null throw.
ExecPop ==
    /\ Executes("pop")
    /\ exportDot
    /\ \E rand \in [DOMAIN Instr.regs -> RandVals] :
         LET pc == Popped(Len(Instr.regs), rand)
             jumps == PopsPc /\ pc # Null /\ pc.kind = "literal"
                             /\ Concrete(pc) > PcFloor
             throws == PopsPc /\ (pc # Null => pc.kind = "formula")
         IN  /\ regs' = PopRegs(rand)
             /\ stacks' = PopStacks
             /\ \/ throws /\ Throw /\ known' = known
                \/ ~throws /\ ~jumps /\ NoJump
                \/ /\ jumps
                   /\ \E pre \in IF CondTooLong THEN {pathCond, Inputs} ELSE {pathCond} :
                        pcJump([label |-> Plain(Concrete(pc)), pathCondition |-> pre],
                               Put({label, Plain(Concrete(pc))}))
                   /\ UNCHANGED <<program, label, graph>>
             /\ UNCHANGED zero

-----------------------------------------------------------------------------
(***************************************************************************)
(* The rest of execFrom                                                    *)
(***************************************************************************)
\* The frame stops at BinParser.end.
ReachEnd ==
    /\ phase = "exec" /\ label = Plain(end)
    /\ Return /\ UNCHANGED dot

\* What a branch may have put into labelToEnvModel when the map is cloned, or before.
Queried == ~OperandIsNull /\ ~Unreadable

DestinationsPut == {NoLabel} \cup
    IF Queried /\ ~LrIsNull /\ TRUE \in PosAnswers(Instr.cond, Declared)
      THEN Destinations ELSE {}

NextsPut == {NoLabel} \cup
    IF Queried /\ TRUE \in NegAnswers(Instr.cond, Declared) THEN {nextInst(label)} ELSE {}

\* One Java frame per instruction executed: the stack may run out in any.  The
\* deepest calls of a frame are those of its head, which prints the instruction and
\* sorts the edges before it opens the file, and those of a branch, which starts z3
\* and clones labelToEnvModel before it pushes anything.
StackOverflow ==
    /\ phase = "exec" /\ label # Plain(end)
    /\ \/ Return /\ UNCHANGED dot
       \/ /\ Instr.op \in Variant.branches
          /\ exportDot
          /\ Throw
          /\ \E dest \in DestinationsPut, next \in NextsPut :
               known' = Put({label, dest, next})
          /\ regs' = Linked
          /\ UNCHANGED <<zero, stacks>>

CountOf(pair) == IF pair \in DOMAIN counts THEN counts[pair] ELSE 0

\* Mutant: the map is put to 1 at every jump.
CountedOnce(pair) == [p \in DOMAIN counts \cup {pair} |->
                        IF p = pair THEN 1 ELSE counts[p]]

Counted(pair) == [p \in DOMAIN counts \cup {pair} |->
                    IF p = pair THEN CountOf(pair) + 1 ELSE counts[p]]

\* Mutant: jumpTo is not reset before the next frame.
EnterWithJumpTo(next) ==
    /\ savedGraph' = savedGraph \cup {<<label, next>>}
    /\ label' = next
    /\ jumpTo' = jumpTo
    /\ phase' = "exec"

\* Mutant: the edge is written from its destination to its source.
EnterReversed(next) ==
    /\ savedGraph' = savedGraph \cup {<<next, label>>}
    /\ label' = next
    /\ jumpTo' = NoLabel
    /\ phase' = "exec"

Enter(next) ==
    /\ savedGraph' = savedGraph \cup {<<label, next>>}
    /\ label' = next
    /\ jumpTo' = NoLabel
    /\ phase' = "exec"

Exists == jumpTo # NoLabel /\ jumpTo \in DOMAIN nodes

TakeJump ==
    /\ phase = "follow" /\ Exists
    /\ CountOf(<<label, jumpTo>>) + 1 <= LoopLimit
    /\ counts' = Counted(<<label, jumpTo>>)
    /\ Enter(jumpTo)
    /\ UNCHANGED <<program, search, env, dot>>

\* isFault: go on at the next instruction, or return when there is none or
\* its label cannot be parsed.
FallThrough ==
    IF HasNext(label) /\ nextInst(label) \in DOMAIN nodes
      THEN Enter(nextInst(label)) /\ UNCHANGED <<program, search, env, dot>>
      ELSE /\ phase' = "returned"
           /\ jumpTo' = NoLabel
           /\ UNCHANGED <<program, label, search, env, savedGraph, dot>>

\* No destination, or one that is not in the program.
Continue ==
    /\ phase = "follow" /\ ~Exists
    /\ counts' = counts
    /\ FallThrough

\* "Loop limitation exceeded, break."
BreakLoop ==
    /\ phase = "follow" /\ Exists
    /\ CountOf(<<label, jumpTo>>) + 1 > LoopLimit
    /\ counts' = Counted(<<label, jumpTo>>)
    /\ FallThrough

Exec == \/ ExecBranch \/ BranchIgnored \/ BranchThrows \/ ExecMov \/ ExecCmp \/ ExecLdr
        \/ ExecLdrb \/ ExecNop \/ ExecPush \/ ExecPop

Follow == TakeJump \/ Continue \/ BreakLoop

Next == Exec \/ Follow \/ ReachEnd \/ StackOverflow

Spec == Init /\ [][Next]_vars

\* A single thread that only waits for z3, which runs under a time limit.
FairSpec == Spec /\ WF_vars(Next)

-----------------------------------------------------------------------------
(***************************************************************************)
(* Properties                                                              *)
(***************************************************************************)
\* What expand guarantees: operands are in place, no label is a name, and only an
\* instruction with a plain address is a conditional branch.
NodesOK ==
    /\ DOMAIN nodes \subseteq Labels \ {Unevaluated}
    /\ \A l \in DOMAIN nodes :
          /\ nodes[l] \in Instructions /\ WellFormed(nodes[l])
          /\ nodes[l].op \in BranchOps /\ nodes[l].cond # "" => l.suffix = ""

\* The values each variable takes; a destination is only there between
\* singleExec and the end of the frame, and execFrom is only ever called with a
\* label of the program, so the search for a smaller one at its head is idle.
TypeOK ==
    /\ NodesOK
    /\ end \in Int
    /\ label \in DOMAIN nodes
    /\ phase \in {"exec", "follow", "returned", "exited"}
    /\ jumpTo \in Labels \cup {NoLabel}
    /\ phase = "exec" => jumpTo = NoLabel
    /\ pathCond \in SUBSET Inputs
    /\ envStack \in Seq(Models)
    /\ known \in SUBSET Labels
    /\ regs \in [Regs -> Values \cup {Null}]
    /\ zero \in [set : SUBSET Inputs, declared : BOOLEAN]
    /\ stacks \in Seq(Values)
    /\ \A p \in DOMAIN counts : counts[p] \in Nat
    /\ savedGraph \subseteq (Labels \X Labels)

\* No two branches waiting on envStack share an input, and none shares one with
\* the path being executed: decideToJump never explores an input twice.
PendingDisjoint ==
    /\ \A j, k \in DOMAIN envStack :
          j # k => envStack[j].pathCondition \cap envStack[k].pathCondition = {}
    /\ \A k \in DOMAIN envStack : envStack[k].pathCondition \cap pathCond = {}

\* Every branch on envStack, and the path being executed, has an input that
\* follows it: what checkSAT refused is never entered, at once or by a rollback.
PendingFeasible ==
    /\ pathCond # {}
    /\ \A k \in DOMAIN envStack : envStack[k].pathCondition # {}

\* Whatever rollback finds on envStack, prevInst of its label parses and is not
\* negative: the parse in decideToJump neither ends the analysis with an
\* exception nor calls gg with branches left to explore.
RollbackSafe ==
    \A k \in DOMAIN envStack :
        HasPrev(envStack[k].label) /\ prevAddress(envStack[k].label) >= 0

\* System.exit in the middle of the search happens only when nothing is pending.
ExitExhausted == phase = "exited" => envStack = << >>

\* The graph is connected from the first instruction to the current one, and
\* every end of an edge is an instruction of the program.
CfgConnected ==
    LET reached == {e[2] : e \in savedGraph}
        entry == {l \in DOMAIN nodes : l.at = 0 /\ l.suffix \in {"", "-2"}}
    IN  /\ \A e \in savedGraph : e[1] \in entry \cup reached
        /\ reached \subseteq DOMAIN nodes
        /\ label \in entry \cup reached

\* Where the .dot file is written, it lacks at most the edge into the current
\* instruction, and lacks nothing once that instruction has been executed, also
\* when the execution exits the process.
DotComplete ==
    Variant.exportsDot =>
        \A e \in savedGraph \ dot : e[2] = label /\ phase \in {"exec", "returned"}

\* A branch leaves envStack only from the top and only to be followed: no step
\* of the search drops or reorders the others.
NothingDropped ==
    [][\A k \in DOMAIN envStack :
          \/ k \in DOMAIN envStack' /\ envStack'[k] = envStack[k]
          \/ /\ k = Len(envStack) /\ Len(envStack') = k - 1
             /\ jumpTo' = envStack[k].label
             /\ pathCond' = envStack[k].pathCondition]_vars

\* The search as a work list: the current path condition, the path conditions on
\* envStack from the bottom to the top, and whether execFrom is over.
Search == INSTANCE Worklist WITH
    path <- pathCond,
    pending <- [k \in DOMAIN envStack |-> envStack[k].pathCondition],
    status <- IF phase \in {"exec", "follow"} THEN "running" ELSE phase

\* decideToJump and execFrom implement the abstract search: inputs are split into
\* disjoint feasible parts, resumed last in first out, and System.exit ends a
\* search with nothing pending.  (The path condition pcJump may drop is excluded.)
ImplementsWorklist == Search!Spec

\* When the solver answers and the formulas are on declared names, a direct branch
\* loses no input: each is on the path taken next or on envStack.
NoBranchLost ==
    [][~SolverFails /\ zero.declared /\ phase = "exec" /\ Variant.usesTarget
         /\ Instr.op \in BranchOps /\ Instr.target # NoLabel
         => \A i \in pathCond :
               \/ i \in pathCond'
               \/ \E k \in DOMAIN envStack' : i \in envStack'[k].pathCondition]_vars

\* A branch at which the search cannot go on: the solver failed or was given a name
\* it does not know, or the branch goes to lr and lr holds no address.
Stuck ==
    \/ SolverFails \/ ~Declared
    \/ ~ViaTarget /\ ~ViaModel /\ DestinationOfLr = NoLabel

\* A branch on envStack is only taken up again, and the process only exits, at a
\* branch that is stuck: the end of a path, an exception or a refused jump never
\* does it.  So with a solver that answers and direct branches on declared names,
\* the search follows one path, and what it put off stays on envStack.
ResumesWhenStuck ==
    [][Len(envStack') < Len(envStack) \/ phase' = "exited"
         => phase = "exec" /\ Instr.op \in Variant.branches /\ Stuck]_vars

(***************************************************************************)
(* What bounds the search: the jumps each pair of labels still has, then   *)
(* the labels that falling through can reach, then the rest of the frame.  *)
(***************************************************************************)
JumpsLeft ==
    LET labels == DOMAIN nodes
    IN  {j \in (labels \X labels) \X (1..LoopLimit) : j[2] > CountOf(j[1])}

Ahead == {l \in DOMAIN nodes :
            \/ l.at > label.at
            \/ l.at = label.at /\ l.suffix = "+2" /\ label.suffix = "-2"}

FrameLeft == CASE phase = "exec" -> 2 [] phase = "follow" -> 1 [] OTHER -> 0

StepsLeft == Budget(JumpsLeft, DOMAIN nodes, Ahead, FrameLeft)

\* Whatever the solver answers and wherever rollbacks lead, every step uses up some
\* of a budget fixed by the length of the program and loopLimitation; a rollback
\* gives none back.  The budget bounds the depth of the recursion of execFrom.
Progresses == [][StepsLeft' \in Nat /\ StepsLeft' < StepsLeft]_vars

\* The limit on each jumped pair bounds the whole search: it returns or exits.
Terminates == <>(phase \in {"returned", "exited"})

=============================================================================
