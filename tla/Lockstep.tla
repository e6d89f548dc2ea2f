------------------------------- MODULE Lockstep -------------------------------
(***************************************************************************)
(* Is the path that Executor explores a path of the program?  Beside the   *)
(* exploration, each input runs on a machine of its own: an ARM core that  *)
(* executes the code as it was before BinParser.expand.  A machine takes   *)
(* its step when the search executes the instruction, and waits while the  *)
(* branch of its input is pending on envStack.                             *)
(*                                                                         *)
(* The search leaves the machine of an input behind at known places, and   *)
(* only there; `astray' collects the inputs it has left, `doubted' the     *)
(* registers whose formula is not what the machine holds.                  *)
(***************************************************************************)
EXTENDS Explorer

\* Capstone prints the destination of a direct branch as an address, and an
\* instruction names each register of a list once.
ASSUME OperandsAssumption ==
    \A prog \in Programs : \A a \in DOMAIN prog :
        LET n == prog[a]
        IN  /\ n.target # NoLabel => n.target.suffix = ""
            /\ n.op \in {"push", "pop"} =>
                 \A j, k \in DOMAIN n.regs : j # k => n.regs[j] # n.regs[k]

VARIABLES
    code,      \* the program before its expansion
    machine,   \* for each input, the core that runs on it
    astray,    \* the inputs whose machine is not on the path any more
    doubted    \* registers that bl or blx may have left with another value

history == <<code, machine, astray, doubted>>

-----------------------------------------------------------------------------
(***************************************************************************)
(* The reference machine.  What a load or a pop from an empty stack yields *)
(* is not in the model: a register keeps its value, and no property looks  *)
(* at it, because its formula is null or SYM; pc goes elsewhere.           *)
(***************************************************************************)
Elsewhere == -1

Met(cond, m) == cond = "" \/ (cond = "eq") = m.z

After(m) == [m EXCEPT !.pc = @ + InstructionSize]

ArmBranch(n, m) ==
    LET dest == IF n.target # NoLabel THEN n.target.at ELSE m.regs[n.regs[1]]
        links == n.op \in {"bl", "blx"}
    IN  [m EXCEPT !.pc = dest,
                  !.regs["lr"] = IF links THEN m.pc + InstructionSize ELSE @]

\* Registers are stored from the lowest address up: the first is popped first.
ArmPush(n, m) ==
    LET len == Len(n.regs)
    IN  After([m EXCEPT !.stack = @ \o [k \in 1..len |-> m.regs[n.regs[len - k + 1]]]])

ArmPop(n, m) ==
    LET top == Len(m.stack)
        at(r) == {k \in DOMAIN n.regs : n.regs[k] = r /\ k <= top}
        popped(r, else) == IF at(r) = {} THEN else
                           ELSE m.stack[top - (CHOOSE k \in at(r) : TRUE) + 1]
    IN  [m EXCEPT !.regs = [r \in Regs |-> popped(r, m.regs[r])],
                  !.stack = SubSeq(@, 1, top - Len(n.regs)),
                  !.pc = IF "pc" \in {n.regs[k] : k \in DOMAIN n.regs}
                           THEN popped("pc", Elsewhere) ELSE m.pc + InstructionSize]

ArmExec(n, m) ==
    CASE n.op \in BranchOps -> ArmBranch(n, m)
      [] n.op = "mov" -> After([m EXCEPT !.regs[n.regs[1]] = n.num])
      [] n.op = "cmp" -> After([m EXCEPT !.z = m.regs[n.regs[1]] = n.num])
      [] n.op = "push" -> ArmPush(n, m)
      [] n.op = "pop" -> ArmPop(n, m)
      [] n.op = "ldr" /\ n.regs[1] = "pc" -> [m EXCEPT !.pc = Elsewhere]
      [] OTHER -> After(m)

ArmStep(m) ==
    IF m.pc \notin DOMAIN code THEN m
    ELSE IF Met(code[m.pc].cond, m) THEN ArmExec(code[m.pc], m) ELSE After(m)

-----------------------------------------------------------------------------
(***************************************************************************)
(* The search and the machines                                             *)
(***************************************************************************)
LockstepInit ==
    \E c \in Programs :
        /\ InitWith(c)
        /\ code = c
        /\ machine = [i \in Inputs |-> [pc |-> 0, regs |-> [r \in Regs |-> InitReg[r][i]],
                                        z |-> i \in InitZ, stack |-> << >>]]
        \* The search starts behind the guard of the first instruction.
        /\ astray = {i \in Inputs : Guarded(c[0]) /\ ~Met(c[0].cond, machine[i])}
        /\ doubted = {}

\* Of the three nodes of a guarded instruction, the first executes it for the
\* inputs that meet its condition and the second skips it for the others.
Runs(i) ==
    /\ phase = "exec" /\ i \in pathCond \ astray
    /\ CASE label.suffix = "-2" -> TRUE
         [] label.suffix = "+2" -> FALSE
         [] OTHER -> Guarded(code[label.at]) => ~Met(code[label.at].cond, machine[i])

Known(v) == v # Null /\ v.kind # "SYM"

\* A rollback restores no register, and a path condition dropped for its length
\* brings back inputs that went elsewhere.
Resumed == IF Len(envStack') < Len(envStack) THEN pathCond' ELSE pathCond' \ pathCond

\* A jump that was found and not made: outside the program, or once too often.
Unmade == IF phase = "follow" /\ jumpTo \notin {NoLabel, label'} THEN pathCond ELSE {}

\* An indirect branch (in M0, every branch) goes where one input goes, where none
\* does when z3 prints a name, or on to the next instruction.
Misdirected ==
    IF phase = "exec" /\ Instr.op \in BranchOps /\ ~(ViaTarget /\ Instr.op \in Variant.branches)
      THEN {i \in pathCond' : /\ Met(Instr.cond, machine[i])
                              /\ \/ jumpTo' = Unevaluated
                                 \/ machine'[i].pc # IF jumpTo' = NoLabel
                                                       THEN nextInst(label).at
                                                       ELSE jumpTo'.at}
      ELSE {}

\* A pc popped or loaded that does not become the destination.
PcIgnored ==
    IF /\ phase = "exec" /\ Instr.op \in {"pop", "ldr"} /\ jumpTo' = NoLabel
       /\ \E k \in DOMAIN Instr.regs : Instr.regs[k] = "pc" THEN pathCond ELSE {}

\* Lists pushed in the order of the pop, and registers used while in doubt.
Misread ==
    IF \/ phase = "exec" /\ Instr.op = "push" /\ Len(Instr.regs) > 1
                         /\ ~Variant.pushReversed
       \/ phase = "exec" /\ Instr.op \in {"push", "cmp"}
                         /\ \E k \in DOMAIN Instr.regs : Instr.regs[k] \in doubted
      THEN pathCond ELSE {}

\* A link that the variation does not write, writes wrong, or writes before it knows
\* whether the branch is taken; a register in doubt is trusted again once written.
Doubt ==
    IF phase # "exec" THEN doubted
    ELSE CASE Instr.op \in {"bl", "blx"} ->
                IF Instr.op \in Variant.branches /\ Variant.linksNext /\ Instr.cond = ""
                  THEN doubted ELSE doubted \cup {"lr"}
           [] Instr.op \in {"mov", "ldr"} -> doubted \ {Instr.regs[1]}
           [] Instr.op = "pop" -> doubted \ {Instr.regs[k] : k \in DOMAIN Instr.regs}
           [] OTHER -> doubted

LockstepNext ==
    /\ Next
    /\ machine' = [i \in Inputs |-> IF Runs(i) THEN ArmStep(machine[i]) ELSE machine[i]]
    /\ astray' = astray \cup Resumed \cup Unmade \cup Misdirected \cup PcIgnored \cup Misread
    /\ doubted' = Doubt
    /\ code' = code

LockstepSpec == LockstepInit /\ [][LockstepNext]_<<vars, history>>

-----------------------------------------------------------------------------
(***************************************************************************)
(* Properties                                                              *)
(***************************************************************************)
\* At every instruction execFrom is called with, the machine of each input of the
\* path condition is at that instruction, the formula of each register gives, on
\* that input, what the machine's register holds, and Z's what its flag holds.
\* At L-2 the machine meets the condition of the instruction it guards.
PathSound ==
    phase = "exec" =>
        \A i \in pathCond \ astray :
            LET m == machine[i]
            IN  /\ m.pc = IF label.suffix = "+2" THEN nextInst(Plain(label.at)).at
                                                 ELSE label.at
                /\ label.suffix = "-2" => Met(code[label.at].cond, m)
                /\ \A r \in Regs \ doubted : Known(regs[r]) => regs[r].sym[i] = m.regs[r]
                /\ zero.declared => (i \in zero.set <=> m.z)

\* A branch on envStack waits where the machines of its inputs wait, however long
\* the other side of the fork has run: nothing that happens in between moves its
\* label or its condition.
PendingSound ==
    \A k \in DOMAIN envStack :
        \A i \in envStack[k].pathCondition \ astray :
            envStack[k].label = Plain(machine[i].pc)

\* An indirect branch that is followed to an address is followed to one where an
\* input of the new path condition really goes: the input of z3's model when it is
\* conditional, the all-zero one when it is bx lr.  (blx lr overwrites its operand
\* before it reads it; where z3 leaves the register open there is no address, and
\* the search goes on at the next instruction although no input does.)
IndirectFollowed ==
    [][/\ phase = "exec" /\ Instr.op \in Variant.branches /\ Instr.target = NoLabel
       /\ pathCond \cap astray = {} /\ Instr.regs[1] \notin doubted
       /\ Known(regs[Instr.regs[1]])
       /\ Instr.op \in {"bl", "blx"} => Instr.regs[1] # "lr"
       /\ Instr.cond # "" \/ (Instr.regs[1] = "lr" /\ Instr.op = "bx" /\ Zero \in pathCond)
       /\ phase' = "follow" /\ Len(envStack') >= Len(envStack)
       /\ jumpTo' # Unevaluated
       => pathCond' \ astray' # {}]_<<vars, history>>

=============================================================================
