---------------------------- MODULE LockstepProofs ----------------------------
(***************************************************************************)
(* The path that Executor explores is a path of the program: for every     *)
(* program, every set of inputs and every variation.                       *)
(***************************************************************************)
EXTENDS Lockstep, ExplorerProofs

-----------------------------------------------------------------------------
(***************************************************************************)
(* The inductive invariant                                                 *)
(***************************************************************************)
Machines == [pc : Int, regs : [Regs -> Nat], z : BOOLEAN, stack : Seq(Nat)]

\* Where a machine is when the search is about to execute the node l.
Where(l) == IF l.suffix = "+2" THEN l.at + InstructionSize ELSE l.at

\* A machine is at the node l of the program c.
At(c, l, m) == m.pc = Where(l) /\ (l.suffix = "-2" => Met(c[l.at].cond, m))

\* On the input i, registers rs outside d, flag z and stack st are the machine's.
RegsAgree(rs, d, i, m) == \A r \in Regs \ d : Known(rs[r]) => rs[r].sym[i] = m.regs[r]
FlagAgrees(z, i, m) == z.declared => (i \in z.set <=> m.z)
StackAgrees(st, i, m) ==
    /\ Len(st) = Len(m.stack)
    /\ \A k \in 1..Len(st) : Known(st[k]) => st[k].sym[i] = m.stack[k]

\* The node the search executes next, if it makes the jump it has found.
Heading == IF phase = "exec" THEN label
           ELSE IF jumpTo # NoLabel THEN jumpTo ELSE nextInst(label)

OnPath ==
    phase \in {"exec", "follow"} =>
        \A i \in pathCond \ astray :
            /\ RegsAgree(regs, doubted, i, machine[i])
            /\ FlagAgrees(zero, i, machine[i])
            /\ StackAgrees(stacks, i, machine[i])
            /\ At(code, Heading, machine[i])

\* The machines that run are none of those that wait.
RunningApart ==
    \A k \in DOMAIN envStack : envStack[k].pathCondition \cap (pathCond \ astray) = {}

\* A literal is the same on every input: the jump of pop reads its concrete half.
Constant(v) == v # Null /\ v.kind = "literal" => \A i \in Inputs : v.sym[i] = Concrete(v)

LiteralsConstant ==
    /\ \A r \in Regs : Constant(regs[r])
    /\ \A k \in 1..Len(stacks) : Constant(stacks[k])

HistoryOK ==
    /\ code \in Programs /\ nodes = expand(code)
    /\ machine \in [Inputs -> Machines]

\* PathSound is not inductive: between two calls of execFrom the destination is in
\* jumpTo, a value goes through the stack before it is in a register again, and a
\* machine that waits must not be one that runs.
LockInv == /\ HistoryOK /\ OnPath /\ PendingSound /\ RunningApart /\ LiteralsConstant

-----------------------------------------------------------------------------
(***************************************************************************)
(* The nodes of a program and the machine                                  *)
(***************************************************************************)
\* What expand made of the instruction at the current label.
LEMMA NodeCases ==
    ASSUME IndInv, HistoryOK
    PROVE  /\ label \in Labels /\ label.at \in Nat /\ label.at \in DOMAIN code
           /\ code[label.at] \in Instructions /\ WellFormed(code[label.at])
           /\ \/ /\ label.suffix = "-2" /\ Guarded(code[label.at])
                 /\ Instr = Unconditional(code[label.at])
              \/ /\ label.suffix = "+2" /\ Guarded(code[label.at])
                 /\ Instr = Branch("", Plain(label.at + InstructionSize))
              \/ /\ label.suffix = "" /\ Guarded(code[label.at])
                 /\ Instr = Branch(code[label.at].cond, Minus2(label.at))
              \/ /\ label.suffix = "" /\ ~Guarded(code[label.at])
                 /\ Instr = code[label.at]
<1>1. /\ 0 \in DOMAIN code /\ DOMAIN code \subseteq Nat
      /\ \A a \in DOMAIN code : code[a] \in Instructions /\ WellFormed(code[a])
  BY ProgramsAssumption DEF HistoryOK
<1> DEFINE Dom == {Plain(a) : a \in DOMAIN code}
                    \cup {Minus2(a) : a \in GuardedAt(code)}
                    \cup {Plus2(a) : a \in GuardedAt(code)}
<1>2. label \in Dom /\ label \in Labels
  BY DEF IndInv, TypeOK, NodesOK, HistoryOK, expand
<1>3. Instr = CASE label.suffix = "-2" -> Unconditional(code[label.at])
                [] label.suffix = "+2" -> Branch("", Plain(label.at + InstructionSize))
                [] OTHER -> IF Guarded(code[label.at])
                              THEN Branch(code[label.at].cond, Minus2(label.at))
                              ELSE code[label.at]
  BY <1>2 DEF HistoryOK, Instr, expand
<1>4. CASE label \in {Plain(a) : a \in DOMAIN code}
  <2>0. PICK a \in DOMAIN code : label = Plain(a)
    BY <1>4
  <2>1. label.at \in DOMAIN code /\ label.suffix = ""
    BY <2>0 DEF Plain
  <2> QED BY <1>1, <1>2, <1>3, <2>1
<1>5. CASE label \in {Minus2(a) : a \in GuardedAt(code)}
  <2>1. label.at \in DOMAIN code /\ label.suffix = "-2" /\ Guarded(code[label.at])
    BY <1>5 DEF Minus2, GuardedAt
  <2> QED BY <1>1, <1>2, <1>3, <2>1
<1>6. CASE label \in {Plus2(a) : a \in GuardedAt(code)}
  <2>1. label.at \in DOMAIN code /\ label.suffix = "+2" /\ Guarded(code[label.at])
    BY <1>6 DEF Plus2, GuardedAt
  <2> QED BY <1>1, <1>2, <1>3, <2>1
<1> QED BY <1>2, <1>4, <1>5, <1>6

\* The machine's pop, in terms of its well-typed state.
LEMMA PoppedType ==
    ASSUME NEW m \in Machines, NEW n \in Instructions
    PROVE  ArmPop(n, m) \in Machines
<1>1. /\ m.stack \in Seq(Nat) /\ m.regs \in [Regs -> Nat] /\ m.pc \in Int
      /\ Len(m.stack) \in Nat /\ Len(n.regs) \in Nat
      /\ DOMAIN n.regs = 1..Len(n.regs)
  BY LenProperties DEF Machines, Instructions
<1> DEFINE top == Len(m.stack)
           at(r) == {k \in DOMAIN n.regs : n.regs[k] = r /\ k <= top}
           popped(r, else) == IF at(r) = {} THEN else
                              ELSE m.stack[top - (CHOOSE k \in at(r) : TRUE) + 1]
<1>2. ASSUME NEW r, NEW else \in Int
      PROVE  popped(r, else) \in Int /\ (else \in Nat => popped(r, else) \in Nat)
  <2>1. CASE at(r) = {}
    BY <2>1
  <2>2. CASE at(r) # {}
    <3> DEFINE j == CHOOSE k \in at(r) : TRUE
    <3>1. j \in at(r)
      BY <2>2
    <3>2. j \in 1..Len(n.regs) /\ j <= top
      BY <1>1, <3>1
    <3> HIDE DEF j
    <3>3. top - j + 1 \in 1..Len(m.stack)
      BY <1>1, <3>2
    <3>4. m.stack[top - j + 1] \in Nat
      BY <1>1, <3>3, ElementOfSeq
    <3>5. popped(r, else) = m.stack[top - j + 1]
      BY <2>2 DEF j
    <3> QED BY <3>4, <3>5
  <2> QED BY <2>1, <2>2
<1>3. [r \in Regs |-> popped(r, m.regs[r])] \in [Regs -> Nat]
  <2> HIDE DEF popped
  <2>1. \A r \in Regs : popped(r, m.regs[r]) \in Nat
    BY <1>1, <1>2
  <2> QED BY <2>1
<1>4. SubSeq(m.stack, 1, top - Len(n.regs)) \in Seq(Nat)
  <2> DEFINE e == top - Len(n.regs)
  <2>1. e \in Int /\ e <= Len(m.stack)
    <3>1. \A a, b \in Nat : a - b \in Int /\ a - b <= a
      OBVIOUS
    <3> QED BY <1>1, <3>1
  <2>2. \A k \in 1..e : m.stack[k] \in Nat
    BY <1>1, <2>1, ElementOfSeq
  <2> HIDE DEF e
  <2>3. SubSeq(m.stack, 1, e) \in Seq(Nat)
    BY <2>1, <2>2, SubSeqProperties
  <2> QED BY <2>3 DEF e
<1>5. /\ popped("pc", Elsewhere) \in Int
      /\ m.pc + InstructionSize \in Int
  <2>1. Elsewhere \in Int
    BY DEF Elsewhere
  <2> HIDE DEF popped
  <2> QED BY <1>1, <1>2, <2>1 DEF InstructionSize
<1>6. ArmPop(n, m) =
        [m EXCEPT !.regs = [r \in Regs |-> popped(r, m.regs[r])],
                  !.stack = SubSeq(@, 1, top - Len(n.regs)),
                  !.pc = IF "pc" \in {n.regs[k] : k \in DOMAIN n.regs}
                           THEN popped("pc", Elsewhere) ELSE m.pc + InstructionSize]
  BY DEF ArmPop
<1> HIDE DEF popped, top
<1> QED BY <1>3, <1>4, <1>5, <1>6 DEF Machines

\* A step of a machine on a program of the analysis leaves a machine.
LEMMA ArmStepType ==
    ASSUME HistoryOK, NEW m \in Machines
    PROVE  ArmStep(m) \in Machines
<1>1. /\ m.stack \in Seq(Nat) /\ m.regs \in [Regs -> Nat] /\ m.pc \in Int
      /\ m.z \in BOOLEAN
  BY DEF Machines
<1>2. /\ DOMAIN code \subseteq Nat
      /\ \A a \in DOMAIN code : code[a] \in Instructions /\ WellFormed(code[a])
  BY ProgramsAssumption DEF HistoryOK
<1>3. ASSUME NEW p \in Machines PROVE After(p) \in Machines
  <2>1. p.pc + InstructionSize \in Int
    BY DEF Machines, InstructionSize
  <2> QED BY <2>1 DEF Machines, After
<1>4. CASE m.pc \notin DOMAIN code \/ ~Met(code[m.pc].cond, m)
  BY <1>3, <1>4 DEF ArmStep
<1>5. CASE m.pc \in DOMAIN code /\ Met(code[m.pc].cond, m)
  <2> DEFINE n == code[m.pc]
  <2>1. m.pc \in Nat /\ n \in Instructions /\ WellFormed(n) /\ n.op \in Ops
    BY <1>2, <1>5 DEF Instructions
  <2>2. ArmStep(m) = ArmExec(n, m)
    BY <1>5 DEF ArmStep
  <2> HIDE DEF n
  <2>3. CASE n.op \in BranchOps
    <3>1. ArmExec(n, m) = ArmBranch(n, m)
      BY <2>3 DEF ArmExec, BranchOps
    <3>2. (IF n.target # NoLabel THEN n.target.at ELSE m.regs[n.regs[1]]) \in Int
      BY <1>1, <2>1, <2>3 DEF WellFormed, Instructions, Labels
    <3>3. m.pc + InstructionSize \in Nat /\ "lr" \in Regs
      BY <2>1 DEF InstructionSize, Regs
    <3>4. [m.regs EXCEPT !["lr"] = m.pc + InstructionSize] \in [Regs -> Nat]
      BY <1>1, <3>3
    <3>5. [m.regs EXCEPT !["lr"] = m.regs["lr"]] \in [Regs -> Nat]
      BY <1>1, <3>3
    <3>6. ArmBranch(n, m) \in Machines
      BY <1>1, <3>2, <3>3, <3>4, <3>5 DEF ArmBranch, Machines
    <3> QED BY <2>2, <3>1, <3>6
  <2>4. CASE n.op = "mov"
    <3>1. n.regs[1] \in Regs /\ n.num \in Nat
      BY <2>1, <2>4 DEF WellFormed, Instructions
    <3>2. [m EXCEPT !.regs[n.regs[1]] = n.num] \in Machines
      BY <1>1, <3>1 DEF Machines
    <3> QED BY <1>3, <2>2, <2>4, <3>2 DEF ArmExec, BranchOps
  <2>5. CASE n.op = "cmp"
    <3>1. [m EXCEPT !.z = m.regs[n.regs[1]] = n.num] \in Machines
      BY <1>1 DEF Machines
    <3> QED BY <1>3, <2>2, <2>5, <3>1 DEF ArmExec, BranchOps
  <2>6. CASE n.op = "push"
    <3> DEFINE len == Len(n.regs)
               list == [k \in 1..len |-> m.regs[n.regs[len - k + 1]]]
    <3>1. n.regs \in Seq(Regs) /\ len \in Nat
      BY <2>1, <2>6, LenProperties DEF WellFormed
    <3>2. ASSUME NEW k \in 1..len PROVE m.regs[n.regs[len - k + 1]] \in Nat
      <4>1. len - k + 1 \in 1..len
        BY <3>1
      <4>2. n.regs[len - k + 1] \in Regs
        BY <3>1, <4>1, ElementOfSeq
      <4> QED BY <1>1, <4>2
    <3>3. list \in Seq(Nat)
      <4>1. list \in [1..len -> Nat]
        BY <3>2
      <4> HIDE DEF list
      <4> QED BY <3>1, <4>1, SeqDef
    <3>4. m.stack \o list \in Seq(Nat)
      <4> HIDE DEF list
      <4> QED BY <1>1, <3>3, ConcatProperties
    <3>5. ArmExec(n, m) = After([m EXCEPT !.stack = m.stack \o list])
      BY <1>1, <2>6 DEF ArmExec, ArmPush, BranchOps
    <3>6. [m EXCEPT !.stack = m.stack \o list] \in Machines
      <4> HIDE DEF list
      <4> QED BY <3>4 DEF Machines
    <3> QED BY <1>3, <2>2, <3>5, <3>6
  <2>7. CASE n.op = "pop"
    BY <2>1, <2>2, <2>7, PoppedType DEF ArmExec, BranchOps
  <2>8. CASE n.op \in {"ldr", "ldrb", "nop"}
    <3>1. [m EXCEPT !.pc = Elsewhere] \in Machines
      BY DEF Machines, Elsewhere
    <3>2. ArmExec(n, m) \in {[m EXCEPT !.pc = Elsewhere], After(m)}
      BY <2>8 DEF ArmExec, BranchOps
    <3> QED BY <1>3, <2>2, <3>1, <3>2
  <2> QED BY <2>1, <2>3, <2>4, <2>5, <2>6, <2>7, <2>8 DEF Ops
<1> QED BY <1>4, <1>5

-----------------------------------------------------------------------------
(***************************************************************************)
(* Machines that wait                                                      *)
(***************************************************************************)
\* The program is not written again.
LEMMA ProgramStays == ASSUME IndInv, Next PROVE UNCHANGED nodes
<1>1. CASE Exec
  BY <1>1, ExecWritesDot
<1>2. CASE Follow
  BY <1>2, FollowAddsEdge DEF IndInv, TypeOK
<1>3. CASE ReachEnd \/ StackOverflow
  BY <1>3 DEF ReachEnd, StackOverflow, Return, Throw, program
<1> QED BY <1>1, <1>2, <1>3 DEF Next

\* Every step leaves machines.
LEMMA HistoryStep == ASSUME IndInv, LockInv, LockstepNext PROVE HistoryOK'
<1>1. HistoryOK /\ UNCHANGED <<code, nodes>>
  BY ProgramStays DEF LockstepNext, LockInv
<1>2. machine' = [i \in Inputs |-> IF Runs(i) THEN ArmStep(machine[i]) ELSE machine[i]]
  BY DEF LockstepNext
<1>3. \A i \in Inputs : machine[i] \in Machines /\ ArmStep(machine[i]) \in Machines
  BY <1>1, ArmStepType DEF HistoryOK
<1>4. machine' \in [Inputs -> Machines]
  BY <1>2, <1>3
<1> QED BY <1>1, <1>4 DEF HistoryOK

\* A machine moves only while its input is on the path.
LEMMA OthersWait ==
    ASSUME LockstepNext, NEW i \in Inputs, i \notin pathCond \ astray
    PROVE  machine'[i] = machine[i]
BY DEF LockstepNext, Runs

\* A branch that waited still waits where its machines are.
LEMMA WaitersWait ==
    ASSUME IndInv, LockInv, LockstepNext, NEW k \in DOMAIN envStack
    PROVE  /\ \A i \in envStack[k].pathCondition \ astray' :
                 envStack[k].label = Plain(machine'[i].pc)
           /\ envStack[k].pathCondition \cap (pathCond \ astray') = {}
<1>1. astray \subseteq astray'
  BY DEF LockstepNext
<1>2. envStack[k].pathCondition \cap (pathCond \ astray) = {}
  BY DEF LockInv, RunningApart
<1>3. ASSUME NEW i \in envStack[k].pathCondition \ astray'
      PROVE  envStack[k].label = Plain(machine'[i].pc)
  <2>1. i \in Inputs
    <3>1. envStack[k] \in Models
      BY ElementOfSeq, LenProperties DEF IndInv, TypeOK
    <3> QED BY <3>1 DEF Models
  <2>2. machine'[i] = machine[i]
    BY <1>1, <1>2, <2>1, OthersWait
  <2> QED BY <1>1, <2>2 DEF LockInv, PendingSound
<1> QED BY <1>1, <1>2, <1>3

\* An input that is on the path after a step was on it before, and none of the
\* known reasons took it off.
LEMMA StaysOnPath ==
    ASSUME LockstepNext, NEW i \in pathCond' \ astray'
    PROVE  /\ i \in pathCond \ astray
           /\ i \notin Resumed /\ i \notin Unmade /\ i \notin Misdirected
           /\ i \notin PcIgnored /\ i \notin Misread
<1>1. /\ i \notin astray /\ i \notin Resumed /\ i \notin Unmade /\ i \notin Misdirected
      /\ i \notin PcIgnored /\ i \notin Misread
  BY DEF LockstepNext
<1> QED BY <1>1 DEF Resumed

\* Steps that push and pop no branch leave the pending ones sound.
LEMMA QuietStep ==
    ASSUME IndInv, LockInv, LockstepNext, UNCHANGED envStack
    PROVE  PendingSound' /\ RunningApart'
<1>1. PendingSound'
  BY WaitersWait DEF PendingSound
<1>2. pathCond' \ astray' \subseteq pathCond \ astray'
  BY StaysOnPath
<1>3. RunningApart'
  BY <1>2, WaitersWait DEF RunningApart
<1> QED BY <1>1, <1>3

\* After a rollback no input is on the path.
LEMMA RollbackStrays ==
    ASSUME LockstepNext, Len(envStack') < Len(envStack)
    PROVE  pathCond' \ astray' = {}
<1>1. Resumed = pathCond'
  BY DEF Resumed
<1> QED BY <1>1, StaysOnPath

-----------------------------------------------------------------------------
(***************************************************************************)
(* Instructions that are no branches                                       *)
(***************************************************************************)
\* Each machine on the path executes the instruction the search executes.
LEMMA Executed ==
    ASSUME IndInv, LockInv, LockstepNext, phase = "exec", Instr.op \notin BranchOps,
           NEW i \in pathCond \ astray
    PROVE  LET n == code[label.at]
           IN  /\ n \in Instructions /\ WellFormed(n)
               /\ n.op = Instr.op /\ n.regs = Instr.regs /\ n.num = Instr.num
               /\ machine[i] \in Machines
               /\ machine'[i] = ArmExec(n, machine[i])
               /\ machine[i].pc = label.at /\ label.at \in Nat
               /\ Where(nextInst(label)) = label.at + InstructionSize
               /\ nextInst(label).suffix # "-2"
<1> DEFINE n == code[label.at]
           m == machine[i]
<1>1. HistoryOK /\ i \in Inputs
  BY DEF LockInv, IndInv, TypeOK
<1>2. /\ label.at \in Nat /\ label.at \in DOMAIN code
      /\ n \in Instructions /\ WellFormed(n)
  BY <1>1, NodeCases
<1>3. \/ label.suffix = "-2" /\ Instr = Unconditional(n)
      \/ label.suffix = "" /\ ~Guarded(n) /\ Instr = n
  <2>1. \A c, t : Branch(c, t).op \in BranchOps
    BY DEF Branch, BranchOps
  <2> QED BY <1>1, <2>1, NodeCases
<1>4. /\ n.op = Instr.op /\ n.regs = Instr.regs /\ n.num = Instr.num
  BY <1>2, <1>3 DEF Unconditional, Instructions
<1>5. At(code, label, m)
  BY DEF LockInv, OnPath, Heading
<1>6. m.pc = label.at /\ Met(n.cond, m)
  BY <1>3, <1>4, <1>5 DEF At, Where, Guarded, Met
<1>7. Runs(i)
  BY <1>3 DEF Runs
<1>8. machine'[i] = ArmExec(n, m)
  BY <1>1, <1>2, <1>6, <1>7 DEF LockstepNext, ArmStep
<1>9. /\ Where(nextInst(label)) = label.at + InstructionSize
      /\ nextInst(label).suffix # "-2"
  BY <1>3 DEF nextInst, Where, Plus2, Plain
<1>10. m \in Machines
  BY <1>1 DEF HistoryOK
<1> QED BY <1>2, <1>4, <1>6, <1>8, <1>9, <1>10

\* A machine that went on is at the node after the one executed.
LEMMA GoesOn ==
    ASSUME IndInv, LockInv, LockstepNext, phase = "exec", Instr.op \notin BranchOps, NoJump,
           NEW i \in pathCond \ astray, machine'[i].pc = label.at + InstructionSize
    PROVE  At(code', Heading', machine'[i])
<1>1. jumpTo' = NoLabel /\ phase' = "follow" /\ label' = label
  BY DEF NoJump, IndInv, TypeOK
<1>2. Heading' = nextInst(label)
  BY <1>1 DEF Heading
<1>3. /\ Where(nextInst(label)) = label.at + InstructionSize
      /\ nextInst(label).suffix # "-2"
  BY Executed
<1> QED BY <1>2, <1>3 DEF At

\* The fields of a machine that goes on.
LEMMA AfterFields ==
    ASSUME NEW m \in Machines
    PROVE  /\ After(m).pc = m.pc + InstructionSize /\ After(m).regs = m.regs
           /\ After(m).z = m.z /\ After(m).stack = m.stack
BY DEF After, Machines

\* The four things OnPath asks of a machine on the path, after a step.
Matched(i) ==
    /\ RegsAgree(regs', doubted', i, machine'[i])
    /\ FlagAgrees(zero', i, machine'[i])
    /\ StackAgrees(stacks', i, machine'[i])
    /\ At(code', Heading', machine'[i])

\* Machines that are matched after the step are on the path.
LEMMA MatchedOnPath ==
    ASSUME phase' \in {"exec", "follow"} => \A i \in pathCond' \ astray' : Matched(i)
    PROVE  OnPath'
BY DEF OnPath, Matched

\* What the invariant says of an input while an instruction is executed.
LEMMA MatchedBefore ==
    ASSUME LockInv, phase \in {"exec", "follow"}, NEW i \in pathCond \ astray
    PROVE  /\ RegsAgree(regs, doubted, i, machine[i])
           /\ FlagAgrees(zero, i, machine[i])
           /\ StackAgrees(stacks, i, machine[i])
           /\ At(code, Heading, machine[i])
BY DEF LockInv, OnPath

\* mov writes the same literal on both sides.
LEMMA MovOnPath ==
    ASSUME IndInv, LockInv, LockstepNext, ExecMov PROVE OnPath' /\ LiteralsConstant'
<1>1. /\ phase = "exec" /\ Instr.op = "mov" /\ NoJump /\ UNCHANGED <<zero, stacks>>
      /\ regs' = [regs EXCEPT ![Instr.regs[1]] = Literal(Instr.num)]
  BY DEF ExecMov, Executes
<1>2. Instr.regs[1] \in Regs /\ regs \in [Regs -> Values \cup {Null}]
  BY <1>1, FrameTypes DEF WellFormed
<1>3. ASSUME NEW i \in pathCond' \ astray' PROVE Matched(i)
  <2> DEFINE n == code[label.at]
             m == machine[i]
             w == [m EXCEPT !.regs[n.regs[1]] = n.num]
  <2>1. i \in pathCond \ astray /\ i \in Inputs
    BY <1>3, StaysOnPath DEF IndInv, TypeOK
  <2>2. Instr.op \notin BranchOps
    BY <1>1 DEF BranchOps
  <2>3. /\ n.op = "mov" /\ n.regs = Instr.regs /\ n.num = Instr.num /\ n.num \in Nat
        /\ m \in Machines /\ machine'[i] = ArmExec(n, m) /\ m.pc = label.at
    BY <1>1, <2>1, <2>2, Executed DEF Instructions
  <2>4. machine'[i] = After(w)
    BY <2>3 DEF ArmExec, BranchOps
  <2>5. /\ w \in Machines /\ w.pc = m.pc /\ w.z = m.z /\ w.stack = m.stack
        /\ w.regs = [m.regs EXCEPT ![n.regs[1]] = n.num] /\ m.regs \in [Regs -> Nat]
    BY <1>2, <2>3 DEF Machines
  <2> HIDE DEF w
  <2>6. /\ machine'[i].pc = label.at + InstructionSize /\ machine'[i].regs = w.regs
        /\ machine'[i].z = m.z /\ machine'[i].stack = m.stack
    BY <2>3, <2>4, <2>5, AfterFields
  <2>7. doubted' = doubted \ {Instr.regs[1]}
    BY <1>1 DEF LockstepNext, Doubt
  <2>8. RegsAgree(regs', doubted', i, machine'[i])
    <3> SUFFICES ASSUME NEW r \in Regs \ doubted', Known(regs'[r])
                 PROVE  regs'[r].sym[i] = machine'[i].regs[r]
      BY DEF RegsAgree
    <3>1. CASE r = Instr.regs[1]
      BY <1>1, <1>2, <2>1, <2>3, <2>5, <2>6, <3>1 DEF Literal
    <3>2. CASE r # Instr.regs[1]
      <4>1. r \in Regs \ doubted /\ regs'[r] = regs[r] /\ machine'[i].regs[r] = m.regs[r]
        BY <1>1, <1>2, <2>3, <2>5, <2>6, <2>7, <3>2
      <4>2. RegsAgree(regs, doubted, i, m)
        BY <1>1, <2>1, MatchedBefore
      <4> QED BY <4>1, <4>2 DEF RegsAgree
    <3> QED BY <3>1, <3>2
  <2>9. FlagAgrees(zero', i, machine'[i]) /\ StackAgrees(stacks', i, machine'[i])
    BY <1>1, <2>1, <2>6, MatchedBefore DEF FlagAgrees, StackAgrees
  <2>10. At(code', Heading', machine'[i])
    BY <1>1, <2>1, <2>2, <2>6, GoesOn
  <2> QED BY <2>8, <2>9, <2>10 DEF Matched
<1>4. Constant(Literal(Instr.num))
  BY ConstantsAssumption DEF Constant, Literal, Concrete
<1>5. LiteralsConstant'
  BY <1>1, <1>2, <1>4 DEF LockInv, LiteralsConstant
<1> QED BY <1>3, <1>5, MatchedOnPath

\* cmp compares the register with the same number, unless the register is in doubt.
LEMMA CmpOnPath ==
    ASSUME IndInv, LockInv, LockstepNext, ExecCmp PROVE OnPath' /\ LiteralsConstant'
<1> DEFINE v == regs[Instr.regs[1]]
<1>1. CASE Return
  BY <1>1 DEF Return, Throw, env, OnPath, LockInv, LiteralsConstant
<1>2. CASE ~Return
  <2>1. /\ phase = "exec" /\ Instr.op = "cmp" /\ NoJump /\ UNCHANGED <<regs, stacks>>
        /\ zero' = [set |-> {i \in Inputs : v.sym[i] = Instr.num}, declared |-> v.kind # "SYM"]
        /\ v # Null
    BY <1>2 DEF ExecCmp, Executes
  <2>2. Len(Instr.regs) = 1 /\ Instr.regs[1] \in Regs /\ 1 \in DOMAIN Instr.regs
    BY <2>1, FrameTypes, LenProperties DEF WellFormed
  <2>3. ASSUME NEW i \in pathCond' \ astray' PROVE Matched(i)
    <3> DEFINE n == code[label.at]
               m == machine[i]
               w == [m EXCEPT !.z = m.regs[n.regs[1]] = n.num]
    <3>1. i \in pathCond \ astray /\ i \in Inputs /\ i \notin Misread
      BY <2>3, StaysOnPath DEF IndInv, TypeOK
    <3>2. Instr.op \notin BranchOps
      BY <2>1 DEF BranchOps
    <3>3. /\ n.op = "cmp" /\ n.regs = Instr.regs /\ n.num = Instr.num
          /\ m \in Machines /\ machine'[i] = ArmExec(n, m) /\ m.pc = label.at
      BY <2>1, <3>1, <3>2, Executed
    <3>4. machine'[i] = After(w)
      BY <3>3 DEF ArmExec, BranchOps
    <3>5. /\ w \in Machines /\ w.pc = m.pc /\ w.stack = m.stack /\ w.regs = m.regs
          /\ w.z = (m.regs[n.regs[1]] = n.num)
      BY <3>3 DEF Machines
    <3> HIDE DEF w
    <3>6. /\ machine'[i].pc = label.at + InstructionSize /\ machine'[i].regs = m.regs
          /\ machine'[i].z = w.z /\ machine'[i].stack = m.stack
      BY <3>3, <3>4, <3>5, AfterFields
    <3>7. doubted' = doubted
      BY <2>1 DEF LockstepNext, Doubt
    <3>8. Instr.regs[1] \notin doubted
      BY <2>1, <2>2, <3>1 DEF Misread
    <3>9. RegsAgree(regs, doubted, i, m) /\ StackAgrees(stacks, i, m)
      BY <2>1, <3>1, MatchedBefore
    <3>10. FlagAgrees(zero', i, machine'[i])
      <4>1. v.kind # "SYM" => v.sym[i] = m.regs[Instr.regs[1]]
        BY <2>1, <2>2, <3>8, <3>9 DEF RegsAgree, Known
      <4> HIDE DEF v
      <4>2. /\ zero'.declared = (v.kind # "SYM")
            /\ i \in zero'.set <=> v.sym[i] = Instr.num
        BY <2>1, <3>1
      <4> QED BY <3>3, <3>5, <3>6, <4>1, <4>2 DEF FlagAgrees
    <3>11. RegsAgree(regs', doubted', i, machine'[i]) /\ StackAgrees(stacks', i, machine'[i])
      BY <2>1, <3>6, <3>7, <3>9 DEF RegsAgree, StackAgrees
    <3>12. At(code', Heading', machine'[i])
      BY <2>1, <3>1, <3>2, <3>6, GoesOn
    <3> QED BY <3>10, <3>11, <3>12 DEF Matched
  <2>4. LiteralsConstant'
    BY <2>1 DEF LockInv, LiteralsConstant
  <2> QED BY <2>3, <2>4, MatchedOnPath
<1> QED BY <1>1, <1>2

\* What ldr writes is null, and a pc it loads takes every input off the path.
LEMMA LdrOnPath ==
    ASSUME IndInv, LockInv, LockstepNext, ExecLdr PROVE OnPath' /\ LiteralsConstant'
<1>1. CASE Return
  BY <1>1 DEF Return, Throw, env, OnPath, LockInv, LiteralsConstant
<1>2. CASE ~Return
  <2>1. /\ phase = "exec" /\ Instr.op = "ldr" /\ NoJump /\ UNCHANGED <<zero, stacks>>
        /\ regs' = [r \in Regs |-> IF r = Instr.regs[1] THEN Null ELSE regs[r]]
    BY <1>2 DEF ExecLdr, Executes
  <2>2. 1 \in DOMAIN Instr.regs
    BY <2>1, FrameTypes, LenProperties DEF WellFormed
  <2>3. ASSUME NEW i \in pathCond' \ astray' PROVE Matched(i)
    <3> DEFINE n == code[label.at]
               m == machine[i]
    <3>1. i \in pathCond \ astray /\ i \notin PcIgnored
      BY <2>3, StaysOnPath
    <3>2. Instr.op \notin BranchOps /\ jumpTo' = NoLabel
      BY <2>1 DEF BranchOps, NoJump, IndInv, TypeOK
    <3>3. Instr.regs[1] # "pc"
      BY <2>1, <2>2, <3>1, <3>2 DEF PcIgnored
    <3>4. /\ n.op = "ldr" /\ n.regs = Instr.regs
          /\ m \in Machines /\ machine'[i] = ArmExec(n, m) /\ m.pc = label.at
      BY <2>1, <3>1, <3>2, Executed
    <3>5. machine'[i] = After(m)
      BY <3>3, <3>4 DEF ArmExec, BranchOps
    <3>6. /\ machine'[i].pc = label.at + InstructionSize /\ machine'[i].regs = m.regs
          /\ machine'[i].z = m.z /\ machine'[i].stack = m.stack
      BY <3>4, <3>5, AfterFields
    <3>7. doubted' = doubted \ {Instr.regs[1]}
      BY <2>1 DEF LockstepNext, Doubt
    <3>8. RegsAgree(regs, doubted, i, m) /\ StackAgrees(stacks, i, m) /\ FlagAgrees(zero, i, m)
      BY <2>1, <3>1, MatchedBefore
    <3>9. RegsAgree(regs', doubted', i, machine'[i])
      BY <2>1, <3>6, <3>7, <3>8 DEF RegsAgree, Known
    <3>10. StackAgrees(stacks', i, machine'[i]) /\ FlagAgrees(zero', i, machine'[i])
      BY <2>1, <3>6, <3>8 DEF StackAgrees, FlagAgrees
    <3>11. At(code', Heading', machine'[i])
      BY <2>1, <3>1, <3>2, <3>6, GoesOn
    <3> QED BY <3>9, <3>10, <3>11 DEF Matched
  <2>4. LiteralsConstant'
    BY <2>1 DEF LockInv, LiteralsConstant, Constant
  <2> QED BY <2>3, <2>4, MatchedOnPath
<1> QED BY <1>1, <1>2

\* ldrb always throws.
LEMMA LdrbOnPath ==
    ASSUME LockInv, ExecLdrb PROVE OnPath' /\ LiteralsConstant'
BY DEF ExecLdrb, Return, Throw, env, OnPath, LockInv, LiteralsConstant

-----------------------------------------------------------------------------
(***************************************************************************)
(* Branches                                                                *)
(***************************************************************************)
\* Every copy of singleExec knows b.
LEMMA VariantKnowsB == "b" \in Variant.branches
BY ConstantsAssumption
   DEF Cores, Variant, SingleExecM0, SingleExecM0_PLUS, SingleExecM3, SingleExecM4,
       SingleExecM7, SingleExecM33

\* What the machine of an input on the path does at a node with a branch: it goes on
\* because its condition is not met, waits while the search walks through the nodes
\* that expand invented, or takes the branch of the program.
LEMMA BranchMachine ==
    ASSUME IndInv, LockInv, LockstepNext, phase = "exec", Instr.op \in BranchOps,
           NEW i \in pathCond \ astray
    PROVE  LET m == machine[i]
           IN  /\ m \in Machines
               /\ \/ /\ ~Met(Instr.cond, m) /\ machine'[i] = After(m)
                     /\ label.suffix = "" /\ m.pc = label.at
                  \/ /\ Met(Instr.cond, m) /\ machine'[i] = m
                     /\ Instr.op = "b" /\ Instr.target # NoLabel
                     /\ At(code, Instr.target, m)
                  \/ /\ Met(Instr.cond, m) /\ machine'[i] = ArmBranch(Instr, m)
                     /\ label.suffix = "" /\ m.pc = label.at
                     /\ Instr = code[label.at] /\ label.at \in DOMAIN code
<1> DEFINE n == code[label.at]
           m == machine[i]
<1>1. HistoryOK /\ i \in Inputs
  BY DEF LockInv, IndInv, TypeOK
<1>2. /\ label.at \in Nat /\ label.at \in DOMAIN code
      /\ n \in Instructions /\ WellFormed(n)
  BY <1>1, NodeCases
<1>3. m \in Machines
  BY <1>1 DEF HistoryOK
<1>4. At(code, label, m)
  BY DEF LockInv, OnPath, Heading
<1>5. machine'[i] = IF Runs(i) THEN ArmStep(m) ELSE m
  BY <1>1 DEF LockstepNext
<1>6. CASE label.suffix = "-2" /\ Guarded(n) /\ Instr = Unconditional(n)
  BY <1>2, <1>6 DEF Guarded, Unconditional, Instructions
<1>7. CASE /\ label.suffix = "+2" /\ Guarded(n)
           /\ Instr = Branch("", Plain(label.at + InstructionSize))
  <2>1. ~Runs(i)
    BY <1>7 DEF Runs
  <2>2. Instr.op = "b" /\ Instr.cond = "" /\ Instr.target = Plain(label.at + InstructionSize)
    BY <1>7 DEF Branch
  <2>3. At(code, Instr.target, m)
    <3>0. \A a : Plain(a).suffix = "" /\ Plain(a).at = a
      BY DEF Plain
    <3>1. Instr.target.suffix = "" /\ Instr.target.at = label.at + InstructionSize
      BY <2>2, <3>0
    <3>2. m.pc = label.at + InstructionSize
      BY <1>4, <1>7 DEF At, Where
    <3> QED BY <3>1, <3>2 DEF At, Where
  <2>4. Instr.target # NoLabel
    <3>1. label.at + InstructionSize \in Nat
      BY <1>2 DEF InstructionSize
    <3> QED BY <2>2, <3>1, LabelTypes, NoLabelIsNone
  <2> QED BY <1>3, <1>5, <2>1, <2>2, <2>3, <2>4 DEF Met
<1>8. CASE /\ label.suffix = "" /\ Guarded(n) /\ Instr = Branch(n.cond, Minus2(label.at))
  <2>1. Instr.op = "b" /\ Instr.cond = n.cond /\ Instr.target = Minus2(label.at)
    BY <1>8 DEF Branch
  <2>2. m.pc = label.at
    BY <1>4, <1>8 DEF At, Where
  <2>3. Runs(i) <=> ~Met(n.cond, m)
    BY <1>8 DEF Runs
  <2>4. CASE Met(n.cond, m)
    <3>1. At(code, Instr.target, m)
      BY <2>1, <2>2, <2>4 DEF At, Where, Minus2
    <3>2. Instr.target # NoLabel
      BY <1>2, <2>1, LabelTypes, NoLabelIsNone
    <3> QED BY <1>3, <1>5, <2>1, <2>3, <2>4, <3>1, <3>2
  <2>5. CASE ~Met(n.cond, m)
    BY <1>2, <1>3, <1>5, <1>8, <2>1, <2>2, <2>3, <2>5 DEF ArmStep
  <2> QED BY <2>4, <2>5
<1>9. CASE label.suffix = "" /\ ~Guarded(n) /\ Instr = n
  <2>1. m.pc = label.at
    BY <1>4, <1>9 DEF At, Where
  <2>2. Runs(i)
    BY <1>9 DEF Runs
  <2>3. ArmExec(n, m) = ArmBranch(n, m)
    BY <1>9 DEF ArmExec, BranchOps
  <2> QED BY <1>2, <1>3, <1>5, <1>9, <2>1, <2>2, <2>3 DEF ArmStep
<1> QED BY <1>1, <1>6, <1>7, <1>8, <1>9, NodeCases

\* A branch writes lr at most, and when its register is not in doubt afterwards the
\* variation wrote what the machine did.
LEMMA BranchAgrees ==
    ASSUME IndInv, LockInv, LockstepNext, phase = "exec", Instr.op \in BranchOps,
           NEW i \in pathCond \ astray
    PROVE  LET rs == IF Instr.op \in Variant.branches THEN Linked ELSE regs
           IN  /\ RegsAgree(rs, doubted', i, machine'[i])
               /\ FlagAgrees(zero, i, machine'[i])
               /\ StackAgrees(stacks, i, machine'[i])
<1> DEFINE m == machine[i]
           rs == IF Instr.op \in Variant.branches THEN Linked ELSE regs
<1>1. m \in Machines /\ i \in Inputs /\ label \in Labels
  BY BranchMachine, FrameTypes DEF IndInv, TypeOK
<1>2. RegsAgree(regs, doubted, i, m) /\ FlagAgrees(zero, i, m) /\ StackAgrees(stacks, i, m)
  BY MatchedBefore
<1>3. /\ ArmBranch(Instr, m).z = m.z /\ ArmBranch(Instr, m).stack = m.stack
      /\ ArmBranch(Instr, m).regs =
           [m.regs EXCEPT !["lr"] = IF Instr.op \in {"bl", "blx"}
                                      THEN m.pc + InstructionSize ELSE m.regs["lr"]]
  BY <1>1 DEF ArmBranch, Machines
<1>4. m.regs \in [Regs -> Nat] /\ "lr" \in Regs
  BY <1>1 DEF Machines, Regs
<1>5. machine'[i].z = m.z /\ machine'[i].stack = m.stack
  BY <1>1, <1>3, BranchMachine, AfterFields
<1>6. \A r \in Regs : r # "lr" => machine'[i].regs[r] = m.regs[r]
  BY <1>1, <1>3, <1>4, BranchMachine, AfterFields
<1>7. regs \in [Regs -> Values \cup {Null}]
  BY FrameTypes
<1>8. \A r \in Regs : r # "lr" => rs[r] = regs[r]
  BY <1>7 DEF Linked
<1>9. ASSUME NEW r \in Regs \ doubted', Known(rs[r])
      PROVE  rs[r].sym[i] = machine'[i].regs[r]
  <2>1. CASE Instr.op \in {"bl", "blx"}
    <3>1. doubted' = IF /\ Instr.op \in Variant.branches /\ Variant.linksNext
                        /\ Instr.cond = "" THEN doubted ELSE doubted \cup {"lr"}
      BY <2>1 DEF LockstepNext, Doubt
    <3>2. CASE r # "lr"
      BY <1>2, <1>6, <1>8, <1>9, <3>1, <3>2 DEF RegsAgree
    <3>3. CASE r = "lr"
      <4>1. Instr.op \in Variant.branches /\ Variant.linksNext /\ Instr.cond = ""
        BY <1>9, <3>1, <3>3
      <4>2. /\ machine'[i] = ArmBranch(Instr, m) /\ label.suffix = "" /\ m.pc = label.at
        BY <2>1, <4>1, BranchMachine DEF Met
      <4>3. rs["lr"] = Literal(nextInst(label).at)
        BY <1>4, <1>7, <2>1, <4>1 DEF Linked, Link
      <4>4. nextInst(label).at = label.at + InstructionSize
        BY <4>2 DEF nextInst, Plain
      <4>5. machine'[i].regs["lr"] = label.at + InstructionSize
        BY <1>3, <1>4, <2>1, <4>2
      <4> QED BY <1>1, <3>3, <4>3, <4>4, <4>5 DEF Literal
    <3> QED BY <3>2, <3>3
  <2>2. CASE Instr.op \notin {"bl", "blx"}
    <3>1. doubted' = doubted
      BY <2>2 DEF LockstepNext, Doubt, BranchOps
    <3>2. rs = regs
      BY <2>2 DEF Linked
    <3>3. machine'[i].regs = m.regs
      <4>1. [m.regs EXCEPT !["lr"] = m.regs["lr"]] = m.regs
        BY <1>4
      <4> QED BY <1>1, <1>3, <2>2, <4>1, BranchMachine, AfterFields
    <3> QED BY <1>2, <1>9, <3>1, <3>2, <3>3 DEF RegsAgree
  <2> QED BY <2>1, <2>2
<1>10. RegsAgree(rs, doubted', i, machine'[i])
  BY <1>9 DEF RegsAgree
<1>11. FlagAgrees(zero, i, machine'[i]) /\ StackAgrees(stacks, i, machine'[i])
  BY <1>2, <1>5 DEF FlagAgrees, StackAgrees
<1> QED BY <1>10, <1>11

\* nop, and the branches a variation has no handler for: those go wrong unless the
\* machine happens to go on as well.
LEMMA NopOnPath ==
    ASSUME IndInv, LockInv, LockstepNext, ExecNop PROVE OnPath' /\ LiteralsConstant'
<1>1. phase = "exec" /\ NoJump /\ UNCHANGED <<regs, zero, stacks>>
  BY DEF ExecNop, env
<1>2. jumpTo' = NoLabel /\ phase' = "follow" /\ label' = label
  BY <1>1 DEF NoJump, IndInv, TypeOK
<1>3. ASSUME Instr.op = "nop", NEW i \in pathCond' \ astray' PROVE Matched(i)
  <2> DEFINE m == machine[i]
  <2>1. i \in pathCond \ astray /\ Instr.op \notin BranchOps
    BY <1>3, StaysOnPath DEF BranchOps
  <2>2. /\ code[label.at].op = "nop" /\ m \in Machines /\ m.pc = label.at
        /\ machine'[i] = ArmExec(code[label.at], m)
    BY <1>1, <1>3, <2>1, Executed
  <2>3. machine'[i] = After(m)
    BY <2>2 DEF ArmExec, BranchOps
  <2>4. /\ machine'[i].pc = label.at + InstructionSize /\ machine'[i].regs = m.regs
        /\ machine'[i].z = m.z /\ machine'[i].stack = m.stack
    BY <2>2, <2>3, AfterFields
  <2>5. doubted' = doubted
    BY <1>3 DEF LockstepNext, Doubt
  <2>6. At(code', Heading', machine'[i])
    BY <1>1, <2>1, <2>4, GoesOn
  <2>7. RegsAgree(regs, doubted, i, m) /\ StackAgrees(stacks, i, m) /\ FlagAgrees(zero, i, m)
    BY <1>1, <2>1, MatchedBefore
  <2> QED BY <1>1, <2>4, <2>5, <2>6, <2>7 DEF Matched, RegsAgree, StackAgrees, FlagAgrees
<1>4. ASSUME Instr.op \in BranchOps \ Variant.branches, NEW i \in pathCond' \ astray'
      PROVE  Matched(i)
  <2> DEFINE m == machine[i]
  <2>1. i \in pathCond \ astray /\ i \notin Misdirected
    BY <1>4, StaysOnPath
  <2>2. Instr.op # "b" /\ Instr.op \in BranchOps
    BY <1>4, VariantKnowsB
  <2>3. /\ m \in Machines /\ label.suffix = "" /\ m.pc = label.at
        /\ Met(Instr.cond, m) \/ machine'[i] = After(m)
    BY <1>1, <2>1, <2>2, BranchMachine
  <2>4. nextInst(label) = Plain(label.at + InstructionSize)
    BY <2>3 DEF nextInst
  <2>5. /\ nextInst(label).at = label.at + InstructionSize /\ nextInst(label).suffix = ""
    <3>1. \A a : Plain(a).suffix = "" /\ Plain(a).at = a
      BY DEF Plain
    <3> QED BY <2>4, <3>1
  <2>6. machine'[i].pc = nextInst(label).at
    <3>1. CASE Met(Instr.cond, m)
      BY <1>1, <1>2, <1>4, <2>1, <3>1 DEF Misdirected
    <3>2. CASE machine'[i] = After(m)
      BY <2>3, <2>5, <3>2, AfterFields
    <3> QED BY <2>3, <3>1, <3>2
  <2>7. Heading' = nextInst(label)
    BY <1>2 DEF Heading
  <2>8. At(code', Heading', machine'[i])
    BY <2>5, <2>6, <2>7 DEF At, Where
  <2>9. /\ RegsAgree(regs, doubted', i, machine'[i])
        /\ FlagAgrees(zero, i, machine'[i]) /\ StackAgrees(stacks, i, machine'[i])
    BY <1>1, <1>4, <2>1, <2>2, BranchAgrees
  <2> QED BY <1>1, <2>8, <2>9 DEF Matched
<1>5. LiteralsConstant'
  BY <1>1 DEF LockInv, LiteralsConstant
<1>6. Instr.op = "nop" \/ Instr.op \in BranchOps \ Variant.branches
  BY DEF ExecNop
<1> QED BY <1>3, <1>4, <1>5, <1>6, MatchedOnPath

\* Where a branch that was executed leads: out of the process, to an older branch,
\* to its destination or past it.
LEMMA BranchOutcome ==
    ASSUME IndInv, ExecBranch
    PROVE  \/ phase' = "exited" /\ UNCHANGED <<pathCond, envStack>>
           \/ envStack # << >> /\ envStack' = Below(envStack)
           \/ /\ phase' = "follow" /\ jumpTo' \in Destinations /\ jumpTo' # NoLabel
              /\ pathCond' = PosCond(Instr.cond) /\ (Instr.cond # "" => Declared)
              /\ \/ envStack' = envStack
                 \/ /\ Instr.cond # "" /\ Declared
                    /\ \E map \in SUBSET Labels :
                         envStack' = Append(envStack, [label |-> nextInst(label),
                                              pathCondition |-> NegCond(Instr.cond),
                                              known |-> map])
           \/ /\ phase' = "follow" /\ jumpTo' = nextInst(label)
              /\ pathCond' = NegCond(Instr.cond) /\ Instr.cond # "" /\ Declared
              /\ envStack' = envStack
<1>1. TypeOK /\ PendingFeasible /\ RollbackSafe /\ envStack \in Seq(Models)
  BY DEF IndInv, TypeOK
<1>2. Instr.op \in Variant.branches /\ ~OperandIsNull
  BY DEF ExecBranch
<1>3. PICK pos \in PosAnswers(Instr.cond, Declared),
           neg \in NegAnswers(Instr.cond, Declared) :
         /\ ~(pos /\ LrIsNull)
         /\ \E dest \in IF pos THEN Destinations ELSE {NoLabel} :
              LET next == IF neg THEN nextInst(label) ELSE NoLabel
              IN  decideToJump(
                    [label |-> dest, pathCondition |-> PosCond(Instr.cond)],
                    [label |-> next, pathCondition |-> NegCond(Instr.cond)],
                    Put({label, dest, next}))
  BY DEF ExecBranch
<1> DEFINE next == IF neg THEN nextInst(label) ELSE NoLabel
<1>4. PICK dest \in IF pos THEN Destinations ELSE {NoLabel} :
        decideToJump([label |-> dest, pathCondition |-> PosCond(Instr.cond)],
                     [label |-> next, pathCondition |-> NegCond(Instr.cond)],
                     Put({label, dest, next}))
  BY <1>3
<1> DEFINE t == [label |-> dest, pathCondition |-> PosCond(Instr.cond)]
           f == [label |-> next, pathCondition |-> NegCond(Instr.cond)]
           map == Put({label, dest, next})
<1>5. /\ PosCond(Instr.cond) \in SUBSET Inputs /\ NegCond(Instr.cond) \in SUBSET Inputs
      /\ pos \in BOOLEAN /\ neg \in BOOLEAN
  BY <1>1, <1>2, <1>3, BranchModels DEF TypeOK
<1>6. label \in Labels /\ known \in SUBSET Labels
  BY <1>1 DEF TypeOK, NodesOK
<1>7. dest \in Labels \cup {NoLabel} /\ (dest # NoLabel => pos /\ dest \in Destinations)
  BY <1>1, <1>2, <1>3, <1>4, <1>5, DestinationType
<1>8. next \in Labels \cup {NoLabel} /\ (next # NoLabel => neg /\ next = nextInst(label))
  BY <1>5, <1>6, NextType
<1>9. /\ pos => (Instr.cond # "" => Declared)
      /\ neg => Instr.cond # "" /\ Declared
  BY <1>3 DEF PosAnswers, NegAnswers, checkSAT
<1> HIDE DEF next
<1>10. map \in SUBSET Labels /\ NoLabel \notin map
  BY <1>6, <1>7, <1>8, NoLabelIsNone DEF Put
<1>11. decideToJump(t, f, map)
  BY <1>4
<1>12. /\ t.label = dest /\ t.pathCondition = PosCond(Instr.cond)
       /\ f.label = next /\ f.pathCondition = NegCond(Instr.cond)
  OBVIOUS
<1> HIDE DEF t, f, map
<1>13. \/ envStack = << >> /\ phase' = "exited" /\ UNCHANGED <<jumpTo, search>>
       \/ /\ t.label \in map /\ f.label \in map
          /\ phase' = "follow" /\ Resumes(Entry(t, map), Append(envStack, Entry(f, map)))
       \/ t.label \in map /\ phase' = "follow" /\ Resumes(Entry(t, map), envStack)
       \/ f.label \in map /\ phase' = "follow" /\ Resumes(Entry(f, map), envStack)
       \/ envStack # << >> /\ Resumes(Top(envStack), Below(envStack))
  BY <1>1, <1>5, <1>10, <1>11, <1>12, DecideCases
<1>14. /\ Entry(t, map).label = dest /\ Entry(t, map).pathCondition = PosCond(Instr.cond)
       /\ Entry(f, map).label = next /\ Entry(f, map).pathCondition = NegCond(Instr.cond)
       /\ Entry(f, map) = [label |-> next, pathCondition |-> NegCond(Instr.cond), known |-> map]
  BY <1>12 DEF Entry
<1>15. t.label \in map => dest # NoLabel /\ pos /\ dest \in Destinations
  BY <1>7, <1>10, <1>12
<1>16. f.label \in map => neg /\ next = nextInst(label)
  BY <1>8, <1>10, <1>12
<1>17. CASE envStack = << >> /\ phase' = "exited" /\ UNCHANGED <<jumpTo, search>>
  BY <1>17 DEF search
<1>18. CASE /\ t.label \in map /\ f.label \in map
            /\ phase' = "follow" /\ Resumes(Entry(t, map), Append(envStack, Entry(f, map)))
  <2>1. /\ jumpTo' = dest /\ pathCond' = PosCond(Instr.cond)
        /\ envStack' = Append(envStack, [label |-> nextInst(label),
                                pathCondition |-> NegCond(Instr.cond), known |-> map])
    BY <1>14, <1>16, <1>18 DEF Resumes
  <2> QED BY <1>9, <1>10, <1>15, <1>16, <1>18, <2>1
<1>19. CASE t.label \in map /\ phase' = "follow" /\ Resumes(Entry(t, map), envStack)
  BY <1>9, <1>14, <1>15, <1>19 DEF Resumes
<1>20. CASE f.label \in map /\ phase' = "follow" /\ Resumes(Entry(f, map), envStack)
  BY <1>9, <1>14, <1>16, <1>20 DEF Resumes
<1>21. CASE envStack # << >> /\ Resumes(Top(envStack), Below(envStack))
  BY <1>21 DEF Resumes
<1> QED BY <1>13, <1>17, <1>18, <1>19, <1>20, <1>21

\* Where Z is declared, the inputs of a condition are those whose machines meet it.
LEMMA HoldsIsMet ==
    ASSUME NEW cond \in Conds \ {""}, NEW i \in Inputs, NEW m \in Machines,
           zero.declared, FlagAgrees(zero, i, m)
    PROVE  i \in Holds(cond) <=> Met(cond, m)
BY DEF Holds, Met, FlagAgrees, Machines, Conds

\* The inputs of the true model meet the condition, those of the false one do not.
LEMMA ModelsSplit ==
    ASSUME IndInv, LockInv, phase = "exec", Instr.op \in BranchOps,
           Instr.cond # "" => Declared, NEW i \in pathCond \ astray
    PROVE  /\ i \in PosCond(Instr.cond) => Met(Instr.cond, machine[i])
           /\ i \in NegCond(Instr.cond) => ~Met(Instr.cond, machine[i])
<1>1. i \in Inputs /\ machine[i] \in Machines /\ Instr.cond \in Conds
  BY FrameTypes DEF IndInv, TypeOK, LockInv, HistoryOK, Instructions
<1>2. FlagAgrees(zero, i, machine[i])
  BY MatchedBefore
<1>3. CASE Instr.cond = ""
  BY <1>3 DEF PosCond, NegCond, Met
<1>4. CASE Instr.cond # ""
  <2>1. zero.declared
    BY <1>4 DEF Declared
  <2>2. i \in Holds(Instr.cond) <=> Met(Instr.cond, machine[i])
    BY <1>1, <1>2, <1>4, <2>1, HoldsIsMet
  <2> QED BY <1>4, <2>2 DEF PosCond, NegCond
<1> QED BY <1>3, <1>4

\* The machine of an input of the false model is past the branch.
LEMMA FalseModelPlace ==
    ASSUME IndInv, LockInv, LockstepNext, phase = "exec", Instr.op \in BranchOps,
           Instr.cond # "", Declared,
           NEW i \in NegCond(Instr.cond) \ astray
    PROVE  /\ nextInst(label) = Plain(machine'[i].pc)
           /\ At(code', nextInst(label), machine'[i])
<1>1. i \in pathCond \ astray
  BY DEF NegCond
<1>2. ~Met(Instr.cond, machine[i])
  BY <1>1, ModelsSplit
<1>3. /\ machine[i] \in Machines /\ machine'[i] = After(machine[i])
      /\ label.suffix = "" /\ machine[i].pc = label.at
  BY <1>1, <1>2, BranchMachine
<1>4. machine'[i].pc = label.at + InstructionSize
  BY <1>3, AfterFields
<1>5. nextInst(label) = Plain(label.at + InstructionSize)
  BY <1>3 DEF nextInst
<1>6. \A a : Plain(a).suffix = "" /\ Plain(a).at = a
  BY DEF Plain
<1> QED BY <1>4, <1>5, <1>6 DEF At, Where

\* The machine of an input of the true model is at the destination, unless it is
\* one of those an indirect branch misdirects.
LEMMA TrueModelPlace ==
    ASSUME IndInv, LockInv, LockstepNext, ExecBranch, Instr.cond # "" => Declared,
           jumpTo' \in Destinations, jumpTo' # NoLabel, pathCond' = PosCond(Instr.cond),
           NEW i \in pathCond' \ astray'
    PROVE  At(code', jumpTo', machine'[i])
<1> DEFINE m == machine[i]
<1>1. i \in pathCond \ astray /\ i \notin Misdirected
  BY StaysOnPath
<1>2. phase = "exec" /\ Instr.op \in BranchOps /\ Instr.op \in Variant.branches
  BY VariantBranches DEF ExecBranch
<1>3. Met(Instr.cond, m)
  BY <1>1, <1>2, ModelsSplit
<1>4. m \in Machines
  BY <1>1, <1>2, BranchMachine
<1>5. code' = code
  BY DEF LockstepNext
<1>6. CASE ViaTarget
  <2>1. jumpTo' = Instr.target /\ Instr.target # NoLabel
    BY <1>6 DEF Destinations, ViaTarget, Direct
  <2>2. CASE machine'[i] = m /\ At(code, Instr.target, m)
    BY <1>5, <2>1, <2>2
  <2>3. CASE /\ machine'[i] = ArmBranch(Instr, m)
             /\ Instr = code[label.at] /\ label.at \in DOMAIN code
    <3>1. Instr.target.suffix = ""
      BY <2>1, <2>3, OperandsAssumption DEF LockInv, HistoryOK
    <3>2. machine'[i].pc = Instr.target.at
      BY <1>4, <2>1, <2>3 DEF ArmBranch, Machines
    <3> QED BY <2>1, <3>1, <3>2 DEF At, Where
  <2> QED BY <1>1, <1>2, <1>3, <2>2, <2>3, BranchMachine
<1>7. CASE ~ViaTarget
  <2>1. jumpTo'.suffix = ""
    <3>1. \A a : Plain(a).suffix = ""
      BY DEF Plain
    <3>4. jumpTo' # Unevaluated
      BY <1>1, <1>2, <1>3, <1>7 DEF Misdirected
    <3>2. \/ \E j \in PosCond(Instr.cond) : jumpTo' = Plain(Operand.sym[j])
          \/ jumpTo' = DestinationOfLr
      BY <1>7, <3>4 DEF Destinations
    <3>3. DestinationOfLr # NoLabel => DestinationOfLr = Plain(Concrete(Linked["lr"]))
      BY DEF DestinationOfLr
    <3> QED BY <3>1, <3>2, <3>3
  <2>2. machine'[i].pc = jumpTo'.at
    BY <1>1, <1>2, <1>3, <1>7 DEF Misdirected
  <2> QED BY <2>1, <2>2 DEF At, Where
<1> QED BY <1>6, <1>7

\* A branch keeps the machines on the path matched.
LEMMA BranchOnPath ==
    ASSUME IndInv, LockInv, LockstepNext, ExecBranch PROVE OnPath' /\ LiteralsConstant'
<1>1. /\ phase = "exec" /\ Instr.op \in BranchOps /\ Instr.op \in Variant.branches
      /\ regs' = Linked /\ UNCHANGED <<label, zero, stacks>>
  BY VariantBranches DEF ExecBranch
<1>2. ASSUME phase' = "follow", jumpTo' # NoLabel,
             NEW i \in pathCond' \ astray', At(code', jumpTo', machine'[i])
      PROVE  Matched(i)
  <2>1. i \in pathCond \ astray
    BY <1>2, StaysOnPath
  <2>2. Heading' = jumpTo'
    BY <1>2 DEF Heading
  <2>3. /\ RegsAgree(Linked, doubted', i, machine'[i])
        /\ FlagAgrees(zero, i, machine'[i]) /\ StackAgrees(stacks, i, machine'[i])
    BY <1>1, <2>1, BranchAgrees
  <2> QED BY <1>1, <1>2, <2>2, <2>3 DEF Matched
<1>3. OnPath'
  <2>1. CASE phase' = "exited"
    BY <2>1 DEF OnPath
  <2>2. CASE envStack # << >> /\ envStack' = Below(envStack)
    <3>1. Len(envStack') < Len(envStack)
      BY <2>2, BelowProperties DEF IndInv, TypeOK
    <3>2. pathCond' \ astray' = {}
      BY <3>1, RollbackStrays
    <3> QED BY <3>2 DEF OnPath
  <2>3. CASE /\ phase' = "follow" /\ jumpTo' \in Destinations /\ jumpTo' # NoLabel
             /\ pathCond' = PosCond(Instr.cond) /\ (Instr.cond # "" => Declared)
    <3>1. \A i \in pathCond' \ astray' : At(code', jumpTo', machine'[i])
      BY <2>3, TrueModelPlace
    <3> QED BY <1>2, <2>3, <3>1, MatchedOnPath
  <2>4. CASE /\ phase' = "follow" /\ jumpTo' = nextInst(label)
             /\ pathCond' = NegCond(Instr.cond) /\ Instr.cond # "" /\ Declared
    <3>1. jumpTo' # NoLabel
      BY <2>4, FrameTypes, NextType, NoLabelIsNone
    <3>2. ASSUME NEW i \in pathCond' \ astray' PROVE At(code', jumpTo', machine'[i])
      <4>1. i \in NegCond(Instr.cond) \ astray
        BY <2>4, <3>2, StaysOnPath
      <4> QED BY <1>1, <2>4, <4>1, FalseModelPlace
    <3> QED BY <1>2, <2>4, <3>1, <3>2, MatchedOnPath
  <2> QED BY <2>1, <2>2, <2>3, <2>4, BranchOutcome
<1>4. LiteralsConstant'
  <2>1. Constant(Literal(Link))
    BY ConstantsAssumption DEF Constant, Literal, Concrete
  <2>2. \A r \in Regs : Constant(Linked[r])
    BY <2>1, FrameTypes DEF Linked, LockInv, LiteralsConstant
  <2> QED BY <1>1, <2>2 DEF LockInv, LiteralsConstant
<1> QED BY <1>3, <1>4

\* What a branch leaves pending waits where its machines do.
LEMMA BranchPending ==
    ASSUME IndInv, LockInv, LockstepNext, ExecBranch PROVE PendingSound' /\ RunningApart'
<1>1. /\ envStack \in Seq(Models) /\ Len(envStack) \in Nat
      /\ DOMAIN envStack = 1..Len(envStack) /\ pathCond \in SUBSET Inputs
  BY LenProperties DEF IndInv, TypeOK
<1>2. phase = "exec" /\ Instr.op \in BranchOps
  BY VariantBranches DEF ExecBranch
<1>3. astray \subseteq astray'
  BY DEF LockstepNext
<1>4. CASE pathCond' \subseteq pathCond /\ envStack' = envStack
  BY <1>4, WaitersWait DEF PendingSound, RunningApart
<1>5. CASE envStack # << >> /\ envStack' = Below(envStack)
  <2>1. /\ Len(envStack) \in Nat \ {0} /\ Below(envStack) \in Seq(Models)
        /\ Len(Below(envStack)) = Len(envStack) - 1
        /\ \A k \in 1..(Len(envStack) - 1) : Below(envStack)[k] = envStack[k]
    BY <1>1, <1>5, BelowProperties
  <2>2. DOMAIN Below(envStack) = 1..(Len(envStack) - 1)
    BY <2>1, LenProperties
  <2>3. \A k \in DOMAIN envStack' : k \in DOMAIN envStack /\ envStack'[k] = envStack[k]
    BY <1>1, <1>5, <2>1, <2>2
  <2>4. pathCond' \ astray' = {}
    BY <1>5, <2>1, RollbackStrays
  <2> QED BY <2>3, <2>4, WaitersWait DEF PendingSound, RunningApart
<1>6. ASSUME pathCond' = PosCond(Instr.cond), Instr.cond # "", Declared,
             NEW map \in SUBSET Labels,
             envStack' = Append(envStack, [label |-> nextInst(label),
                                  pathCondition |-> NegCond(Instr.cond), known |-> map])
      PROVE  PendingSound' /\ RunningApart'
  <2> DEFINE e == [label |-> nextInst(label), pathCondition |-> NegCond(Instr.cond),
                   known |-> map]
  <2>1. e \in Models
    BY <1>1, FrameTypes, NextType DEF Models, NegCond
  <2>2. e.label = nextInst(label) /\ e.pathCondition = NegCond(Instr.cond)
    OBVIOUS
  <2>3. envStack' = Append(envStack, e)
    BY <1>6
  <2> HIDE DEF e
  <2>4. /\ envStack' \in Seq(Models) /\ Len(envStack') = Len(envStack) + 1
        /\ \A k \in 1..Len(envStack) : envStack'[k] = envStack[k]
        /\ envStack'[Len(envStack) + 1] = e
    BY <1>1, <2>1, <2>3, AppendProperties
  <2>5. \A k \in DOMAIN envStack' : \/ k \in DOMAIN envStack /\ envStack'[k] = envStack[k]
                                    \/ envStack'[k] = e
    BY <1>1, <2>4, LenProperties
  <2>6. /\ pathCond' \subseteq pathCond
        /\ NegCond(Instr.cond) \cap pathCond' = {}
    BY <1>6 DEF PosCond, NegCond
  <2>7. \A i \in e.pathCondition \ astray' : e.label = Plain(machine'[i].pc)
    BY <1>2, <1>3, <1>6, <2>2, FalseModelPlace
  <2>8. PendingSound'
    BY <2>5, <2>7, WaitersWait DEF PendingSound
  <2>9. RunningApart'
    BY <2>2, <2>5, <2>6, WaitersWait DEF RunningApart
  <2> QED BY <2>8, <2>9
<1>7. PosCond(Instr.cond) \subseteq pathCond /\ NegCond(Instr.cond) \subseteq pathCond
  BY DEF PosCond, NegCond
<1> QED BY <1>4, <1>5, <1>6, <1>7, BranchOutcome

\* The link that bl writes is a literal.
LEMMA LinkConstant ==
    ASSUME IndInv, LockInv, regs' = Linked, UNCHANGED stacks PROVE LiteralsConstant'
<1>1. Constant(Literal(Link))
  BY ConstantsAssumption DEF Constant, Literal, Concrete
<1>2. \A r \in Regs : Constant(Linked[r])
  BY <1>1, FrameTypes DEF Linked, LockInv, LiteralsConstant
<1> QED BY <1>2 DEF LockInv, LiteralsConstant

\* A branch that throws has written lr at most.
LEMMA BranchThrowsOnPath ==
    ASSUME IndInv, LockInv, BranchThrows PROVE OnPath' /\ LiteralsConstant'
<1>1. phase' = "returned" /\ regs' = Linked /\ UNCHANGED stacks
  BY DEF BranchThrows, Throw
<1>2. LiteralsConstant'
  BY <1>1, LinkConstant
<1> QED BY <1>1, <1>2 DEF OnPath

\* A branch that M0 ignores keeps on the path the inputs that do not take it.
LEMMA BranchIgnoredOnPath ==
    ASSUME IndInv, LockInv, LockstepNext, BranchIgnored PROVE OnPath' /\ LiteralsConstant'
<1>1. /\ phase = "exec" /\ Instr.op \in Variant.branches /\ Instr.op \in BranchOps
      /\ ~ViaTarget /\ phase' = "follow" /\ regs' = Linked
      /\ UNCHANGED <<label, jumpTo, zero, stacks>>
  BY VariantBranches DEF BranchIgnored, ViaTarget
<1>2. jumpTo' = NoLabel /\ jumpTo' # Unevaluated
  BY <1>1, NameIsNoPlace DEF IndInv, TypeOK
<1>3. label.suffix # "-2" /\ label \in Labels
  BY <1>1, NodeCases DEF LockInv, Guarded, Unconditional, Instructions
<1>4. ASSUME NEW i \in pathCond' \ astray' PROVE Matched(i)
  <2> DEFINE m == machine[i]
  <2>1. i \in pathCond \ astray /\ i \notin Misdirected
    BY StaysOnPath
  <2>2. nextInst(label) = Plain(label.at + InstructionSize)
    BY <1>3 DEF nextInst
  <2>3. nextInst(label).at = label.at + InstructionSize /\ nextInst(label).suffix = ""
    <3>1. \A a : Plain(a).suffix = "" /\ Plain(a).at = a
      BY DEF Plain
    <3> QED BY <2>2, <3>1
  <2>4. machine'[i].pc = nextInst(label).at
    <3>1. CASE Met(Instr.cond, m)
      BY <1>1, <1>2, <2>1, <3>1 DEF Misdirected
    <3>2. CASE ~Met(Instr.cond, m)
      <4>1. m \in Machines /\ machine'[i] = After(m) /\ m.pc = label.at
        BY <1>1, <2>1, <3>2, BranchMachine
      <4> QED BY <2>3, <4>1, AfterFields
    <3> QED BY <3>1, <3>2
  <2>5. Heading' = nextInst(label)
    BY <1>1, <1>2 DEF Heading
  <2>6. At(code', Heading', machine'[i])
    BY <2>3, <2>4, <2>5 DEF At, Where
  <2>7. /\ RegsAgree(Linked, doubted', i, machine'[i])
        /\ FlagAgrees(zero, i, machine'[i]) /\ StackAgrees(stacks, i, machine'[i])
    BY <1>1, <2>1, BranchAgrees
  <2> QED BY <1>1, <2>6, <2>7 DEF Matched
<1>5. LiteralsConstant'
  BY <1>1, LinkConstant
<1> QED BY <1>4, <1>5, MatchedOnPath

\* A stack that runs out ends the path, after lr was written or before.
LEMMA OverflowOnPath ==
    ASSUME IndInv, LockInv, StackOverflow PROVE OnPath' /\ LiteralsConstant'
<1>1. /\ phase' = "returned" /\ UNCHANGED stacks
      /\ regs' = regs \/ regs' = Linked
  BY DEF StackOverflow, Return, Throw, env
<1>2. CASE regs' = regs
  BY <1>1, <1>2 DEF OnPath, LockInv, LiteralsConstant
<1>3. CASE regs' = Linked
  BY <1>1, <1>3, LinkConstant DEF OnPath
<1> QED BY <1>1, <1>2, <1>3

-----------------------------------------------------------------------------
(***************************************************************************)
(* push and pop                                                            *)
(***************************************************************************)
\* The elements of a concatenation.
LEMMA ConcatElements ==
    ASSUME NEW S, NEW s \in Seq(S), NEW t \in Seq(S)
    PROVE  /\ s \o t \in Seq(S) /\ Len(s \o t) = Len(s) + Len(t)
           /\ \A k \in 1..Len(s) : (s \o t)[k] = s[k]
           /\ \A k \in 1..Len(t) : (s \o t)[Len(s) + k] = t[k]
           /\ \A k \in 1..Len(s \o t) : \/ k \in 1..Len(s)
                                        \/ k - Len(s) \in 1..Len(t) /\ k = Len(s) + (k - Len(s))
           /\ Len(s) \in Nat /\ Len(t) \in Nat
<1>1. Len(s) \in Nat /\ Len(t) \in Nat
  BY LenProperties
<1>2. /\ s \o t \in Seq(S) /\ Len(s \o t) = Len(s) + Len(t)
      /\ \A k \in 1..(Len(s) + Len(t)) :
            (s \o t)[k] = IF k <= Len(s) THEN s[k] ELSE t[k - Len(s)]
  BY ConcatProperties
<1>3. \A k \in 1..Len(s) : (s \o t)[k] = s[k]
  BY <1>1, <1>2
<1>4. ASSUME NEW k \in 1..Len(t) PROVE (s \o t)[Len(s) + k] = t[k]
  <2>1. /\ Len(s) + k \in 1..(Len(s) + Len(t)) /\ ~(Len(s) + k <= Len(s))
        /\ Len(s) + k - Len(s) = k
    BY <1>1
  <2> QED BY <1>2, <2>1
<1>5. ASSUME NEW k \in 1..(Len(s) + Len(t))
      PROVE  \/ k \in 1..Len(s)
             \/ k - Len(s) \in 1..Len(t) /\ k = Len(s) + (k - Len(s))
  BY <1>1
<1> QED BY <1>1, <1>2, <1>3, <1>4, <1>5

\* Values that agree, pushed on stacks that agree.
LEMMA PushAgrees ==
    ASSUME NEW st \in Seq(Values), NEW p \in Seq(Values), NEW q \in Seq(Nat),
           NEW i, NEW m, m.stack \in Seq(Nat), NEW w, w.stack = m.stack \o q,
           StackAgrees(st, i, m), Len(p) = Len(q),
           \A k \in 1..Len(p) : Known(p[k]) => p[k].sym[i] = q[k]
    PROVE  StackAgrees(st \o p, i, w)
<1>1. /\ Len(st) = Len(m.stack)
      /\ \A k \in 1..Len(st) : Known(st[k]) => st[k].sym[i] = m.stack[k]
  BY DEF StackAgrees
<1>2. /\ Len(st \o p) = Len(st) + Len(p)
      /\ \A k \in 1..Len(st) : (st \o p)[k] = st[k]
      /\ \A k \in 1..Len(p) : (st \o p)[Len(st) + k] = p[k]
      /\ \A k \in 1..Len(st \o p) : \/ k \in 1..Len(st)
                                    \/ /\ k - Len(st) \in 1..Len(p)
                                       /\ k = Len(st) + (k - Len(st))
  <2>1. st \in Seq(Values) /\ p \in Seq(Values)
    OBVIOUS
  <2> QED BY ONLY <2>1, ConcatElements
<1>3. /\ Len(m.stack \o q) = Len(m.stack) + Len(q)
      /\ \A k \in 1..Len(m.stack) : (m.stack \o q)[k] = m.stack[k]
      /\ \A k \in 1..Len(q) : (m.stack \o q)[Len(m.stack) + k] = q[k]
  BY ConcatElements
<1>4. ASSUME NEW k \in 1..Len(st \o p), Known((st \o p)[k])
      PROVE  (st \o p)[k].sym[i] = (m.stack \o q)[k]
  <2>1. CASE k \in 1..Len(st)
    <3>1. (st \o p)[k] = st[k] /\ (m.stack \o q)[k] = m.stack[k]
      BY <1>1, <1>2, <1>3, <2>1
    <3> QED BY <1>1, <1>4, <2>1, <3>1
  <2>2. CASE k - Len(st) \in 1..Len(p) /\ k = Len(st) + (k - Len(st))
    <3> DEFINE j == k - Len(st)
    <3>1. j \in 1..Len(p) /\ k = Len(st) + j
      BY <2>2
    <3> HIDE DEF j
    <3>2. (st \o p)[k] = p[j] /\ (m.stack \o q)[k] = q[j]
      BY <1>1, <1>2, <1>3, <3>1
    <3> QED BY <1>4, <3>1, <3>2
  <2> QED BY <1>2, <2>1, <2>2
<1> QED BY <1>1, <1>2, <1>3, <1>4 DEF StackAgrees

\* push leaves stacks that agree, unless a list is pushed the wrong way round or one
\* of its registers is in doubt.
LEMMA PushOnPath ==
    ASSUME IndInv, LockInv, LockstepNext, ExecPush PROVE OnPath' /\ LiteralsConstant'
<1>1. PICK c \in 0..Len(Instr.regs) :
         /\ \A k \in 1..c : regs[PushOrder[k]] # Null
         /\ stacks' = stacks \o [k \in 1..c |-> regs[PushOrder[k]]]
         /\ \/ c = Len(Instr.regs) /\ NoJump
            \/ Throw
  BY DEF ExecPush
<1>2. phase = "exec" /\ Instr.op = "push" /\ UNCHANGED <<regs, zero>>
  BY DEF ExecPush, Executes
<1>3. Instr.regs \in Seq(Regs)
  BY <1>2, FrameTypes DEF WellFormed
<1>4. DOMAIN Instr.regs = 1..Len(Instr.regs) /\ Len(Instr.regs) \in Nat /\ c \in Nat
  BY <1>3, LenProperties
<1> DEFINE pushed == [k \in 1..c |-> regs[PushOrder[k]]]
           place(k) == IF Variant.pushReversed THEN Len(Instr.regs) - k + 1 ELSE k
<1>5. ASSUME NEW k \in 1..c
      PROVE  /\ place(k) \in DOMAIN Instr.regs /\ PushOrder[k] = Instr.regs[place(k)]
             /\ PushOrder[k] \in Regs /\ regs[PushOrder[k]] \in Values
  <2>1. place(k) \in DOMAIN Instr.regs /\ k \in DOMAIN Instr.regs
    BY <1>4
  <2>2. PushOrder[k] = Instr.regs[place(k)]
    BY <2>1 DEF PushOrder
  <2> HIDE DEF place
  <2>3. Instr.regs[place(k)] \in Regs
    BY <1>3, <1>4, <2>1, ElementOfSeq
  <2> QED BY <1>1, <2>1, <2>2, <2>3, FrameTypes
<1>6. pushed \in Seq(Values) /\ Len(pushed) = c /\ stacks' = stacks \o pushed
  <2>1. pushed \in [1..c -> Values]
    BY <1>5
  <2>2. stacks' = stacks \o pushed
    BY <1>1
  <2> HIDE DEF pushed
  <2>3. pushed \in Seq(Values)
    BY <1>4, <2>1, SeqDef
  <2>4. Len(pushed) = c
    BY <1>4, <2>1, <2>3, LenProperties
  <2> QED BY <2>2, <2>3, <2>4
<1>7. \A k \in 1..c : pushed[k] = regs[PushOrder[k]]
  OBVIOUS
<1> HIDE DEF pushed, place
<1>8. LiteralsConstant'
  <2>1. stacks \in Seq(Values)
    BY FrameTypes
  <2>2. /\ \A k \in 1..Len(stacks) : (stacks \o pushed)[k] = stacks[k]
        /\ \A k \in 1..Len(pushed) : (stacks \o pushed)[Len(stacks) + k] = pushed[k]
        /\ \A k \in 1..Len(stacks \o pushed) : \/ k \in 1..Len(stacks)
                                        \/ /\ k - Len(stacks) \in 1..Len(pushed)
                                           /\ k = Len(stacks) + (k - Len(stacks))
    BY <1>6, <2>1, ConcatElements
  <2>3. \A k \in 1..Len(pushed) : Constant(pushed[k])
    BY <1>5, <1>6, <1>7 DEF LockInv, LiteralsConstant
  <2>4. \A k \in 1..Len(stacks \o pushed) : Constant((stacks \o pushed)[k])
    BY <2>2, <2>3 DEF LockInv, LiteralsConstant
  <2>5. \A r \in Regs : Constant(regs'[r])
    BY <1>2 DEF LockInv, LiteralsConstant
  <2> QED BY <1>6, <2>4, <2>5 DEF LiteralsConstant
<1>9. ASSUME c = Len(Instr.regs), NoJump, NEW i \in pathCond' \ astray' PROVE Matched(i)
  <2> DEFINE n == code[label.at]
             m == machine[i]
             list == [k \in 1..c |-> m.regs[Instr.regs[c - k + 1]]]
             w == [m EXCEPT !.stack = m.stack \o list]
  <2>1. i \in pathCond \ astray /\ i \in Inputs /\ i \notin Misread
    BY <1>9, StaysOnPath DEF IndInv, TypeOK
  <2>2. Instr.op \notin BranchOps
    BY <1>2 DEF BranchOps
  <2>3. /\ n.op = "push" /\ n.regs = Instr.regs
        /\ m \in Machines /\ machine'[i] = ArmExec(n, m) /\ m.pc = label.at
    BY <1>2, <2>1, <2>2, Executed
  <2>4. m.stack \in Seq(Nat) /\ m.regs \in [Regs -> Nat]
    BY <2>3 DEF Machines
  <2>5. machine'[i] = After(w)
    BY <1>9, <2>3, <2>4 DEF ArmExec, ArmPush, BranchOps
  <2>6. list \in Seq(Nat) /\ Len(list) = c
    <3>1. ASSUME NEW k \in 1..c PROVE m.regs[Instr.regs[c - k + 1]] \in Nat
      <4>1. c - k + 1 \in 1..Len(Instr.regs)
        BY <1>4, <1>9
      <4>2. Instr.regs[c - k + 1] \in Regs
        BY <1>3, <4>1, ElementOfSeq
      <4> QED BY <2>4, <4>2
    <3>2. list \in [1..c -> Nat]
      BY <3>1
    <3> HIDE DEF list
    <3>3. list \in Seq(Nat)
      BY <1>4, <3>2, SeqDef
    <3> QED BY <1>4, <3>2, <3>3, LenProperties
  <2>7. ASSUME NEW k \in 1..c, Known(pushed[k]) PROVE pushed[k].sym[i] = list[k]
    <3>1. Variant.pushReversed \/ Len(Instr.regs) <= 1
      BY <1>2, <1>4, <2>1 DEF Misread
    <3>2. PushOrder[k] = Instr.regs[c - k + 1]
      <4>1. place(k) = c - k + 1
        BY <1>4, <1>9, <3>1 DEF place
      <4> QED BY <1>5, <4>1
    <3>3. PushOrder[k] \in Regs \ doubted
      BY <1>2, <1>5, <2>1 DEF Misread
    <3>4. RegsAgree(regs, doubted, i, m)
      BY <1>2, <2>1, MatchedBefore
    <3>5. list[k] = m.regs[PushOrder[k]]
      BY <3>2
    <3> HIDE DEF list
    <3> QED BY <1>7, <2>7, <3>3, <3>4, <3>5 DEF RegsAgree
  <2> HIDE DEF list
  <2>8. m.stack \o list \in Seq(Nat)
    BY <2>4, <2>6, ConcatElements
  <2>9. /\ w \in Machines /\ w.pc = m.pc /\ w.z = m.z /\ w.regs = m.regs
        /\ w.stack = m.stack \o list
    BY <2>3, <2>8 DEF Machines
  <2> HIDE DEF w
  <2>10. /\ machine'[i].pc = label.at + InstructionSize /\ machine'[i].regs = m.regs
         /\ machine'[i].z = m.z /\ machine'[i].stack = m.stack \o list
    BY <2>3, <2>5, <2>9, AfterFields
  <2>11. doubted' = doubted
    BY <1>2 DEF LockstepNext, Doubt
  <2>12. RegsAgree(regs, doubted, i, m) /\ StackAgrees(stacks, i, m) /\ FlagAgrees(zero, i, m)
    BY <1>2, <2>1, MatchedBefore
  <2>13. StackAgrees(stacks', i, machine'[i])
    <3>1. stacks \in Seq(Values)
      BY FrameTypes
    <3> QED BY <1>6, <2>4, <2>6, <2>7, <2>10, <2>12, <3>1, PushAgrees
  <2>14. RegsAgree(regs', doubted', i, machine'[i]) /\ FlagAgrees(zero', i, machine'[i])
    BY <1>2, <2>10, <2>11, <2>12 DEF RegsAgree, FlagAgrees
  <2>15. At(code', Heading', machine'[i])
    BY <1>2, <1>9, <2>1, <2>2, <2>10, GoesOn
  <2> QED BY <2>13, <2>14, <2>15 DEF Matched
<1>10. CASE Throw
  BY <1>8, <1>10 DEF Throw, OnPath
<1> QED BY <1>1, <1>8, <1>9, <1>10, MatchedOnPath

\* What the machine's pop reads, for a list without repetitions.
LEMMA ArmPopReads ==
    ASSUME NEW m \in Machines, NEW n \in Instructions,
           \A j, k \in DOMAIN n.regs : j # k => n.regs[j] # n.regs[k]
    PROVE  /\ ArmPop(n, m).z = m.z
           /\ ArmPop(n, m).stack = SubSeq(m.stack, 1, Len(m.stack) - Len(n.regs))
           /\ \A k \in DOMAIN n.regs : k <= Len(m.stack) =>
                 /\ n.regs[k] \in Regs =>
                      ArmPop(n, m).regs[n.regs[k]] = m.stack[Len(m.stack) - k + 1]
                 /\ n.regs[k] = "pc" => ArmPop(n, m).pc = m.stack[Len(m.stack) - k + 1]
           /\ \A r \in Regs : (\A k \in DOMAIN n.regs : n.regs[k] # r) =>
                 ArmPop(n, m).regs[r] = m.regs[r]
           /\ (\A k \in DOMAIN n.regs : n.regs[k] # "pc") =>
                 ArmPop(n, m).pc = m.pc + InstructionSize
<1> DEFINE top == Len(m.stack)
           at(r) == {k \in DOMAIN n.regs : n.regs[k] = r /\ k <= top}
           popped(r, else) == IF at(r) = {} THEN else
                              ELSE m.stack[top - (CHOOSE k \in at(r) : TRUE) + 1]
           rs == [r \in Regs |-> popped(r, m.regs[r])]
           pc == IF "pc" \in {n.regs[k] : k \in DOMAIN n.regs}
                   THEN popped("pc", Elsewhere) ELSE m.pc + InstructionSize
<1>1. ArmPop(n, m) = [m EXCEPT !.regs = rs,
                                !.stack = SubSeq(@, 1, top - Len(n.regs)), !.pc = pc]
  BY DEF ArmPop
<1>2. ASSUME NEW k \in DOMAIN n.regs, k <= top, NEW else
      PROVE  popped(n.regs[k], else) = m.stack[top - k + 1]
  <2>1. at(n.regs[k]) = {k}
    BY <1>2
  <2>2. (CHOOSE j \in at(n.regs[k]) : TRUE) = k
    BY <2>1
  <2> QED BY <2>1, <2>2
<1>3. ASSUME NEW r, \A k \in DOMAIN n.regs : n.regs[k] # r, NEW else
      PROVE  popped(r, else) = else
  <2>1. at(r) = {}
    BY <1>3
  <2> QED BY <2>1
<1>4. \A r \in Regs : rs[r] = popped(r, m.regs[r])
  OBVIOUS
<1> HIDE DEF popped, rs, pc, top
<1>5. /\ ArmPop(n, m).z = m.z /\ ArmPop(n, m).regs = rs /\ ArmPop(n, m).pc = pc
      /\ ArmPop(n, m).stack = SubSeq(m.stack, 1, top - Len(n.regs))
  BY <1>1 DEF Machines
<1>6. ASSUME NEW k \in DOMAIN n.regs, k <= top
      PROVE  /\ n.regs[k] \in Regs => rs[n.regs[k]] = m.stack[top - k + 1]
             /\ n.regs[k] = "pc" => pc = m.stack[top - k + 1]
  <2>1. n.regs[k] = "pc" => pc = popped("pc", Elsewhere)
    BY DEF pc
  <2>2. /\ popped(n.regs[k], Elsewhere) = m.stack[top - k + 1]
        /\ popped(n.regs[k], m.regs[n.regs[k]]) = m.stack[top - k + 1]
    BY <1>2, <1>6
  <2> QED BY <1>4, <2>1, <2>2
<1>7. ASSUME NEW r \in Regs, \A k \in DOMAIN n.regs : n.regs[k] # r
      PROVE  rs[r] = m.regs[r]
  BY <1>3, <1>4, <1>7
<1>8. (\A k \in DOMAIN n.regs : n.regs[k] # "pc") => pc = m.pc + InstructionSize
  BY DEF pc
<1> QED BY <1>5, <1>6, <1>7, <1>8 DEF top

\* Equally long prefixes of stacks that agree agree.
LEMMA PopAgrees ==
    ASSUME NEW st \in Seq(Values), NEW i, NEW m, m.stack \in Seq(Nat), NEW e \in Int,
           e <= Len(st), StackAgrees(st, i, m),
           NEW w, w.stack = SubSeq(m.stack, 1, e)
    PROVE  StackAgrees(SubSeq(st, 1, e), i, w)
<1>1. /\ Len(st) = Len(m.stack) /\ Len(st) \in Nat
      /\ \A k \in 1..Len(st) : Known(st[k]) => st[k].sym[i] = m.stack[k]
  BY LenProperties DEF StackAgrees
<1>2. \A k \in 1..e : k \in 1..Len(st) /\ st[k] \in Values /\ m.stack[k] \in Nat
  <2>1. \A k \in 1..e : k \in 1..Len(st)
    BY <1>1
  <2> QED BY <1>1, <2>1, ElementOfSeq
<1>3. /\ Len(SubSeq(st, 1, e)) = IF 1 <= e THEN e - 1 + 1 ELSE 0
      /\ \A k \in 1..(e - 1 + 1) : SubSeq(st, 1, e)[k] = st[1 + k - 1]
  BY <1>2, SubSeqProperties
<1>4. /\ Len(SubSeq(m.stack, 1, e)) = IF 1 <= e THEN e - 1 + 1 ELSE 0
      /\ \A k \in 1..(e - 1 + 1) : SubSeq(m.stack, 1, e)[k] = m.stack[1 + k - 1]
  BY <1>2, SubSeqProperties
<1>5. /\ \A k \in 1..e : SubSeq(st, 1, e)[k] = st[k] /\ SubSeq(m.stack, 1, e)[k] = m.stack[k]
      /\ \A k \in 1..Len(SubSeq(st, 1, e)) : k \in 1..e
  BY <1>3, <1>4
<1> QED BY <1>1, <1>2, <1>3, <1>4, <1>5 DEF StackAgrees

\* What a pop that was executed leaves.
LEMMA PopOutcome ==
    ASSUME IndInv, ExecPop
    PROVE  /\ phase = "exec" /\ Instr.op = "pop" /\ label' = label
           /\ \E rand \in [DOMAIN Instr.regs -> RandVals] :
                LET pc == Popped(Len(Instr.regs), rand)
                IN  /\ regs' = PopRegs(rand) /\ stacks' = PopStacks /\ UNCHANGED zero
                    /\ \/ phase' = "returned" /\ UNCHANGED <<pathCond, envStack>>
                       \/ NoJump
                       \/ /\ phase' = "follow" /\ UNCHANGED envStack
                          /\ pc # Null /\ pc.kind = "literal"
                          /\ Instr.regs[Len(Instr.regs)] = "pc"
                          /\ jumpTo' = Plain(Concrete(pc)) /\ jumpTo' # NoLabel
<1>1. PICK rand \in [DOMAIN Instr.regs -> RandVals] :
         LET pc == Popped(Len(Instr.regs), rand)
         IN  /\ regs' = PopRegs(rand) /\ stacks' = PopStacks /\ UNCHANGED zero
             /\ \/ Throw
                \/ NoJump
                \/ /\ PopsPc /\ pc # Null /\ pc.kind = "literal"
                   /\ \E pre \in IF CondTooLong THEN {pathCond, Inputs} ELSE {pathCond} :
                        pcJump([label |-> Plain(Concrete(pc)), pathCondition |-> pre],
                               Put({label, Plain(Concrete(pc))}))
                   /\ UNCHANGED <<program, label, graph>>
  BY DEF ExecPop
<1> DEFINE pc == Popped(Len(Instr.regs), rand)
<1>2. phase = "exec" /\ Instr.op = "pop"
  BY DEF ExecPop, Executes
<1>3. CASE Throw
  BY <1>1, <1>2, <1>3 DEF Throw
<1>4. CASE NoJump
  BY <1>1, <1>2, <1>4 DEF NoJump
<1>5. ASSUME PopsPc, pc # Null, pc.kind = "literal", UNCHANGED label,
             NEW pre \in SUBSET Inputs,
             pcJump([label |-> Plain(Concrete(pc)), pathCondition |-> pre],
                    Put({label, Plain(Concrete(pc))}))
      PROVE  /\ phase' = "follow" /\ UNCHANGED envStack
             /\ jumpTo' = Plain(Concrete(pc)) /\ jumpTo' # NoLabel
  <2>1. Plain(Concrete(pc)) \in Labels
    <3>1. Instr.regs # << >>
      BY <1>2, FrameTypes DEF WellFormed
    <3>2. Len(Instr.regs) \in DOMAIN Instr.regs
      BY <3>1, FrameTypes, BelowProperties, LenProperties
    <3>3. pc \in Values
      BY <1>5, <3>2, PopTypes
    <3> HIDE DEF pc
    <3>4. Concrete(pc) \in Nat
      BY <3>3, ConstantsAssumption DEF Concrete, Values
    <3> QED BY <3>4, LabelTypes
  <2> DEFINE t == [label |-> Plain(Concrete(pc)), pathCondition |-> pre]
             map == Put({label, Plain(Concrete(pc))})
  <2>2. envStack \in Seq(Models) /\ RollbackSafe /\ known \in SUBSET Labels /\ label \in Labels
    BY FrameTypes DEF IndInv, TypeOK
  <2>3. Plain(Concrete(pc)) # NoLabel
    BY <2>1, NoLabelIsNone
  <2>4. map \in SUBSET Labels /\ NoLabel \notin map /\ Plain(Concrete(pc)) \in map
    BY <2>1, <2>2, <2>3, NoLabelIsNone DEF Put
  <2>5. t.label = Plain(Concrete(pc)) /\ t.pathCondition = pre /\ pcJump(t, map)
    BY <1>5
  <2> HIDE DEF t, map, pc
  <2>6. decideToJump(t, NoModel, map)
    BY <2>2, <2>4, <2>5, PcJumpDecides
  <2>7. NoModel.label = NoLabel /\ NoModel.pathCondition \in SUBSET Inputs
    BY DEF NoModel
  <2>8. phase' = "follow" /\ Resumes(Entry(t, map), envStack)
    BY <1>5, <2>2, <2>4, <2>5, <2>6, <2>7, DecideCases
  <2> QED BY <2>3, <2>5, <2>8 DEF Resumes, Entry
<1>6. \A pre \in IF CondTooLong THEN {pathCond, Inputs} ELSE {pathCond} : pre \in SUBSET Inputs
  BY DEF IndInv, TypeOK
<1>7. PopsPc => Instr.regs[Len(Instr.regs)] = "pc"
  BY DEF PopsPc, Top
<1> QED BY <1>1, <1>2, <1>3, <1>4, <1>5, <1>6, <1>7

\* A value that pop reads is what the machine pops, and stays constant if it was.
LEMMA PoppedAgrees ==
    ASSUME IndInv, LockInv, phase = "exec",
           NEW rand, NEW k \in DOMAIN Instr.regs
    PROVE  /\ Constant(Popped(k, rand))
           /\ Known(Popped(k, rand)) =>
                /\ k <= Len(stacks)
                /\ \A i \in pathCond \ astray :
                      Popped(k, rand).sym[i] = machine[i].stack[Len(machine[i].stack) - k + 1]
<1>1. /\ Len(stacks) \in Nat /\ k \in Nat \ {0}
  BY FrameTypes, LenProperties
<1>2. CASE k > Len(stacks)
  <2>1. Popped(k, rand) = [kind |-> "SYM", sym |-> [i \in Inputs |-> rand[k]]]
    BY <1>2 DEF Popped
  <2>2. Popped(k, rand).kind = "SYM"
    BY <2>1
  <2> QED BY <2>2 DEF Constant, Known
<1>3. CASE ~(k > Len(stacks))
  <2> DEFINE v == stacks[Len(stacks) - k + 1]
  <2>1. k <= Len(stacks) /\ Len(stacks) - k + 1 \in 1..Len(stacks)
    BY <1>1, <1>3
  <2>2. Popped(k, rand) = IF v.kind = "SYM" THEN Null ELSE v
    BY <1>3 DEF Popped
  <2>3. Constant(v)
    BY <2>1 DEF LockInv, LiteralsConstant
  <2>4. ASSUME NEW i \in pathCond \ astray, Known(v)
        PROVE  v.sym[i] = machine[i].stack[Len(machine[i].stack) - k + 1]
    BY <2>1, <2>4, MatchedBefore DEF StackAgrees
  <2> HIDE DEF v
  <2>5. Constant(Popped(k, rand))
    BY <2>2, <2>3 DEF Constant
  <2>6. Known(Popped(k, rand)) => Popped(k, rand) = v /\ Known(v)
    BY <2>2 DEF Known
  <2> QED BY <2>1, <2>4, <2>5, <2>6
<1> QED BY <1>2, <1>3

\* The place of a register in the list of a pop.
LEMMA PopPlace ==
    ASSUME NEW rand, NEW r \in Regs
    PROVE  \/ /\ \A k \in DOMAIN Instr.regs : Instr.regs[k] # r
              /\ PopRegs(rand)[r] = regs[r]
           \/ \E k \in DOMAIN Instr.regs : Instr.regs[k] = r /\ PopRegs(rand)[r] = Popped(k, rand)
<1>1. CASE \A k \in DOMAIN Instr.regs : Instr.regs[k] # r
  BY <1>1 DEF PopRegs
<1>2. CASE \E k \in DOMAIN Instr.regs : Instr.regs[k] = r
  <2> DEFINE j == CHOOSE k \in DOMAIN Instr.regs : Instr.regs[k] = r
  <2>1. j \in DOMAIN Instr.regs /\ Instr.regs[j] = r
    BY <1>2
  <2>2. PopRegs(rand)[r] = Popped(j, rand)
    BY <1>2 DEF PopRegs
  <2> HIDE DEF j
  <2> QED BY <2>1, <2>2
<1> QED BY <1>1, <1>2

\* pop keeps the machines on the path matched, also when it jumps; a pc popped and
\* not followed takes every input off the path.
LEMMA PopOnPath ==
    ASSUME IndInv, LockInv, LockstepNext, ExecPop PROVE OnPath' /\ LiteralsConstant'
<1>1. phase = "exec" /\ Instr.op = "pop" /\ label' = label
  BY PopOutcome
<1>2. PICK rand \in [DOMAIN Instr.regs -> RandVals] :
         LET pc == Popped(Len(Instr.regs), rand)
         IN  /\ regs' = PopRegs(rand) /\ stacks' = PopStacks /\ UNCHANGED zero
             /\ \/ phase' = "returned" /\ UNCHANGED <<pathCond, envStack>>
                \/ NoJump
                \/ /\ phase' = "follow" /\ UNCHANGED envStack
                   /\ pc # Null /\ pc.kind = "literal"
                   /\ Instr.regs[Len(Instr.regs)] = "pc"
                   /\ jumpTo' = Plain(Concrete(pc)) /\ jumpTo' # NoLabel
  BY PopOutcome
<1> DEFINE last == Len(Instr.regs)
           pc == Popped(last, rand)
           e == Len(stacks) - Len(Instr.regs)
<1>3. /\ DOMAIN Instr.regs = 1..Len(Instr.regs) /\ Len(Instr.regs) \in Nat
      /\ Len(stacks) \in Nat /\ stacks \in Seq(Values) /\ Instr.regs # << >>
  BY <1>1, FrameTypes, LenProperties DEF WellFormed
<1>4. last \in DOMAIN Instr.regs
  <2>1. Len(Instr.regs) # 0
    BY <1>3, FrameTypes, EmptySeq
  <2> QED BY <1>3, <2>1
<1>5. e \in Int /\ e <= Len(stacks)
  <2>1. \A a, b \in Nat : a - b \in Int /\ a - b <= a
    OBVIOUS
  <2> QED BY <1>3, <2>1
<1>6. stacks' = SubSeq(stacks, 1, e)
  BY <1>2 DEF PopStacks
<1> HIDE DEF e, pc
<1>7. LiteralsConstant'
  <2>1. ASSUME NEW r \in Regs PROVE Constant(regs'[r])
    BY <1>1, <1>2, PopPlace, PoppedAgrees DEF LockInv, LiteralsConstant
  <2>2. \A k \in 1..e : k \in 1..Len(stacks) /\ stacks[k] \in Values
    <3>1. \A k \in 1..e : k \in 1..Len(stacks)
      BY <1>3, <1>5
    <3> QED BY <1>3, <3>1, ElementOfSeq
  <2>3. /\ Len(stacks') = IF 1 <= e THEN e - 1 + 1 ELSE 0
        /\ \A k \in 1..(e - 1 + 1) : stacks'[k] = stacks[1 + k - 1]
    BY <1>5, <1>6, <2>2, SubSeqProperties
  <2>4. \A k \in 1..Len(stacks') : k \in 1..e /\ stacks'[k] = stacks[k]
    BY <1>5, <2>3
  <2>5. \A k \in 1..Len(stacks') : Constant(stacks'[k])
    BY <2>2, <2>4 DEF LockInv, LiteralsConstant
  <2> QED BY <2>1, <2>5 DEF LiteralsConstant
<1>8. ASSUME phase' = "follow", NEW i \in pathCond' \ astray' PROVE Matched(i)
  <2> DEFINE n == code[label.at]
             m == machine[i]
  <2>1. i \in pathCond \ astray /\ i \in Inputs /\ i \notin PcIgnored
    BY <1>8, StaysOnPath DEF IndInv, TypeOK
  <2>2. Instr.op \notin BranchOps
    BY <1>1 DEF BranchOps
  <2>3. /\ n \in Instructions /\ n.op = "pop" /\ n.regs = Instr.regs
        /\ m \in Machines /\ machine'[i] = ArmExec(n, m) /\ m.pc = label.at
    BY <1>1, <2>1, <2>2, Executed
  <2>4. machine'[i] = ArmPop(n, m)
    BY <2>3 DEF ArmExec, BranchOps
  <2>5. \A j, k \in DOMAIN n.regs : j # k => n.regs[j] # n.regs[k]
    <3>1. code \in Programs /\ label.at \in DOMAIN code
      BY NodeCases DEF LockInv, HistoryOK
    <3> QED BY <2>3, <3>1, OperandsAssumption
  <2>6. /\ machine'[i].z = m.z
        /\ machine'[i].stack = SubSeq(m.stack, 1, Len(m.stack) - Len(Instr.regs))
        /\ \A k \in DOMAIN Instr.regs : k <= Len(m.stack) =>
              /\ Instr.regs[k] \in Regs =>
                   machine'[i].regs[Instr.regs[k]] = m.stack[Len(m.stack) - k + 1]
              /\ Instr.regs[k] = "pc" => machine'[i].pc = m.stack[Len(m.stack) - k + 1]
        /\ \A r \in Regs : (\A k \in DOMAIN Instr.regs : Instr.regs[k] # r) =>
              machine'[i].regs[r] = m.regs[r]
        /\ (\A k \in DOMAIN Instr.regs : Instr.regs[k] # "pc") =>
              machine'[i].pc = m.pc + InstructionSize
    <3> HIDE DEF n, m
    <3>1. /\ ArmPop(n, m).z = m.z
          /\ ArmPop(n, m).stack = SubSeq(m.stack, 1, Len(m.stack) - Len(n.regs))
          /\ \A k \in DOMAIN n.regs : k <= Len(m.stack) =>
                /\ n.regs[k] \in Regs =>
                     ArmPop(n, m).regs[n.regs[k]] = m.stack[Len(m.stack) - k + 1]
                /\ n.regs[k] = "pc" => ArmPop(n, m).pc = m.stack[Len(m.stack) - k + 1]
          /\ \A r \in Regs : (\A k \in DOMAIN n.regs : n.regs[k] # r) =>
                ArmPop(n, m).regs[r] = m.regs[r]
          /\ (\A k \in DOMAIN n.regs : n.regs[k] # "pc") =>
                ArmPop(n, m).pc = m.pc + InstructionSize
      BY <2>3, <2>5, ArmPopReads, Zenon
    <3> QED BY <2>3, <2>4, <3>1
  <2>7. RegsAgree(regs, doubted, i, m) /\ StackAgrees(stacks, i, m) /\ FlagAgrees(zero, i, m)
    BY <1>1, <2>1, MatchedBefore
  <2>8. Len(stacks) = Len(m.stack)
    BY <2>7 DEF StackAgrees
  <2>9. doubted' = doubted \ {Instr.regs[k] : k \in DOMAIN Instr.regs}
    BY <1>1 DEF LockstepNext, Doubt
  <2>10. RegsAgree(regs', doubted', i, machine'[i])
    <3> SUFFICES ASSUME NEW r \in Regs \ doubted', Known(regs'[r])
                 PROVE  regs'[r].sym[i] = machine'[i].regs[r]
      BY DEF RegsAgree
    <3>1. CASE /\ \A k \in DOMAIN Instr.regs : Instr.regs[k] # r
               /\ PopRegs(rand)[r] = regs[r]
      <4>1. r \notin doubted
        BY <2>9, <3>1
      <4> QED BY <1>2, <2>6, <2>7, <3>1, <4>1 DEF RegsAgree
    <3>2. ASSUME NEW k \in DOMAIN Instr.regs, Instr.regs[k] = r,
                 PopRegs(rand)[r] = Popped(k, rand)
          PROVE  regs'[r].sym[i] = machine'[i].regs[r]
      <4>1. regs'[r] = Popped(k, rand)
        BY <1>2, <3>2
      <4>2. /\ k <= Len(stacks)
            /\ Popped(k, rand).sym[i] = m.stack[Len(m.stack) - k + 1]
        BY <1>1, <2>1, <4>1, PoppedAgrees
      <4> QED BY <2>6, <2>8, <3>2, <4>1, <4>2
    <3> QED BY <3>1, <3>2, PopPlace
  <2>11. StackAgrees(stacks', i, machine'[i])
    <3>1. machine'[i].stack = SubSeq(m.stack, 1, e)
      BY <2>6, <2>8 DEF e
    <3>2. m.stack \in Seq(Nat)
      BY <2>3 DEF Machines
    <3> QED BY <1>3, <1>5, <1>6, <2>7, <3>1, <3>2, PopAgrees
  <2>12. FlagAgrees(zero', i, machine'[i])
    BY <1>2, <2>6, <2>7 DEF FlagAgrees
  <2>13. At(code', Heading', machine'[i])
    <3>1. CASE NoJump
      <4>1. jumpTo' = NoLabel
        BY <1>1, <3>1 DEF NoJump, IndInv, TypeOK
      <4>2. \A k \in DOMAIN Instr.regs : Instr.regs[k] # "pc"
        BY <1>1, <2>1, <4>1 DEF PcIgnored
      <4>3. machine'[i].pc = label.at + InstructionSize
        BY <2>3, <2>6, <4>2
      <4> QED BY <1>1, <2>1, <2>2, <3>1, <4>3, GoesOn
    <3>2. CASE /\ pc # Null /\ pc.kind = "literal" /\ Instr.regs[last] = "pc"
               /\ jumpTo' = Plain(Concrete(pc)) /\ jumpTo' # NoLabel
      <4>1. Known(pc)
        BY <3>2 DEF Known
      <4>2. /\ Constant(pc) /\ last <= Len(stacks)
            /\ pc.sym[i] = m.stack[Len(m.stack) - last + 1]
        BY <1>1, <1>4, <2>1, <4>1, PoppedAgrees DEF pc
      <4>3. pc.sym[i] = Concrete(pc)
        BY <2>1, <3>2, <4>2 DEF Constant
      <4> HIDE DEF last
      <4>4. machine'[i].pc = Concrete(pc)
        BY <1>4, <2>6, <2>8, <3>2, <4>2, <4>3
      <4>5. jumpTo'.at = Concrete(pc) /\ jumpTo'.suffix = ""
        <5>1. \A a : Plain(a).suffix = "" /\ Plain(a).at = a
          BY DEF Plain
        <5> QED BY <3>2, <5>1
      <4>6. Heading' = jumpTo'
        BY <1>8, <3>2 DEF Heading
      <4> QED BY <4>4, <4>5, <4>6 DEF At, Where
    <3> QED BY <1>2, <1>8, <3>1, <3>2 DEF pc
  <2> QED BY <2>10, <2>11, <2>12, <2>13 DEF Matched
<1>9. phase' \in {"returned", "follow"}
  BY <1>2 DEF NoJump
<1> QED BY <1>7, <1>8, <1>9, MatchedOnPath

-----------------------------------------------------------------------------
(***************************************************************************)
(* The rest of execFrom                                                    *)
(***************************************************************************)
\* An instruction is entered where the machines on the path are: the destination
\* that was found, or the next instruction when there was none.
LEMMA FollowOnPath ==
    ASSUME IndInv, LockInv, LockstepNext, Follow PROVE OnPath' /\ LiteralsConstant'
<1>1. phase = "follow" /\ UNCHANGED <<regs, zero, stacks, pathCond>>
  BY DEF Follow, TakeJump, Continue, BreakLoop, FallThrough, env, search
<1>2. \/ phase' = "returned"
      \/ /\ phase' = "exec"
         /\ label' = nextInst(label) \/ (jumpTo # NoLabel /\ label' = jumpTo)
  BY DEF Follow, TakeJump, Continue, BreakLoop, FallThrough, Enter, Exists
<1>3. ASSUME phase' = "exec", NEW i \in pathCond' \ astray' PROVE Matched(i)
  <2>1. i \in pathCond \ astray /\ i \in Inputs /\ i \notin Unmade
    BY <1>3, StaysOnPath DEF IndInv, TypeOK
  <2>2. machine'[i] = machine[i] /\ doubted' = doubted /\ code' = code
    BY <1>1, <2>1 DEF LockstepNext, Runs, Doubt
  <2>3. jumpTo = NoLabel \/ jumpTo = label'
    BY <1>1, <1>3, <2>1 DEF Unmade
  <2>4. Heading' = Heading
    BY <1>1, <1>2, <1>3, <2>3 DEF Heading
  <2>5. /\ RegsAgree(regs, doubted, i, machine[i]) /\ FlagAgrees(zero, i, machine[i])
        /\ StackAgrees(stacks, i, machine[i]) /\ At(code, Heading, machine[i])
    BY <1>1, <2>1, MatchedBefore
  <2> QED BY <1>1, <2>2, <2>4, <2>5 DEF Matched
<1>4. LiteralsConstant'
  BY <1>1 DEF LockInv, LiteralsConstant
<1> QED BY <1>2, <1>3, <1>4, MatchedOnPath

-----------------------------------------------------------------------------
(***************************************************************************)
(* Theorems                                                                *)
(***************************************************************************)
\* The invariant holds when execute or byteExecute calls execFrom: the machines are
\* at 0, and those that do not meet the guard the search starts behind are astray.
LEMMA LockInit == LockstepInit => LockInv
<1> SUFFICES ASSUME LockstepInit PROVE LockInv
  OBVIOUS
<1>1. PICK c \in Programs :
        /\ InitWith(c)
        /\ code = c
        /\ machine = [i \in Inputs |-> [pc |-> 0, regs |-> [r \in Regs |-> InitReg[r][i]],
                                        z |-> i \in InitZ, stack |-> << >>]]
        /\ astray = {i \in Inputs : Guarded(c[0]) /\ ~Met(c[0].cond, machine[i])}
        /\ doubted = {}
  BY DEF LockstepInit
<1>2. << >> \in Seq(Nat) /\ Len(<< >>) = 0 /\ 1..0 = {} /\ DOMAIN << >> = {}
  BY EmptySeq
<1>3. ASSUME NEW i \in Inputs
      PROVE  /\ machine[i] = [pc |-> 0, regs |-> [r \in Regs |-> InitReg[r][i]],
                              z |-> i \in InitZ, stack |-> << >>]
             /\ machine[i] \in Machines
             /\ machine[i].pc = 0 /\ machine[i].z = (i \in InitZ)
             /\ machine[i].stack = << >>
             /\ \A r \in Regs : machine[i].regs[r] = InitReg[r][i]
  <2>1. machine[i] = [pc |-> 0, regs |-> [r \in Regs |-> InitReg[r][i]],
                      z |-> i \in InitZ, stack |-> << >>]
    BY <1>1, <1>3
  <2>2. [r \in Regs |-> InitReg[r][i]] \in [Regs -> Nat]
    BY <1>3, ConstantsAssumption
  <2>3. machine[i] \in Machines
    BY <1>2, <2>1, <2>2 DEF Machines
  <2> QED BY <2>1, <2>3
<1>4. HistoryOK
  <2>1. machine \in [Inputs -> Machines]
    BY <1>1, <1>3
  <2> QED BY <1>1, <2>1 DEF InitWith, HistoryOK
<1>5. /\ phase = "exec" /\ label = firstLabel(c) /\ envStack = << >> /\ stacks = << >>
      /\ regs = [r \in Regs |-> [kind |-> "formula", sym |-> InitReg[r]]]
      /\ zero = [set |-> InitZ, declared |-> TRUE] /\ pathCond = Inputs
  BY <1>1 DEF InitWith
<1>6. OnPath
  <2> SUFFICES ASSUME NEW i \in pathCond \ astray
               PROVE  /\ RegsAgree(regs, doubted, i, machine[i])
                      /\ FlagAgrees(zero, i, machine[i])
                      /\ StackAgrees(stacks, i, machine[i])
                      /\ At(code, Heading, machine[i])
    BY DEF OnPath
  <2>1. i \in Inputs
    BY <1>5
  <2>2. RegsAgree(regs, doubted, i, machine[i])
    BY <1>3, <1>5, <2>1 DEF RegsAgree
  <2>3. FlagAgrees(zero, i, machine[i])
    BY <1>3, <1>5, <2>1 DEF FlagAgrees
  <2>4. StackAgrees(stacks, i, machine[i])
    BY <1>2, <1>3, <1>5, <2>1 DEF StackAgrees
  <2>5. Guarded(c[0]) => Met(c[0].cond, machine[i])
    BY <1>1, <2>1
  <2>6. Heading = firstLabel(c)
    BY <1>5 DEF Heading
  <2>7. CASE Guarded(c[0])
    <3>1. Heading.at = 0 /\ Heading.suffix = "-2"
      BY <2>6, <2>7 DEF firstLabel, Minus2
    <3> QED BY <1>1, <1>3, <2>1, <2>2, <2>3, <2>4, <2>5, <2>7, <3>1 DEF At, Where
  <2>8. CASE ~Guarded(c[0])
    <3>1. Heading.at = 0 /\ Heading.suffix = ""
      BY <2>6, <2>8 DEF firstLabel, Plain
    <3> QED BY <1>3, <2>1, <2>2, <2>3, <2>4, <3>1 DEF At, Where
  <2> QED BY <2>7, <2>8
<1>7. PendingSound /\ RunningApart
  BY <1>2, <1>5 DEF PendingSound, RunningApart
<1>8. LiteralsConstant
  BY <1>2, <1>5 DEF LiteralsConstant, Constant
<1> QED BY <1>4, <1>6, <1>7, <1>8 DEF LockInv

\* Every step of the search and of the machines preserves the invariant.
LEMMA LockStep == ASSUME IndInv, LockInv, LockstepNext PROVE LockInv'
<1>1. HistoryOK'
  BY HistoryStep
<1>2. CASE ExecBranch
  BY <1>1, <1>2, BranchOnPath, BranchPending DEF LockInv
<1>3. CASE ExecPop
  <2>1. UNCHANGED envStack
    <3>1. PICK rand \in [DOMAIN Instr.regs -> RandVals] : NoJump \/ UNCHANGED envStack
      BY <1>3, PopOutcome
    <3> QED BY <3>1 DEF NoJump, search
  <2> QED BY <1>1, <1>3, <2>1, PopOnPath, QuietStep DEF LockInv
<1>4. CASE ~ExecBranch /\ ~ExecPop
  <2>1. Next
    BY DEF LockstepNext
  <2>2. UNCHANGED envStack
    BY <1>4, <2>1, SearchSteps
  <2>3. PendingSound' /\ RunningApart'
    BY <2>2, QuietStep
  <2>4. OnPath' /\ LiteralsConstant'
    <3>1. CASE ReachEnd
      BY <3>1 DEF ReachEnd, Return, Throw, env, OnPath, LockInv, LiteralsConstant
    <3>4. CASE StackOverflow
      BY <3>4, OverflowOnPath
    <3>2. CASE Follow
      BY <3>2, FollowOnPath
    <3>3. CASE Exec
      BY <1>4, <3>3, BranchIgnoredOnPath, BranchThrowsOnPath, MovOnPath, CmpOnPath, LdrOnPath, LdrbOnPath,
         NopOnPath, PushOnPath DEF Exec
    <3> QED BY <2>1, <3>1, <3>2, <3>3, <3>4 DEF Next
  <2> QED BY <1>1, <2>3, <2>4 DEF LockInv
<1> QED BY <1>2, <1>3, <1>4

\* The search beside which the machines run is the search of Explorer.
LEMMA LockstepIsSpec == LockstepSpec => Spec
<1>1. LockstepInit => Init
  BY DEF LockstepInit, Init
<1>2. [LockstepNext]_<<vars, history>> => [Next]_vars
  BY DEF LockstepNext
<1> QED BY <1>1, <1>2, PTL DEF LockstepSpec, Spec

\* The two invariants hold together, for every program, set of inputs, variation,
\* loop limit and behaviour of the solver.
THEOREM LockInvHolds == LockstepSpec => [](IndInv /\ LockInv)
<1>1. LockstepSpec => []IndInv
  BY LockstepIsSpec, InvHolds, PTL
<1>2. IndInv /\ LockInv /\ [LockstepNext]_<<vars, history>> => LockInv'
  <2> SUFFICES ASSUME IndInv, LockInv, [LockstepNext]_<<vars, history>> PROVE LockInv'
    OBVIOUS
  <2>1. CASE LockstepNext
    BY <2>1, LockStep
  <2>2. CASE UNCHANGED <<vars, history>>
    <3>1. UNCHANGED <<nodes, phase, label, jumpTo, pathCond, envStack, regs, zero, stacks,
                      code, machine, astray, doubted>>
      BY <2>2 DEF vars, history, program, search, env
    <3>2. HistoryOK' /\ OnPath'
      BY <3>1 DEF LockInv, HistoryOK, OnPath, Heading
    <3>3. PendingSound' /\ RunningApart' /\ LiteralsConstant'
      BY <3>1 DEF LockInv, PendingSound, RunningApart, LiteralsConstant
    <3> QED BY <3>2, <3>3 DEF LockInv
  <2> QED BY <2>1, <2>2
<1> QED BY <1>1, <1>2, LockInit, PTL DEF LockstepSpec

\* The path explored is a path of the program: at every call of execFrom, each input
\* of the path condition that no known approximation has left behind is at the
\* instruction executed, with the registers and the flag that the formulas say.
THEOREM PathIsSound == LockstepSpec => []PathSound
<1>1. IndInv /\ LockInv => PathSound
  <2> SUFFICES ASSUME IndInv, LockInv, phase = "exec", NEW i \in pathCond \ astray
               PROVE  LET m == machine[i]
                      IN  /\ m.pc = IF label.suffix = "+2" THEN nextInst(Plain(label.at)).at
                                                           ELSE label.at
                          /\ label.suffix = "-2" => Met(code[label.at].cond, m)
                          /\ \A r \in Regs \ doubted :
                                Known(regs[r]) => regs[r].sym[i] = m.regs[r]
                          /\ zero.declared => (i \in zero.set <=> m.z)
    BY DEF PathSound
  <2>1. /\ RegsAgree(regs, doubted, i, machine[i]) /\ FlagAgrees(zero, i, machine[i])
        /\ At(code, label, machine[i])
    BY MatchedBefore DEF Heading
  <2>2. \A a : nextInst(Plain(a)).at = a + InstructionSize
    BY DEF nextInst, Plain
  <2> QED BY <2>1, <2>2 DEF RegsAgree, FlagAgrees, At, Where
<1> QED BY <1>1, LockInvHolds, PTL

\* Every pending branch waits where the machines of its inputs wait, however long
\* the other side of the fork runs.
THEOREM PendingIsSound == LockstepSpec => []PendingSound
<1>1. IndInv /\ LockInv => PendingSound
  BY DEF LockInv
<1> QED BY <1>1, LockInvHolds, PTL

\* An input that a branch keeps on the path, when nothing was rolled back.
LEMMA KeptByBranch ==
    ASSUME IndInv, LockInv, LockstepNext, ExecBranch, Len(envStack') >= Len(envStack),
           NEW i \in pathCond' \cap (pathCond \ astray),
           Met(Instr.cond, machine[i]) => /\ machine'[i].pc = jumpTo'.at
                                          /\ jumpTo' \notin {NoLabel, Unevaluated}
    PROVE  i \in pathCond' \ astray'
<1>1. phase = "exec" /\ Instr.op \in BranchOps
  BY VariantBranches DEF ExecBranch
<1>2. i \notin Resumed
  <2>1. Len(envStack) \in Nat /\ Len(envStack') \in Nat
    <3>1. IndInv'
      BY BranchStep
    <3> QED BY <3>1, LenProperties DEF IndInv, TypeOK
  <2> QED BY <2>1 DEF Resumed
<1>3. i \notin Unmade /\ i \notin PcIgnored /\ i \notin Misread
  BY <1>1 DEF Unmade, PcIgnored, Misread, BranchOps
<1>4. i \notin Misdirected
  BY <1>1 DEF Misdirected
<1> QED BY <1>2, <1>3, <1>4 DEF LockstepNext

\* An indirect branch that is followed to an address keeps an input that really goes
\* there: the input of z3's model, or the all-zero one at bx lr.
THEOREM IndirectIsFollowed == LockstepSpec => IndirectFollowed
<1> DEFINE Step ==
      /\ phase = "exec" /\ Instr.op \in Variant.branches /\ Instr.target = NoLabel
      /\ pathCond \cap astray = {} /\ Instr.regs[1] \notin doubted
      /\ Known(regs[Instr.regs[1]])
      /\ Instr.op \in {"bl", "blx"} => Instr.regs[1] # "lr"
      /\ Instr.cond # "" \/ (Instr.regs[1] = "lr" /\ Instr.op = "bx" /\ Zero \in pathCond)
      /\ phase' = "follow" /\ Len(envStack') >= Len(envStack)
      /\ jumpTo' # Unevaluated
      => pathCond' \ astray' # {}
<1>1. ASSUME IndInv, LockInv, LockstepNext,
             phase = "exec", Instr.op \in Variant.branches, Instr.target = NoLabel,
             pathCond \cap astray = {}, Instr.regs[1] \notin doubted,
             Known(regs[Instr.regs[1]]),
             Instr.op \in {"bl", "blx"} => Instr.regs[1] # "lr",
             Instr.cond # "" \/ (Instr.regs[1] = "lr" /\ Instr.op = "bx" /\ Zero \in pathCond),
             phase' = "follow", Len(envStack') >= Len(envStack), jumpTo' # Unevaluated
      PROVE  pathCond' \ astray' # {}
  <2>1. Instr.op \in BranchOps
    BY <1>1, VariantBranches
  <2>2. ExecBranch
    BY <1>1, <2>1 DEF LockstepNext, Next, Exec, Follow, TakeJump, Continue, BreakLoop,
       BranchIgnored, Unreadable, Direct, BranchThrows, ExecMov, ExecCmp, ExecLdr,
       ExecLdrb, ExecNop, ExecPush, ExecPop, ReachEnd, StackOverflow, Return, Throw,
       Executes, BranchOps
  <2>3. ~(envStack # << >> /\ envStack' = Below(envStack))
    <3>1. ASSUME envStack # << >>, envStack' = Below(envStack) PROVE FALSE
      <4>1. Len(envStack) \in Nat \ {0} /\ Len(envStack') = Len(envStack) - 1
        BY <1>1, <3>1, BelowProperties DEF IndInv, TypeOK
      <4>2. \A a \in Nat \ {0} : ~(a - 1 >= a)
        OBVIOUS
      <4>3. Len(envStack) - 1 >= Len(envStack)
        BY <1>1, <4>1
      <4> QED BY <4>1, <4>2, <4>3
    <3> QED BY <3>1
  <2>4. Instr.regs[1] \in Regs
    BY <1>1, <2>1, FrameTypes DEF WellFormed
  <2>5. Linked[Instr.regs[1]] = regs[Instr.regs[1]]
    BY <1>1, <2>4, FrameTypes DEF Linked
  <2>6. CASE /\ jumpTo' \in Destinations /\ jumpTo' # NoLabel
             /\ pathCond' = PosCond(Instr.cond) /\ (Instr.cond # "" => Declared)
    <3>1. ASSUME NEW i \in PosCond(Instr.cond),
                 jumpTo' = Plain(regs[Instr.regs[1]].sym[i])
          PROVE  i \in pathCond' \ astray'
      <4>1. i \in pathCond \ astray /\ i \in pathCond'
        BY <1>1, <2>6 DEF PosCond
      <4>2. Met(Instr.cond, machine[i])
        BY <1>1, <2>1, <2>6, <4>1, ModelsSplit
      <4>3. machine[i] \in Machines /\ machine'[i] = ArmBranch(Instr, machine[i])
        BY <1>1, <2>1, <4>1, <4>2, BranchMachine
      <4>4. machine'[i].pc = machine[i].regs[Instr.regs[1]]
        BY <1>1, <4>3 DEF ArmBranch, Machines
      <4>5. regs[Instr.regs[1]].sym[i] = machine[i].regs[Instr.regs[1]]
        BY <1>1, <2>4, <4>1, MatchedBefore DEF RegsAgree
      <4>6. \A a : Plain(a).at = a
        BY DEF Plain
      <4>7. machine'[i].pc = jumpTo'.at
        BY <3>1, <4>4, <4>5, <4>6
      <4> QED BY <1>1, <2>2, <2>6, <4>1, <4>7, KeptByBranch
    <3>2. CASE Instr.cond # ""
      <4>1. \E i \in PosCond(Instr.cond) : jumpTo' = Plain(Operand.sym[i])
        BY <1>1, <2>6, <3>2 DEF Destinations, ViaTarget, ViaModel, Direct
      <4>2. Operand = regs[Instr.regs[1]]
        BY <2>5 DEF Operand
      <4> QED BY <2>6, <3>1, <4>1, <4>2
    <3>3. CASE Instr.cond = ""
      <4>1. Instr.regs[1] = "lr" /\ Zero \in pathCond
        BY <1>1, <3>3
      <4>2. jumpTo' = DestinationOfLr
        BY <1>1, <2>6, <3>3 DEF Destinations, ViaTarget, ViaModel, Direct
      <4>3. jumpTo' = Plain(regs["lr"].sym[Zero])
        BY <2>5, <2>6, <4>1, <4>2 DEF DestinationOfLr, Concrete
      <4>4. Zero \in PosCond(Instr.cond)
        BY <3>3, <4>1 DEF PosCond
      <4> QED BY <3>1, <4>1, <4>3, <4>4
    <3> QED BY <3>2, <3>3
  <2>7. CASE /\ pathCond' = NegCond(Instr.cond) /\ Instr.cond # "" /\ Declared
    <3>1. pathCond' # {}
      BY <1>1, <2>2, BranchStep DEF IndInv, PendingFeasible
    <3>2. PICK i \in pathCond' : TRUE
      BY <3>1
    <3>3. i \in pathCond \ astray /\ i \in NegCond(Instr.cond)
      BY <1>1, <2>7, <3>2 DEF NegCond
    <3>4. ~Met(Instr.cond, machine[i])
      BY <1>1, <2>1, <2>7, <3>3, ModelsSplit
    <3>5. i \in pathCond' \ astray'
      BY <1>1, <2>2, <3>2, <3>3, <3>4, KeptByBranch
    <3> QED BY <3>5
  <2> QED BY <1>1, <2>2, <2>3, <2>6, <2>7, BranchOutcome
<1>2. IndInv /\ LockInv /\ [LockstepNext]_<<vars, history>> => [Step]_<<vars, history>>
  BY <1>1
<1> QED BY <1>2, LockInvHolds, PTL DEF LockstepSpec, IndirectFollowed

=============================================================================
