------------------------------- MODULE Session -------------------------------
(***************************************************************************)
(* A session of Executor.byteExecute: one call after another in one JVM,   *)
(* each with one instruction, the nop that SemanticCheck appends, and an   *)
(* environment.  nodeLabelToIndex, countJumpedPair, envStack, jumpTo and   *)
(* returnEnv are static and outlive a call; recentPop is reset by it.      *)
(*                                                                         *)
(* A frame of execFrom takes two steps, as in Explorer.  Here the node it  *)
(* executes is looked up in the list of the call by an index that an       *)
(* earlier call may have left.  A path condition is a set of inputs of the *)
(* environment of one call.  labelToEnvModel is left out: a branch puts    *)
(* the labels of its models just before decideToJump looks them up.        *)
(***************************************************************************)
EXTENDS Program, Budget

CONSTANTS
    Words,        \* the instructions a call may be given, or Undecodable
    Inputs,       \* assignments to the symbolic variables of an environment
    Addresses,    \* values of registers used as addresses
    LoopLimit,    \* loopLimitation
    HexThreshold, \* 9, the greatest address capstone prints in decimal
    SolverFails,  \* may Z3 time out or fail on a satisfiable formula?
    MaxCalls,     \* bound on the calls of a session
    Undecodable,  \* a word capstone refuses
    Null          \* null, and the outcome of a call that threw

Nop == [op |-> "nop", cond |-> "", target |-> NoLabel, regs |-> << >>, num |-> 0]

ASSUME SessionAssumption ==
    /\ Words \subseteq {w \in [op : {"mov", "b", "bx"}, cond : Conds,
                               target : {Plain(a) : a \in Addresses} \cup {NoLabel},
                               regs : {<< >>, <<"r0">>}, num : {0}] :
                          w.op = "b" <=> w.target # NoLabel} \cup {Undecodable}
    /\ Addresses \subseteq Nat
    /\ HexThreshold \in Nat /\ LoopLimit \in Nat /\ MaxCalls \in Nat /\ SolverFails \in BOOLEAN

\* BinParser.end, as byteExecute sets it.
End == Plain(4)

VARIABLES
    nodeLabelToIndex, countJumpedPair, envStack, jumpTo, returnEnv,
    asmNodes,   \* the expanded nodes of the call
    recentPop,  \* the branch last popped, or Null
    label,      \* the label of the current frame
    status,     \* "idle" between calls, "exec", "follow", "exited" (System.exit)
    call,       \* the call: its number, word, variation and environment
    ran,        \* the instructions executed in this call, a branch in a loop once
    result,     \* what the last call returned, Null if it threw
    guarded,    \* has an earlier call expanded an instruction?
    refused     \* did the solver refuse both sides of a branch of this call?

statics == <<nodeLabelToIndex, countJumpedPair, envStack, jumpTo, returnEnv>>
vars == <<statics, asmNodes, recentPop, label, status, call, ran, result, guarded, refused>>

NoCall == [number |-> 0, word |-> Undecodable, usesTarget |-> TRUE, holds |-> {}, lr |-> 0]

Init ==
    /\ nodeLabelToIndex = << >> /\ countJumpedPair = << >>
    /\ envStack = << >> /\ jumpTo = NoLabel /\ returnEnv = Null
    /\ asmNodes = << >> /\ recentPop = Null /\ label = NoLabel
    /\ status = "idle" /\ call = NoCall /\ ran = << >> /\ result = Null
    /\ guarded = FALSE /\ refused = FALSE

-----------------------------------------------------------------------------
(***************************************************************************)
(* A call                                                                  *)
(***************************************************************************)
Node(l, n) == [label |-> l, instr |-> n]

\* parseInstruction of the word and the nop, then expand.
parsed(word) ==
    (IF word = Undecodable THEN << >>
     ELSE IF Guarded(word) THEN <<Node(Minus2(0), Unconditional(word)),
                                  Node(Plain(0), Branch(word.cond, Minus2(0))),
                                  Node(Plus2(0), Branch("", Plain(4)))>>
     ELSE <<Node(Plain(0), word)>>) \o <<Node(Plain(4), Nop)>>

\* Mutant: the counter has moved on when the index is put.
IndexedAfter(list) ==
    [l \in DOMAIN nodeLabelToIndex \cup {list[k].label : k \in DOMAIN list} |->
        IF l \in DOMAIN nodeLabelToIndex THEN nodeLabelToIndex[l]
        ELSE (CHOOSE k \in DOMAIN list : list[k].label = l) + 1]

\* An index is only put for a label that has none.
Indexed(list) ==
    [l \in DOMAIN nodeLabelToIndex \cup {list[k].label : k \in DOMAIN list} |->
        IF l \in DOMAIN nodeLabelToIndex THEN nodeLabelToIndex[l]
        ELSE CHOOSE k \in DOMAIN list : list[k].label = l]

\* Mutant: recentPop keeps the branch of the call before.
KeepPop == recentPop' = recentPop

ResetPop == recentPop' = Null

\* The first label may have an index outside the list: asmNodes.get throws out of
\* byteExecute.
byteExecute(word, usesTarget, holds, lr) ==
    /\ status = "idle" /\ call.number < MaxCalls
    /\ asmNodes' = parsed(word)
    /\ nodeLabelToIndex' = Indexed(asmNodes')
    /\ label' = asmNodes'[1].label
    /\ ResetPop
    /\ call' = [number |-> call.number + 1, word |-> word, usesTarget |-> usesTarget,
                holds |-> holds, lr |-> lr]
    /\ ran' = << >> /\ refused' = FALSE
    /\ guarded' = (guarded \/ (call.word # Undecodable /\ Guarded(call.word)))
    /\ result' = Null
    /\ status' = IF nodeLabelToIndex'[label'] \in DOMAIN asmNodes' THEN "exec" ELSE "idle"
    /\ UNCHANGED <<countJumpedPair, envStack, jumpTo, returnEnv>>

\* The environment a call works on, and the condition of a path of it.
Env == [call |-> call.number]
Condition(set) == [call |-> call.number, set |-> set]

PathCondition == IF recentPop = Null THEN Condition(Inputs) ELSE recentPop.pathCondition

\* Mutant: only the end of the code sets returnEnv, an exception does not.
ReturnsAtEndOnly ==
    /\ returnEnv' = IF label = End THEN Env ELSE returnEnv
    /\ result' = [env |-> returnEnv', pathCondition |-> PathCondition]
    /\ status' = "idle"

\* execFrom sets returnEnv at the end of the code and when it catches an
\* exception, and byteExecute returns it with the condition of recentPop.
Returns ==
    /\ returnEnv' = Env
    /\ result' = [env |-> Env, pathCondition |-> PathCondition]
    /\ status' = "idle"

-----------------------------------------------------------------------------
(***************************************************************************)
(* The frames of execFrom                                                  *)
(***************************************************************************)
Instr == asmNodes[nodeLabelToIndex[label]].instr
InstrLabel == asmNodes[nodeLabelToIndex[label]].label

ReachEnd ==
    /\ status = "exec" /\ label = End
    /\ Returns
    /\ UNCHANGED <<nodeLabelToIndex, countJumpedPair, envStack, jumpTo, asmNodes, recentPop,
                   label, call, ran, guarded, refused>>

\* mov stands for the handlers that do not branch.
ExecData ==
    /\ status = "exec" /\ label # End
    /\ Instr.op \notin BranchOps
    /\ ran' = Append(ran, Instr)
    /\ status' = "follow"
    /\ UNCHANGED <<statics, asmNodes, recentPop, label, call, result, guarded, refused>>

Sat(set) == {a \in BOOLEAN : IF a THEN set # {} ELSE set = {} \/ SolverFails}

\* As in Explorer: an address that capstone prints in decimal cannot be read.
Unreadable == Instr.op = "b" /\ ~isConcreteLabel(InstrLabel, Instr.target, HexThreshold)

\* The operand, the value of the register in z3's model or its name, or lr.
Destinations ==
    IF Instr.op = "b" /\ call.usesTarget THEN {Instr.target}
    ELSE IF Instr.op = "bx" /\ Instr.cond # "" THEN {Plain(a) : a \in Addresses} \cup {Unevaluated}
    ELSE {IF call.lr # 0 /\ call.lr % InstructionSize = 0 THEN Plain(call.lr) ELSE NoLabel}

Entry(l, condition) == IF l = NoLabel THEN << >>
                       ELSE <<[label |-> l, pathCondition |-> condition]>>

\* Mutant: the true model is pushed first.
decideToJumpTrueFirst(true, false) ==
    LET stack == envStack \o true \o false
        top == stack[Len(stack)]
    IN  IF stack = << >> THEN status' = "exited" /\ UNCHANGED <<envStack, recentPop, jumpTo>>
        ELSE /\ envStack' = SubSeq(stack, 1, Len(stack) - 1)
             /\ recentPop' = top
             /\ jumpTo' = top.label
             /\ status' = "follow"

\* decideToJump: what it pops may be a branch of an earlier call.  That its label
\* has a predecessor is the invariant LeftAtEnd.
decideToJump(true, false) ==
    LET stack == envStack \o false \o true
        top == stack[Len(stack)]
    IN  IF stack = << >> THEN status' = "exited" /\ UNCHANGED <<envStack, recentPop, jumpTo>>
        ELSE /\ envStack' = SubSeq(stack, 1, Len(stack) - 1)
             /\ recentPop' = top
             /\ jumpTo' = top.label
             /\ status' = "follow"

\* The instruction is executed; a branch in a loop is noted once.
Ran == IF ran # << >> /\ ran[Len(ran)] = Instr THEN ran ELSE Append(ran, Instr)

\* No models: the pair is null, which M0 looks at and the others do not.
BranchFails ==
    /\ status = "exec" /\ label # End
    /\ Instr.op \in BranchOps /\ Unreadable
    /\ ran' = Ran
    /\ IF call.usesTarget THEN Returns
                          ELSE status' = "follow" /\ UNCHANGED <<returnEnv, result>>
    /\ UNCHANGED <<nodeLabelToIndex, countJumpedPair, envStack, jumpTo, asmNodes, recentPop,
                   label, call, guarded, refused>>

ExecBranch ==
    /\ status = "exec" /\ label # End
    /\ Instr.op \in BranchOps /\ ~Unreadable
    /\ LET pre == PathCondition
           holds == IF Instr.cond = "" THEN Inputs
                    ELSE IF Instr.cond = "eq" THEN call.holds ELSE Inputs \ call.holds
           with(set) == [pre EXCEPT !.set = @ \cap set]
           sat(c) == Sat(c.set)
       IN  \E pos \in IF Instr.cond = "" THEN {TRUE} ELSE sat(with(holds)),
              neg \in IF Instr.cond = "" THEN {FALSE} ELSE sat(with(Inputs \ holds)) :
             \E dest \in IF pos THEN Destinations ELSE {NoLabel} :
               LET next == IF neg THEN nextInst(InstrLabel) ELSE NoLabel
               IN  /\ decideToJump(Entry(dest, with(holds)), Entry(next, with(Inputs \ holds)))
                   /\ refused' = (refused \/ (dest = NoLabel /\ next = NoLabel))
    /\ ran' = Ran
    /\ UNCHANGED <<nodeLabelToIndex, countJumpedPair, returnEnv, asmNodes, label, call, result,
                   guarded>>

\* execFrom(next): an index outside the list throws into the frame of the caller.
Enter(next) ==
    IF nodeLabelToIndex[next] \in DOMAIN asmNodes
      THEN label' = next /\ status' = "exec" /\ UNCHANGED <<returnEnv, result>>
      ELSE Returns /\ UNCHANGED label

CountOf(pair) == IF pair \in DOMAIN countJumpedPair THEN countJumpedPair[pair] ELSE 0

\* Mutant: the map is put to 1 at every jump.
CountedOnce(pair) == [p \in DOMAIN countJumpedPair \cup {pair} |->
                        IF p = pair THEN 1 ELSE countJumpedPair[p]]

Counted(pair) == [p \in DOMAIN countJumpedPair \cup {pair} |->
                    IF p = pair THEN CountOf(p) + 1 ELSE countJumpedPair[p]]

Exists == jumpTo \in DOMAIN nodeLabelToIndex

\* jumpFrom is the label of the node, not that of the frame.
Pair == <<InstrLabel, jumpTo>>

TakeJump ==
    /\ status = "follow" /\ Exists
    /\ countJumpedPair' = Counted(Pair)
    /\ countJumpedPair'[Pair] <= LoopLimit
    /\ jumpTo' = NoLabel
    /\ Enter(jumpTo)
    /\ UNCHANGED <<nodeLabelToIndex, envStack, asmNodes, recentPop, call, ran, guarded, refused>>

\* No destination, one that does not exist, or one jump too many: on to the next
\* label, whose parse fails at 0+2 and is caught.
FallThrough ==
    /\ status = "follow"
    /\ countJumpedPair' = IF Exists THEN Counted(Pair) ELSE countJumpedPair
    /\ Exists => countJumpedPair'[Pair] > LoopLimit
    /\ jumpTo' = NoLabel
    /\ IF HasNext(label)
         THEN IF nextInst(label) \in DOMAIN nodeLabelToIndex THEN Enter(nextInst(label))
              ELSE /\ result' = [env |-> returnEnv, pathCondition |-> PathCondition]
                   /\ status' = "idle" /\ UNCHANGED <<returnEnv, label>>
         ELSE Returns /\ UNCHANGED label
    /\ UNCHANGED <<nodeLabelToIndex, envStack, asmNodes, recentPop, call, ran, guarded, refused>>

Frame == ReachEnd \/ ExecData \/ BranchFails \/ ExecBranch \/ TakeJump \/ FallThrough

Calls == \E word \in Words, usesTarget \in BOOLEAN, holds \in SUBSET Inputs, lr \in Addresses :
            byteExecute(word, usesTarget, holds, lr)

Next == Calls \/ Frame

\* A call runs to its end; whether there is another one is up to the caller.
Spec == Init /\ [][Next]_vars /\ WF_vars(Frame)

-----------------------------------------------------------------------------
(***************************************************************************)
(* Properties                                                              *)
(***************************************************************************)
Returned == status = "idle" /\ result # Null

\* Whatever the calls before have left, what a call returns is the environment of
\* this call: no path through execFrom ends without setting returnEnv.
FreshResult == Returned => result.env = Env

\* A call executes the instruction it was given, and nothing else but the jump that
\* ends an expansion, unless an earlier call expanded a conditional instruction and this one
\* does not: then the stale index of label 0 leads past it.
OwnInstruction ==
    LET word == call.word
        others == {ran[k] : k \in 2..Len(ran)}
    IN  Returned /\ word # Undecodable /\ (guarded => Guarded(word)) =>
          /\ ran # << >> /\ ran[1] = IF Guarded(word) THEN Unconditional(word) ELSE word
          /\ others \subseteq IF Guarded(word) THEN {Branch("", End)} ELSE {}

\* The path condition returned with it is a condition on the environment of this
\* call, unless neither side of a branch could be followed and the search rolled
\* back into the branch that an earlier call had left.
OwnCondition == Returned /\ ~refused => result.pathCondition.call = call.number

\* The branches that calls leave behind on envStack all wait at the end of the code,
\* so rolling back into one ends the call: it neither fails in prevInst nor
\* executes anything.
LeftAtEnd == \A k \in DOMAIN envStack : envStack[k].label = End

\* The labels one instruction and its nop can have after expand.
CallLabels == {Plain(0), Minus2(0), Plus2(0), End}

(***************************************************************************)
(* What bounds a call, as in Explorer.  countJumpedPair is not cleared, so *)
(* all the calls of a session share the jumps left.                        *)
(***************************************************************************)
JumpsLeft == {j \in (CallLabels \X CallLabels) \X (1..LoopLimit) : j[2] > CountOf(j[1])}

Ahead == {l \in CallLabels :
            \/ l.at > label.at
            \/ l.at = label.at /\ l.suffix = "+2" /\ label.suffix = "-2"}

FrameLeft == CASE status = "exec" -> 2 [] status = "follow" -> 1 [] OTHER -> 0

StepsLeft == Budget(JumpsLeft, CallLabels, Ahead, FrameLeft)

\* Every step within a call uses up some of a budget, also where an index left by an
\* earlier call makes the label of the frame and that of its node differ, and where a
\* rollback enters what an earlier call left; and no call gives jumps back.
CallProgresses ==
    [][/\ status \in {"exec", "follow"} => StepsLeft' \in Nat /\ StepsLeft' < StepsLeft
       /\ JumpsLeft' \subseteq JumpsLeft]_vars

\* A call ends, although the jumps of all the calls before count against its own.
EveryCallEnds == status \in {"exec", "follow"} ~> status \in {"idle", "exited"}

=============================================================================
