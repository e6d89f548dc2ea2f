---------------------------- MODULE SessionProofs ----------------------------
(***************************************************************************)
(* What a call of byteExecute takes over from the calls before it, for     *)
(* sessions of any length, over any instructions, with any loop limit and  *)
(* any behaviour of the solver.                                            *)
(***************************************************************************)
EXTENDS Session, BudgetProofs, SequenceTheorems

-----------------------------------------------------------------------------
(***************************************************************************)
(* The inductive invariant                                                 *)
(***************************************************************************)
Conditions == [call : Nat, set : SUBSET Inputs]

Entries == [label : {End}, pathCondition : Conditions]

\* The index knows only such labels; once a call was made it knows the end, and it
\* never knows 0-2 without 0+2.
IndexOK ==
    LET known == DOMAIN nodeLabelToIndex
    IN  /\ known \subseteq CallLabels
        /\ Minus2(0) \in known => Plus2(0) \in known

\* Only the branch at label 0 is conditional.
NodesOK ==
    \A k \in DOMAIN asmNodes :
        asmNodes[k].instr.op \in BranchOps /\ asmNodes[k].instr.cond # ""
            => asmNodes[k].label = Plain(0)

Busy == status \in {"exec", "follow"}

\* What holds in the frames of a call.
FrameOK ==
    /\ NodesOK
    /\ End \in DOMAIN nodeLabelToIndex
    /\ label \in DOMAIN nodeLabelToIndex
    /\ nodeLabelToIndex[label] \in DOMAIN asmNodes
    /\ status = "follow" => label # End
    /\ PathCondition \in Conditions
    /\ ~refused => PathCondition.call = call.number

SessionInv ==
    /\ call.number \in Nat
    /\ envStack \in Seq(Entries)
    /\ IndexOK
    /\ Busy => FrameOK
    /\ FreshResult
    /\ OwnCondition

-----------------------------------------------------------------------------
(***************************************************************************)
(* The labels                                                              *)
(***************************************************************************)
\* The four labels of a call differ.
LEMMA LabelsDiffer ==
    /\ Plain(0) # Minus2(0) /\ Plain(0) # Plus2(0) /\ Minus2(0) # Plus2(0)
    /\ End # Plain(0) /\ End # Minus2(0) /\ End # Plus2(0)
    /\ NoLabel \notin CallLabels
<1>1. /\ Plain(0).suffix = "" /\ Minus2(0).suffix = "-2" /\ Plus2(0).suffix = "+2"
      /\ End.suffix = "" /\ NoLabel.suffix = "null"
      /\ End.at = 4 /\ Plain(0).at = 0
  BY DEF Plain, Minus2, Plus2, End, NoLabel
<1>2. "" # "-2" /\ "" # "+2" /\ "-2" # "+2" /\ "null" # "" /\ "null" # "-2" /\ "null" # "+2"
  OBVIOUS
<1>3. 0 # 4
  OBVIOUS
<1> QED BY <1>1, <1>2, <1>3, Zenon DEF CallLabels

\* From a label of a call that is not its end, nextInst leads to a label that the
\* index knows too, or it throws.
LEMMA NextKnown ==
    ASSUME IndexOK, End \in DOMAIN nodeLabelToIndex,
           NEW l \in DOMAIN nodeLabelToIndex, l # End, HasNext(l)
    PROVE  nextInst(l) \in DOMAIN nodeLabelToIndex
<1>1. l \in CallLabels
  BY DEF IndexOK
<1>2. l # Plus2(0)
  <2>1. Plus2(0).suffix = "+2" /\ "+2" # "" /\ "+2" # "-2"
    BY DEF Plus2
  <2> QED BY <2>1, Zenon DEF HasNext
<1>3. CASE l = Plain(0)
  <2>1. l.suffix = "" /\ l.at = 0
    BY <1>3 DEF Plain
  <2>2. l.suffix # "-2"
    BY <2>1
  <2>3. nextInst(l) = Plain(0 + InstructionSize)
    BY <2>1, <2>2, Zenon DEF nextInst
  <2>4. 0 + InstructionSize = 4
    BY DEF InstructionSize
  <2> QED BY <2>3, <2>4, Zenon DEF End
<1>4. CASE l = Minus2(0)
  <2>1. l.suffix = "-2" /\ l.at = 0
    BY <1>4 DEF Minus2
  <2> QED BY <1>4, <2>1, Zenon DEF nextInst, IndexOK
<1> QED BY <1>1, <1>2, <1>3, <1>4, Zenon DEF CallLabels

\* The false model of the branch at label 0 waits at the end.
LEMMA NextOfFirst == nextInst(Plain(0)) = End
<1>1. Plain(0).suffix = "" /\ Plain(0).at = 0
  BY DEF Plain
<1>2. "" # "-2" /\ 0 + InstructionSize = 4
  BY DEF InstructionSize
<1> QED BY <1>1, <1>2, Zenon DEF nextInst, End

-----------------------------------------------------------------------------
(***************************************************************************)
(* The nodes of a call                                                     *)
(***************************************************************************)
\* What parseInstruction and expand produce, whatever the word.
LEMMA ParsedOK ==
    ASSUME NEW word \in Words
    PROVE  LET list == parsed(word)
               labels == {list[k].label : k \in DOMAIN list}
           IN  /\ \A k \in DOMAIN list : 
                     /\ list[k].label \in CallLabels
                     /\ list[k].instr.op \in BranchOps /\ list[k].instr.cond # ""
                          => list[k].label = Plain(0)
               /\ 1 \in DOMAIN list
               /\ End \in labels
               /\ Minus2(0) \in labels => Plus2(0) \in labels
<1> DEFINE list == parsed(word)
           labels == {list[k].label : k \in DOMAIN list}
           nop == Node(Plain(4), Nop)
<1>0. nop.label = End /\ nop.instr = Nop /\ Nop.cond = ""
  BY Zenon DEF Node, End, Nop
<1>1. CASE word = Undecodable
  <2>1. list = <<nop>>
    BY <1>1 DEF parsed
  <2>2. DOMAIN list = {1} /\ list[1] = nop
    BY <2>1
  <2>3. labels = {End}
    BY <2>2, <1>0
  <2> QED BY <2>2, <2>3, <1>0, LabelsDiffer, Zenon DEF CallLabels
<1>2. CASE word # Undecodable /\ Guarded(word)
  <2> DEFINE first == Node(Minus2(0), Unconditional(word))
             second == Node(Plain(0), Branch(word.cond, Minus2(0)))
             third == Node(Plus2(0), Branch("", Plain(4)))
  <2>1. list = <<first, second, third>> \o <<nop>>
    BY <1>2, Zenon DEF parsed
  <2>2. DOMAIN list = {1, 2, 3, 4} /\ list[1] = first /\ list[2] = second
        /\ list[3] = third /\ list[4] = nop
    <3> HIDE DEF first, second, third, nop, list
    <3> QED BY <2>1
  <2>3. first.label = Minus2(0) /\ second.label = Plain(0) /\ third.label = Plus2(0)
    BY Zenon DEF Node
  <2>4. third.instr.cond = ""
    BY Zenon DEF Node, Branch
  <2>5. first.instr.op \notin BranchOps
    <3>1. first.instr = [word EXCEPT !.cond = ""]
      BY Zenon DEF Node, Unconditional
    <3>2. word.op \notin BranchOps
      BY <1>2, Zenon DEF Guarded
    <3>3. DOMAIN word = {"op", "cond", "target", "regs", "num"}
      BY <1>2, SessionAssumption
    <3>4. first.instr.op = word.op
      BY <3>1, <3>3
    <3> QED BY <3>2, <3>4
  <2> HIDE DEF first, second, third, nop, list
  <2>6. labels = {Minus2(0), Plain(0), Plus2(0), End}
    BY <2>2, <2>3, <1>0
  <2>7. \A k \in DOMAIN list : list[k].label \in CallLabels
    BY <2>2, <2>3, <1>0, Zenon DEF CallLabels
  <2>8. \A k \in DOMAIN list : list[k].instr.op \in BranchOps /\ list[k].instr.cond # ""
                                 => list[k].label = Plain(0)
    BY <2>2, <2>3, <2>4, <2>5, <1>0, Zenon
  <2> QED BY <2>2, <2>6, <2>7, <2>8, Zenon DEF list
<1>3. CASE word # Undecodable /\ ~Guarded(word)
  <2> DEFINE first == Node(Plain(0), word)
  <2>1. list = <<first>> \o <<nop>>
    BY <1>3, Zenon DEF parsed
  <2>2. DOMAIN list = {1, 2} /\ list[1] = first /\ list[2] = nop
    <3> HIDE DEF first, nop, list
    <3> QED BY <2>1
  <2>3. first.label = Plain(0)
    BY Zenon DEF Node
  <2> HIDE DEF first, nop, list
  <2>4. labels = {Plain(0), End}
    BY <2>2, <2>3, <1>0
  <2> QED BY <2>2, <2>3, <2>4, <1>0, LabelsDiffer, Zenon DEF list, CallLabels
<1> QED BY <1>1, <1>2, <1>3, Zenon

-----------------------------------------------------------------------------
(***************************************************************************)
(* A call begins                                                           *)
(***************************************************************************)
\* byteExecute: the index stays closed, and the path condition starts anew.
LEMMA CallStep ==
    ASSUME SessionInv,
           NEW word \in Words, NEW usesTarget, NEW holds, NEW lr,
           byteExecute(word, usesTarget, holds, lr)
    PROVE  SessionInv'
<1> DEFINE list == parsed(word)
           labels == {list[k].label : k \in DOMAIN list}
<1>1. /\ asmNodes' = list
      /\ nodeLabelToIndex' = Indexed(asmNodes')
      /\ label' = asmNodes'[1].label
      /\ recentPop' = Null
      /\ call'.number = call.number + 1
      /\ result' = Null
      /\ status' = IF nodeLabelToIndex'[label'] \in DOMAIN asmNodes' THEN "exec" ELSE "idle"
      /\ envStack' = envStack
  BY Zenon DEF byteExecute, ResetPop
<1>2. /\ \A k \in DOMAIN list :
            /\ list[k].label \in CallLabels
            /\ list[k].instr.op \in BranchOps /\ list[k].instr.cond # ""
                 => list[k].label = Plain(0)
      /\ 1 \in DOMAIN list
      /\ End \in labels
      /\ Minus2(0) \in labels => Plus2(0) \in labels
  BY ParsedOK, Zenon
<1> HIDE DEF list
<1>3. DOMAIN nodeLabelToIndex' = DOMAIN nodeLabelToIndex \cup labels
  BY <1>1, Zenon DEF Indexed
<1>4. call'.number \in Nat
  BY <1>1 DEF SessionInv
<1>5. envStack' \in Seq(Entries)
  BY <1>1 DEF SessionInv
<1>6. IndexOK'
  <2>1. labels \subseteq CallLabels
    BY <1>2, Zenon
  <2> HIDE DEF labels
  <2> QED BY <1>2, <1>3, <2>1, Zenon DEF IndexOK, SessionInv
<1>7. Busy' => FrameOK'
  <2> SUFFICES ASSUME Busy' PROVE FrameOK'
    OBVIOUS
  <2>1. NodesOK'
    BY <1>1, <1>2, Zenon DEF NodesOK
  <2>2. End \in DOMAIN nodeLabelToIndex' /\ label' \in DOMAIN nodeLabelToIndex'
    BY <1>1, <1>2, <1>3, Zenon
  <2>3. nodeLabelToIndex'[label'] \in DOMAIN asmNodes' /\ status' = "exec"
    BY <1>1 DEF Busy
  <2>4. PathCondition' = [call |-> call'.number, set |-> Inputs]
    BY <1>1, Zenon DEF PathCondition, Condition
  <2>5. PathCondition' \in Conditions /\ PathCondition'.call = call'.number
    BY <2>4, <1>4 DEF Conditions
  <2>6. status' = "follow" => label' # End
    BY <2>3
  <2> QED BY <2>1, <2>2, <2>3, <2>5, <2>6, Zenon DEF FrameOK
<1>8. FreshResult' /\ OwnCondition'
  BY <1>1, Zenon DEF FreshResult, OwnCondition, Returned
<1> QED BY <1>4, <1>5, <1>6, <1>7, <1>8, Zenon DEF SessionInv

-----------------------------------------------------------------------------
(***************************************************************************)
(* A call ends or goes on to another frame                                 *)
(***************************************************************************)
\* execFrom's two ways out return the environment and the condition of this call.
LEMMA ReturnsOK ==
    ASSUME SessionInv, Busy, Returns,
           UNCHANGED <<nodeLabelToIndex, envStack, call, refused>>
    PROVE  SessionInv'
<1>1. status' = "idle" /\ result'.env = Env /\ result'.pathCondition = PathCondition
  BY Zenon DEF Returns
<1>2. ~refused => PathCondition.call = call.number
  BY Zenon DEF SessionInv, FrameOK
<1>3. Env' = Env
  BY Zenon DEF Env
<1>4. FreshResult'
  BY <1>1, <1>3, Zenon DEF FreshResult
<1>5. OwnCondition'
  BY <1>1, <1>2, Zenon DEF OwnCondition
<1>6. ~Busy'
  BY <1>1 DEF Busy
<1>7. IndexOK'
  BY Zenon DEF SessionInv, IndexOK
<1>8. call'.number \in Nat /\ envStack' \in Seq(Entries)
  BY DEF SessionInv
<1> QED BY <1>4, <1>5, <1>6, <1>7, <1>8, Zenon DEF SessionInv

\* A frame leaves its call in a state in which the next one can run.
LEMMA StaysOK ==
    ASSUME SessionInv, Busy, status' \in {"exec", "follow"},
           UNCHANGED <<nodeLabelToIndex, envStack, asmNodes, recentPop, call, refused>>,
           label' \in DOMAIN nodeLabelToIndex,
           nodeLabelToIndex[label'] \in DOMAIN asmNodes,
           status' = "follow" => label' # End
    PROVE  SessionInv'
<1>1. PathCondition' = PathCondition
  BY Zenon DEF PathCondition, Condition
<1>2. NodesOK'
  BY Zenon DEF SessionInv, FrameOK, NodesOK
<1>3. End \in DOMAIN nodeLabelToIndex' /\ PathCondition' \in Conditions
      /\ (~refused' => PathCondition'.call = call'.number)
  BY <1>1, Zenon DEF SessionInv, FrameOK
<1>4. FrameOK'
  BY <1>2, <1>3, Zenon DEF FrameOK
<1>5. status' # "idle"
  OBVIOUS
<1>6. FreshResult' /\ OwnCondition'
  BY <1>5, Zenon DEF FreshResult, OwnCondition, Returned
<1>7. IndexOK'
  BY Zenon DEF SessionInv, IndexOK
<1>8. call'.number \in Nat /\ envStack' \in Seq(Entries)
  BY DEF SessionInv
<1> QED BY <1>4, <1>6, <1>7, <1>8, Zenon DEF SessionInv

\* execFrom of a label the index knows.
LEMMA EnterOK ==
    ASSUME SessionInv, Busy, NEW next \in DOMAIN nodeLabelToIndex, Enter(next),
           UNCHANGED <<nodeLabelToIndex, envStack, asmNodes, recentPop, call, refused>>
    PROVE  SessionInv'
<1>1. CASE nodeLabelToIndex[next] \in DOMAIN asmNodes
  <2>1. label' = next /\ status' = "exec"
    BY <1>1, Zenon DEF Enter
  <2>2. status' \in {"exec", "follow"} /\ status' # "follow"
    BY <2>1
  <2> QED BY <1>1, <2>1, <2>2, StaysOK, Zenon
<1>2. CASE nodeLabelToIndex[next] \notin DOMAIN asmNodes
  <2>1. Returns
    BY <1>2, Zenon DEF Enter
  <2> QED BY <2>1, ReturnsOK, Zenon
<1> QED BY <1>1, <1>2

\* The early return at the end of the code keeps the invariant.
LEMMA ReachEndStep ==
    ASSUME SessionInv, ReachEnd PROVE SessionInv'
<1>1. Busy /\ Returns /\ UNCHANGED <<nodeLabelToIndex, envStack, call, refused>>
  BY Zenon DEF ReachEnd, Busy
<1> QED BY <1>1, ReturnsOK, Zenon

\* So does a data-processing instruction.
LEMMA DataStep ==
    ASSUME SessionInv, ExecData PROVE SessionInv'
<1>1. /\ Busy /\ label # End /\ status' = "follow"
      /\ UNCHANGED <<nodeLabelToIndex, envStack, asmNodes, recentPop, call, refused>>
      /\ label' = label
  BY Zenon DEF ExecData, Busy, statics
<1>2. label \in DOMAIN nodeLabelToIndex /\ nodeLabelToIndex[label] \in DOMAIN asmNodes
  BY <1>1, Zenon DEF SessionInv, FrameOK
<1>3. status' \in {"exec", "follow"}
  BY <1>1
<1> QED BY <1>1, <1>2, <1>3, StaysOK, Zenon

\* A branch to an address that cannot be read: the handler throws, or M0's ignores it.
LEMMA FailsStep ==
    ASSUME SessionInv, BranchFails PROVE SessionInv'
<1>1. /\ Busy /\ label # End
      /\ UNCHANGED <<nodeLabelToIndex, envStack, asmNodes, recentPop, call, refused>>
      /\ label' = label
      /\ Returns \/ status' = "follow"
  BY Zenon DEF BranchFails, Busy
<1>2. label \in DOMAIN nodeLabelToIndex /\ nodeLabelToIndex[label] \in DOMAIN asmNodes
  BY <1>1, Zenon DEF SessionInv, FrameOK
<1>3. CASE Returns
  BY <1>1, <1>3, ReturnsOK, Zenon
<1>4. CASE status' = "follow"
  <2>1. status' \in {"exec", "follow"}
    BY <1>4
  <2> QED BY <1>1, <1>2, <2>1, StaysOK, Zenon
<1> QED BY <1>1, <1>3, <1>4

\* TakeJump enters a label the index knows; FallThrough's next label is known, so
\* it never returns with the returnEnv of an earlier call.
LEMMA FollowStep ==
    ASSUME SessionInv, TakeJump \/ FallThrough PROVE SessionInv'
<1>1. Busy /\ UNCHANGED <<nodeLabelToIndex, envStack, asmNodes, recentPop, call, refused>>
  BY Zenon DEF TakeJump, FallThrough, Busy
<1>2. CASE TakeJump
  <2>1. jumpTo \in DOMAIN nodeLabelToIndex /\ Enter(jumpTo)
    BY <1>2, Zenon DEF TakeJump, Exists
  <2> QED BY <1>1, <2>1, EnterOK, Zenon
<1>3. CASE FallThrough /\ HasNext(label)
  <2>1. /\ label \in DOMAIN nodeLabelToIndex /\ End \in DOMAIN nodeLabelToIndex
        /\ label # End /\ IndexOK
    BY <1>1, <1>3, Zenon DEF SessionInv, FrameOK, FallThrough
  <2>2. nextInst(label) \in DOMAIN nodeLabelToIndex
    BY <1>3, <2>1, NextKnown, Zenon
  <2>3. Enter(nextInst(label))
    BY <1>3, <2>2, Zenon DEF FallThrough
  <2> QED BY <1>1, <2>2, <2>3, EnterOK, Zenon
<1>4. CASE FallThrough /\ ~HasNext(label)
  <2>1. Returns
    BY <1>4, Zenon DEF FallThrough
  <2> QED BY <1>1, <2>1, ReturnsOK, Zenon
<1> QED BY <1>2, <1>3, <1>4, Zenon

-----------------------------------------------------------------------------
(***************************************************************************)
(* A branch                                                                *)
(***************************************************************************)
\* A stack with an entry on top.
LEMMA TopOfStack ==
    ASSUME NEW S, NEW s \in Seq(S), NEW e
    PROVE  LET t == s \o <<e>>
           IN  t # << >> /\ t[Len(t)] = e /\ SubSeq(t, 1, Len(t) - 1) = s
<1> DEFINE t == s \o <<e>>
<1>1. Len(s) \in Nat /\ Len(t) = Len(s) + 1 /\ t[Len(t)] = e /\ t \in Seq(S \cup {e})
  OBVIOUS
<1>2. \A k \in 1..Len(s) : t[k] = s[k]
  OBVIOUS
<1> HIDE DEF t
<1>3. SubSeq(t, 1, Len(t) - 1) = s
  BY <1>1, <1>2
<1> QED BY <1>1, <1>3 DEF t

\* A stack that is not empty.
LEMMA RestOfStack ==
    ASSUME NEW S, NEW s \in Seq(S), s # << >>
    PROVE  s[Len(s)] \in S /\ SubSeq(s, 1, Len(s) - 1) \in Seq(S)
<1>1. Len(s) \in Nat \ {0}
  BY EmptySeq
<1>2. Len(s) \in 1..Len(s) /\ \A k \in 1..Len(s) : s[k] \in S
  BY <1>1
<1>3. SubSeq(s, 1, Len(s) - 1) \in Seq(S)
  BY <1>1, <1>2
<1> QED BY <1>2, <1>3

\* decideToJump follows one of the two entries it was given, or rolls back to one
\* that was left, or exits; what stays waits at the end of the code.
LEMMA DecideCases ==
    ASSUME envStack \in Seq(Entries),
           NEW yes, NEW no, decideToJump(yes, no),
           \/ yes = << >>
           \/ \E t : yes = <<t>> /\ t.pathCondition \in Conditions,
           no = << >> \/ \E f \in Entries : no = <<f>>
    PROVE  /\ envStack' \in Seq(Entries)
           /\ \/ status' = "exited"
              \/ /\ status' = "follow"
                 /\ recentPop'.pathCondition \in Conditions
                 /\ yes # << >> \/ no # << >> =>
                      \/ yes = <<recentPop'>>
                      \/ no = <<recentPop'>>
<1> DEFINE stack == envStack \o no \o yes
<1>0. /\ stack = << >> => status' = "exited" /\ envStack' = envStack
      /\ stack # << >> => /\ envStack' = SubSeq(stack, 1, Len(stack) - 1)
                          /\ recentPop' = stack[Len(stack)]
                          /\ status' = "follow"
  BY Zenon DEF decideToJump
<1>1. envStack \o no \in Seq(Entries)
  <2>1. no \in Seq(Entries)
    <3>1. << >> \in Seq(Entries) /\ \A f \in Entries : <<f>> \in Seq(Entries)
      BY EmptySeq
    <3> QED BY <3>1, Zenon
  <2> QED BY <2>1, ConcatProperties, Zenon
<1>2. CASE yes # << >>
  <2>1. PICK t : yes = <<t>> /\ t.pathCondition \in Conditions
    BY <1>2
  <2>2. stack = (envStack \o no) \o <<t>>
    BY <2>1
  <2>3. stack # << >> /\ stack[Len(stack)] = t
        /\ SubSeq(stack, 1, Len(stack) - 1) = envStack \o no
    BY <1>1, <2>2, TopOfStack, Zenon
  <2> HIDE DEF stack
  <2> QED BY <1>0, <1>1, <2>1, <2>3, Zenon
<1>3. CASE yes = << >>
  <2>1. stack = envStack \o no
    BY <1>1, <1>3, ConcatEmptySeq, Zenon
  <2>2. CASE no # << >>
    <3>1. PICK f \in Entries : no = <<f>>
      BY <2>2
    <3>2. stack # << >> /\ stack[Len(stack)] = f
          /\ SubSeq(stack, 1, Len(stack) - 1) = envStack
      BY <2>1, <3>1, TopOfStack, Zenon
    <3>3. f.pathCondition \in Conditions
      BY DEF Entries
    <3> HIDE DEF stack
    <3> QED BY <1>0, <3>1, <3>2, <3>3, Zenon
  <2>3. CASE no = << >>
    <3>1. stack = envStack
      BY <2>1, <2>3, ConcatEmptySeq, Zenon
    <3> HIDE DEF stack
    <3>2. CASE stack = << >>
      BY <1>0, <3>2, Zenon
    <3>3. CASE stack # << >>
      <4>1. stack[Len(stack)] \in Entries /\ SubSeq(stack, 1, Len(stack) - 1) \in Seq(Entries)
        BY <3>1, <3>3, RestOfStack, Zenon
      <4>2. stack[Len(stack)].pathCondition \in Conditions
        BY <4>1 DEF Entries
      <4> QED BY <1>0, <1>3, <2>3, <3>3, <4>1, <4>2, Zenon
    <3> QED BY <3>2, <3>3
  <2> QED BY <2>2, <2>3
<1> QED BY <1>2, <1>3

\* The branch of a call: its false side is at label 0 and waits at the end, and both
\* sides carry conditions of the call, unless it rolled back before.
LEMMA BranchStep ==
    ASSUME SessionInv, ExecBranch PROVE SessionInv'
<1> DEFINE pre == PathCondition
           with(set) == [pre EXCEPT !.set = @ \cap set]
<1>1. /\ status = "exec" /\ label # End /\ Instr.op \in BranchOps
      /\ UNCHANGED <<nodeLabelToIndex, asmNodes, label, call>>
  BY Zenon DEF ExecBranch
<1> DEFINE holds == IF Instr.cond = "" THEN Inputs
                    ELSE IF Instr.cond = "eq" THEN call.holds ELSE Inputs \ call.holds
           falseLabel(neg) == IF neg THEN nextInst(InstrLabel) ELSE NoLabel
<1>a. \E pos \in IF Instr.cond = "" THEN {TRUE} ELSE Sat(with(holds).set),
         neg \in IF Instr.cond = "" THEN {FALSE} ELSE Sat(with(Inputs \ holds).set) :
        \E dest \in IF pos THEN Destinations ELSE {NoLabel} :
          /\ decideToJump(Entry(dest, with(holds)),
                          Entry(falseLabel(neg), with(Inputs \ holds)))
          /\ refused' = (refused \/ (dest = NoLabel /\ falseLabel(neg) = NoLabel))
  BY Zenon DEF ExecBranch
<1>b. PICK pos \in IF Instr.cond = "" THEN {TRUE} ELSE Sat(with(holds).set),
           neg \in IF Instr.cond = "" THEN {FALSE} ELSE Sat(with(Inputs \ holds).set) :
        \E dest \in IF pos THEN Destinations ELSE {NoLabel} :
          /\ decideToJump(Entry(dest, with(holds)),
                          Entry(falseLabel(neg), with(Inputs \ holds)))
          /\ refused' = (refused \/ (dest = NoLabel /\ falseLabel(neg) = NoLabel))
  BY <1>a
<1>c. PICK dest \in IF pos THEN Destinations ELSE {NoLabel} :
          /\ decideToJump(Entry(dest, with(holds)),
                          Entry(falseLabel(neg), with(Inputs \ holds)))
          /\ refused' = (refused \/ (dest = NoLabel /\ falseLabel(neg) = NoLabel))
  BY <1>b
<1>d. neg => Instr.cond # ""
  <2> DEFINE answers == Sat(with(Inputs \ holds).set)
  <2>1. neg \in IF Instr.cond = "" THEN {FALSE} ELSE answers
    OBVIOUS
  <2> HIDE DEF answers
  <2> QED BY <2>1, Zenon
<1> DEFINE next == falseLabel(neg)
<1>2. /\ neg => Instr.cond # ""
      /\ next = IF neg THEN nextInst(InstrLabel) ELSE NoLabel
      /\ decideToJump(Entry(dest, with(holds)), Entry(next, with(Inputs \ holds)))
      /\ refused' = (refused \/ (dest = NoLabel /\ next = NoLabel))
  BY <1>c, <1>d
<1> HIDE DEF holds, falseLabel, next
<1>3. Busy /\ FrameOK
  BY <1>1, Zenon DEF Busy, SessionInv
<1>4. pre \in Conditions /\ (~refused => pre.call = call.number)
  BY <1>3, Zenon DEF FrameOK
<1> DEFINE cond1 == with(holds)
           cond2 == with(Inputs \ holds)
<1>5. cond1 \in Conditions /\ cond1.call = pre.call
      /\ cond2 \in Conditions /\ cond2.call = pre.call
  <2> HIDE DEF pre
  <2> QED BY <1>4 DEF Conditions
<1> HIDE DEF pre, with, cond1, cond2
<1> DEFINE yes == Entry(dest, cond1)
           no == Entry(next, cond2)
<1>6. neg => next = End
  <2>1. neg => asmNodes[nodeLabelToIndex[label]].label = Plain(0)
    BY <1>1, <1>2, <1>3, Zenon DEF FrameOK, NodesOK, Instr
  <2> QED BY <1>2, <2>1, NextOfFirst, Zenon DEF InstrLabel
<1>7. next = NoLabel \/ next = End
  BY <1>2, <1>6, Zenon
<1>8. yes = << >> \/ \E t : yes = <<t>> /\ t.pathCondition = cond1
  <2> DEFINE entry == [label |-> dest, pathCondition |-> cond1]
  <2>1. dest # NoLabel => yes = <<entry>>
    BY Zenon DEF Entry
  <2>2. dest = NoLabel => yes = << >>
    BY Zenon DEF Entry
  <2>3. entry.pathCondition = cond1
    OBVIOUS
  <2> HIDE DEF entry, yes
  <2> QED BY <2>1, <2>2, <2>3, Zenon
<1>9. no = << >> \/ \E f \in Entries : no = <<f>> /\ f.pathCondition = cond2
  <2>1. next # NoLabel => no = <<[label |-> next, pathCondition |-> cond2]>>
    BY Zenon DEF Entry
  <2>2. next = NoLabel => no = << >>
    BY Zenon DEF Entry
  <2>3. next = End => [label |-> next, pathCondition |-> cond2] \in Entries
    BY <1>5 DEF Entries
  <2> QED BY <1>7, <2>1, <2>2, <2>3
<1>10. decideToJump(yes, no)
  BY <1>2, Zenon DEF cond1, cond2
<1>11. ~refused' => ~refused /\ (yes # << >> \/ no # << >>)
  <2>1. dest # NoLabel => yes # << >>
    BY DEF Entry
  <2>2. next # NoLabel => no # << >>
    BY DEF Entry
  <2> QED BY <1>2, <2>1, <2>2, Zenon
<1> HIDE DEF yes, no
<1>12. /\ envStack' \in Seq(Entries)
       /\ \/ status' = "exited"
          \/ /\ status' = "follow"
             /\ recentPop'.pathCondition \in Conditions
             /\ yes # << >> \/ no # << >> =>
                  \/ yes = <<recentPop'>>
                  \/ no = <<recentPop'>>
  <2>1. yes = << >> \/ \E t : yes = <<t>> /\ t.pathCondition \in Conditions
    BY <1>5, <1>8, Zenon
  <2>2. no = << >> \/ \E f \in Entries : no = <<f>>
    BY <1>9, Zenon
  <2>3. envStack \in Seq(Entries)
    BY DEF SessionInv
  <2> QED BY <1>10, <2>1, <2>2, <2>3, DecideCases, Zenon
<1>13. Busy' => FrameOK'
  <2> SUFFICES ASSUME Busy' PROVE FrameOK'
    OBVIOUS
  <2>1. /\ status' = "follow" /\ recentPop'.pathCondition \in Conditions
        /\ yes # << >> \/ no # << >> => yes = <<recentPop'>> \/ no = <<recentPop'>>
    <3>1. status' # "exited"
      BY DEF Busy
    <3> QED BY <1>12, <3>1, Zenon
  <2>2. PathCondition' = IF recentPop' = Null THEN [call |-> call.number, set |-> Inputs]
                         ELSE recentPop'.pathCondition
    BY <1>1, Zenon DEF PathCondition, Condition
  <2>3. call.number \in Nat
    BY DEF SessionInv
  <2>4. [call |-> call.number, set |-> Inputs] \in Conditions
        /\ [call |-> call.number, set |-> Inputs].call = call.number
    BY <2>3 DEF Conditions
  <2>5. ~refused' => recentPop'.pathCondition.call = call.number
    <3> SUFFICES ASSUME ~refused' PROVE recentPop'.pathCondition.call = call.number
      OBVIOUS
    <3>1. yes = <<recentPop'>> \/ no = <<recentPop'>>
      BY <1>11, <2>1, Zenon
    <3>2. recentPop'.pathCondition = cond1 \/ recentPop'.pathCondition = cond2
      <4>1. \A x, y : <<x>> = <<y>> => x = y
        OBVIOUS
      <4>2. \A x : <<x>> # << >>
        OBVIOUS
      <4>3. CASE yes = <<recentPop'>>
        BY <1>8, <4>1, <4>2, <4>3, Zenon
      <4>4. CASE no = <<recentPop'>>
        BY <1>9, <4>1, <4>2, <4>4, Zenon
      <4> QED BY <3>1, <4>3, <4>4
    <3> QED BY <1>4, <1>5, <1>11, <3>2, Zenon
  <2>6. PathCondition' \in Conditions /\ (~refused' => PathCondition'.call = call'.number)
    BY <1>1, <2>1, <2>2, <2>4, <2>5, Zenon
  <2>7. NodesOK'
    BY <1>1, <1>3, Zenon DEF FrameOK, NodesOK
  <2>8. /\ End \in DOMAIN nodeLabelToIndex' /\ label' \in DOMAIN nodeLabelToIndex'
        /\ nodeLabelToIndex'[label'] \in DOMAIN asmNodes' /\ label' # End
    BY <1>1, <1>3, Zenon DEF FrameOK
  <2> QED BY <2>6, <2>7, <2>8, Zenon DEF FrameOK
<1>14. status' # "idle"
  BY <1>12
<1>15. FreshResult' /\ OwnCondition'
  BY <1>14, Zenon DEF FreshResult, OwnCondition, Returned
<1>16. IndexOK'
  BY <1>1, Zenon DEF SessionInv, IndexOK
<1>17. call'.number \in Nat
  BY <1>1 DEF SessionInv
<1> QED BY <1>12, <1>13, <1>15, <1>16, <1>17, Zenon DEF SessionInv

-----------------------------------------------------------------------------
(***************************************************************************)
(* The theorems                                                            *)
(***************************************************************************)
\* The invariant holds before the first call, when all static fields are fresh.
LEMMA InitOK == Init => SessionInv
<1> SUFFICES ASSUME Init PROVE SessionInv
  OBVIOUS
<1>1. call.number = 0 /\ envStack = << >> /\ status = "idle" /\ result = Null
  BY DEF Init, NoCall
<1>2. call.number \in Nat /\ envStack \in Seq(Entries)
  BY <1>1
<1>3. nodeLabelToIndex = << >>
  BY DEF Init
<1>4. DOMAIN nodeLabelToIndex = {}
  BY <1>3
<1>5. IndexOK
  BY <1>4, Zenon DEF IndexOK
<1>6. ~Busy
  BY <1>1 DEF Busy
<1>7. FreshResult /\ OwnCondition
  BY <1>1, Zenon DEF FreshResult, OwnCondition, Returned
<1> QED BY <1>2, <1>5, <1>6, <1>7, Zenon DEF SessionInv

\* The invariant depends on the variables of the specification only.
LEMMA StutterStep ==
    ASSUME SessionInv, UNCHANGED vars PROVE SessionInv'
BY Zenon DEF SessionInv, vars, statics, IndexOK, Busy, FrameOK, NodesOK, PathCondition,
             Condition, FreshResult, OwnCondition, Returned, Env

\* Whatever the calls before have left in the static fields of Executor, SessionInv
\* holds: the index of labels is closed under nextInst and the branches left wait
\* at the end of the code.
THEOREM SessionInvHolds == Spec => []SessionInv
<1>1. SessionInv /\ [Next]_vars => SessionInv'
  <2> SUFFICES ASSUME SessionInv, [Next]_vars PROVE SessionInv'
    OBVIOUS
  <2>1. CASE Calls
    BY <2>1, CallStep, Zenon DEF Calls
  <2>2. CASE ReachEnd
    BY <2>2, ReachEndStep
  <2>3. CASE ExecData
    BY <2>3, DataStep
  <2>4. CASE BranchFails
    BY <2>4, FailsStep
  <2>5. CASE ExecBranch
    BY <2>5, BranchStep
  <2>6. CASE TakeJump \/ FallThrough
    BY <2>6, FollowStep
  <2>7. CASE UNCHANGED vars
    BY <2>7, StutterStep
  <2> QED BY <2>1, <2>2, <2>3, <2>4, <2>5, <2>6, <2>7, Zenon DEF Next, Frame
<1> QED BY <1>1, InitOK, PTL DEF Spec

\* No path through execFrom ends a call without setting returnEnv: a call never
\* returns the environment of the one before.
THEOREM ResultIsFresh == Spec => []FreshResult
<1>1. SessionInv => FreshResult
  BY Zenon DEF SessionInv
<1> QED BY <1>1, SessionInvHolds, PTL

\* The condition a call returns is its own, unless the solver refused both sides of
\* a branch of it and decideToJump rolled back into an earlier call.
THEOREM ConditionIsOwn == Spec => []OwnCondition
<1>1. SessionInv => OwnCondition
  BY Zenon DEF SessionInv
<1> QED BY <1>1, SessionInvHolds, PTL

\* The branches left on envStack by any number of calls wait at the end of the code.
THEOREM LeftWaitAtEnd == Spec => []LeftAtEnd
<1>1. SessionInv => LeftAtEnd
  <2> SUFFICES ASSUME envStack \in Seq(Entries), NEW k \in DOMAIN envStack
               PROVE  envStack[k].label = End
    BY Zenon DEF SessionInv, LeftAtEnd
  <2>1. envStack[k] \in Entries
    OBVIOUS
  <2> QED BY <2>1 DEF Entries
<1> QED BY <1>1, SessionInvHolds, PTL

-----------------------------------------------------------------------------
(***************************************************************************)
(* Which instruction a call executes                                       *)
(***************************************************************************)
\* Has a call up to this one expanded its instruction?
Expanded == guarded \/ (call.word # Undecodable /\ Guarded(call.word))

\* The calls of which OwnInstruction speaks.
Judged == call.word # Undecodable /\ (guarded => Guarded(call.word))

\* Indices are never put twice, and expand always puts the same: 0-2 is first and 0+2
\* third.  Before the first expansion label 0 is first.
PlacesOK ==
    LET known == DOMAIN nodeLabelToIndex
    IN  /\ Minus2(0) \in known => nodeLabelToIndex[Minus2(0)] = 1
        /\ Plus2(0) \in known => nodeLabelToIndex[Plus2(0)] = 3
        /\ ~Expanded => /\ known \subseteq {Plain(0), End}
                        /\ Plain(0) \in known => nodeLabelToIndex[Plain(0)] = 1

Skip == Branch("", End)

\* The way through an expanded instruction: 0-2, 0+2, the end.
GuardedFrame ==
    LET own == Unconditional(call.word)
    IN  \/ label = Minus2(0) /\ status = "exec" /\ ran = << >>
        \/ label = Minus2(0) /\ status = "follow" /\ ran = <<own>> /\ jumpTo = NoLabel
        \/ label = Plus2(0) /\ status = "exec" /\ ran = <<own>>
        \/ /\ label = Plus2(0) /\ status = "follow" /\ ran = <<own, Skip>>
           /\ jumpTo \in DOMAIN nodeLabelToIndex => jumpTo = End
        \/ label = End /\ status = "exec" /\ ran = <<own, Skip>>

\* Any other instruction is at label 0; if it is a branch it may come back to it.
PlainFrame ==
    LET word == call.word
    IN  \/ /\ label = Plain(0) /\ status = "exec"
           /\ ran = << >> \/ (word.op \in BranchOps /\ ran = <<word>>)
        \/ /\ label = Plain(0) /\ status = "follow" /\ ran = <<word>>
           /\ word.op \notin BranchOps => jumpTo = NoLabel
        \/ label = End /\ status = "exec" /\ ran = <<word>>

OwnFrame == IF Guarded(call.word) THEN GuardedFrame ELSE PlainFrame

OwnInv ==
    /\ PlacesOK
    /\ status \in {"exec", "idle"} => jumpTo = NoLabel
    /\ Busy => /\ call.word \in Words /\ call.lr \in Addresses
               /\ asmNodes = parsed(call.word)
               /\ Judged => OwnFrame
    /\ OwnInstruction

\* The node list of an instruction that is expanded.
LEMMA ParsedGuarded ==
    ASSUME NEW word \in Words, word # Undecodable, Guarded(word)
    PROVE  LET list == parsed(word)
           IN  /\ DOMAIN list = {1, 2, 3, 4}
               /\ list[1].label = Minus2(0) /\ list[1].instr = Unconditional(word)
               /\ list[2].label = Plain(0)
               /\ list[3].label = Plus2(0) /\ list[3].instr = Skip
               /\ list[4].label = End
               /\ Unconditional(word).op \notin BranchOps
<1> DEFINE list == parsed(word)
           first == Node(Minus2(0), Unconditional(word))
           second == Node(Plain(0), Branch(word.cond, Minus2(0)))
           third == Node(Plus2(0), Branch("", Plain(4)))
           nop == Node(Plain(4), Nop)
<1>1. list = <<first, second, third>> \o <<nop>>
  BY Zenon DEF parsed
<1>2. /\ first.label = Minus2(0) /\ first.instr = Unconditional(word)
      /\ second.label = Plain(0) /\ third.label = Plus2(0) /\ third.instr = Skip
      /\ nop.label = End
  BY Zenon DEF Node, Skip, End
<1>3. Unconditional(word).op \notin BranchOps
  <2>1. DOMAIN word = {"op", "cond", "target", "regs", "num"}
    BY SessionAssumption
  <2>2. Unconditional(word).op = word.op
    BY <2>1 DEF Unconditional
  <2> QED BY <2>2, Zenon DEF Guarded
<1> HIDE DEF first, second, third, nop, list
<1>4. DOMAIN list = {1, 2, 3, 4} /\ list[1] = first /\ list[2] = second
      /\ list[3] = third /\ list[4] = nop
  BY <1>1
<1> QED BY <1>2, <1>3, <1>4, Zenon DEF list

\* The node list of any other instruction, and of an undecodable word.
LEMMA ParsedPlain ==
    ASSUME NEW word \in Words
    PROVE  LET list == parsed(word)
           IN  /\ word = Undecodable => DOMAIN list = {1} /\ list[1].label = End
               /\ word # Undecodable /\ ~Guarded(word) =>
                    /\ DOMAIN list = {1, 2}
                    /\ list[1].label = Plain(0) /\ list[1].instr = word
                    /\ list[2].label = End
<1> DEFINE list == parsed(word)
           first == Node(Plain(0), word)
           nop == Node(Plain(4), Nop)
<1>1. first.label = Plain(0) /\ first.instr = word /\ nop.label = End
  BY Zenon DEF Node, End
<1>2. CASE word = Undecodable
  <2>1. list = << >> \o <<nop>>
    BY <1>2, Zenon DEF parsed
  <2> HIDE DEF list, nop
  <2>2. DOMAIN list = {1} /\ list[1] = nop
    BY <2>1
  <2> QED BY <1>1, <1>2, <2>2, Zenon DEF list
<1>3. CASE word # Undecodable /\ ~Guarded(word)
  <2>1. list = <<first>> \o <<nop>>
    BY <1>3, Zenon DEF parsed
  <2> HIDE DEF list, nop, first
  <2>2. DOMAIN list = {1, 2} /\ list[1] = first /\ list[2] = nop
    BY <2>1
  <2> QED BY <1>1, <1>3, <2>2, Zenon DEF list
<1>4. CASE word # Undecodable /\ Guarded(word)
  BY <1>4, Zenon
<1> QED BY <1>2, <1>3, <1>4, Zenon

\* What an index is after a call has been parsed.
LEMMA IndexedAt ==
    ASSUME NEW list, NEW l, NEW k \in DOMAIN list, list[k].label = l,
           \A j \in DOMAIN list : list[j].label = l => j = k
    PROVE  /\ l \notin DOMAIN nodeLabelToIndex => Indexed(list)[l] = k
           /\ l \in DOMAIN nodeLabelToIndex => Indexed(list)[l] = nodeLabelToIndex[l]
<1> DEFINE at == CHOOSE j \in DOMAIN list : list[j].label = l
<1>1. at = k
  BY Zenon
<1>2. l \in DOMAIN nodeLabelToIndex \cup {list[j].label : j \in DOMAIN list}
  BY Zenon
<1>3. Indexed(list)[l] = IF l \in DOMAIN nodeLabelToIndex THEN nodeLabelToIndex[l] ELSE at
  BY <1>2, Zenon DEF Indexed
<1> QED BY <1>1, <1>3, Zenon

\* What stays of the index.
LEMMA IndexedKeeps ==
    ASSUME NEW list, NEW l \in DOMAIN nodeLabelToIndex
    PROVE  Indexed(list)[l] = nodeLabelToIndex[l]
BY Zenon DEF Indexed

\* byteExecute: the first frame of a call.
LEMMA OwnCall ==
    ASSUME SessionInv, OwnInv,
           NEW word \in Words, NEW usesTarget, NEW holds, NEW lr \in Addresses,
           byteExecute(word, usesTarget, holds, lr)
    PROVE  OwnInv'
<1> DEFINE list == parsed(word)
           labels == {list[k].label : k \in DOMAIN list}
           known == DOMAIN nodeLabelToIndex
<1>1. /\ asmNodes' = list
      /\ nodeLabelToIndex' = Indexed(list)
      /\ label' = list[1].label
      /\ call'.word = word /\ call'.lr = lr
      /\ result' = Null /\ ran' = << >>
      /\ guarded' = Expanded
      /\ status = "idle" /\ jumpTo' = jumpTo
      /\ status' = IF nodeLabelToIndex'[label'] \in DOMAIN asmNodes' THEN "exec" ELSE "idle"
  BY Zenon DEF byteExecute, Expanded
<1>2. jumpTo' = NoLabel
  BY <1>1, Zenon DEF OwnInv
<1>3. OwnInstruction'
  BY <1>1, Zenon DEF OwnInstruction, Returned
<1>4. DOMAIN nodeLabelToIndex' = known \cup labels
  BY <1>1, Zenon DEF Indexed
<1>5. /\ word = Undecodable => DOMAIN list = {1} /\ list[1].label = End
      /\ word # Undecodable /\ ~Guarded(word) =>
           /\ DOMAIN list = {1, 2}
           /\ list[1].label = Plain(0) /\ list[1].instr = word
           /\ list[2].label = End
  BY ParsedPlain, Zenon
<1>6. word # Undecodable /\ Guarded(word) =>
        /\ DOMAIN list = {1, 2, 3, 4}
        /\ list[1].label = Minus2(0) /\ list[2].label = Plain(0)
        /\ list[3].label = Plus2(0) /\ list[4].label = End
  BY ParsedGuarded, Zenon
<1> HIDE DEF list
<1>7. PlacesOK'
  <2>1. CASE word # Undecodable /\ Guarded(word)
    <3>0. /\ 1 \in DOMAIN list /\ list[1].label = Minus2(0)
          /\ \A j \in DOMAIN list : list[j].label = Minus2(0) => j = 1
          /\ 3 \in DOMAIN list /\ list[3].label = Plus2(0)
          /\ \A j \in DOMAIN list : list[j].label = Plus2(0) => j = 3
      BY <1>6, <2>1, LabelsDiffer
    <3>1. Indexed(list)[Minus2(0)] = IF Minus2(0) \in known THEN nodeLabelToIndex[Minus2(0)]
                                     ELSE 1
      <4>1. /\ Minus2(0) \notin known => Indexed(list)[Minus2(0)] = 1
            /\ Minus2(0) \in known => Indexed(list)[Minus2(0)] = nodeLabelToIndex[Minus2(0)]
        BY <3>0, IndexedAt, Zenon
      <4> QED BY <4>1, Zenon
    <3>2. Indexed(list)[Plus2(0)] = IF Plus2(0) \in known THEN nodeLabelToIndex[Plus2(0)]
                                    ELSE 3
      <4>1. /\ Plus2(0) \notin known => Indexed(list)[Plus2(0)] = 3
            /\ Plus2(0) \in known => Indexed(list)[Plus2(0)] = nodeLabelToIndex[Plus2(0)]
        BY <3>0, IndexedAt, Zenon
      <4> QED BY <4>1, Zenon
    <3>3. Expanded'
      BY <1>1, <2>1, Zenon DEF Expanded
    <3> QED BY <1>1, <3>1, <3>2, <3>3, Zenon DEF OwnInv, PlacesOK
  <2>2. CASE ~(word # Undecodable /\ Guarded(word))
    <3>1. labels \subseteq {Plain(0), End}
      BY <1>5, <2>2, Zenon
    <3>2. Minus2(0) \notin labels /\ Plus2(0) \notin labels
      BY <3>1, LabelsDiffer, Zenon
    <3>3. Expanded' = Expanded
      BY <1>1, <2>2, Zenon DEF Expanded
    <3>4. ASSUME NEW l \in known PROVE Indexed(list)[l] = nodeLabelToIndex[l]
      BY IndexedKeeps, Zenon
    <3>5. Plain(0) \in labels /\ Plain(0) \notin known => Indexed(list)[Plain(0)] = 1
      <4> SUFFICES ASSUME Plain(0) \in labels, Plain(0) \notin known
                   PROVE  Indexed(list)[Plain(0)] = 1
        OBVIOUS
      <4>1. word # Undecodable
        BY <1>5, LabelsDiffer
      <4>2. /\ 1 \in DOMAIN list /\ list[1].label = Plain(0)
            /\ \A j \in DOMAIN list : list[j].label = Plain(0) => j = 1
        BY <1>5, <2>2, <4>1, LabelsDiffer
      <4> QED BY <4>2, IndexedAt, Zenon
    <3> HIDE DEF labels
    <3> QED BY <1>1, <1>4, <3>1, <3>2, <3>3, <3>4, <3>5, Zenon DEF OwnInv, PlacesOK
  <2> QED BY <2>1, <2>2
<1>8. ASSUME Busy', Judged' PROVE OwnFrame'
  <2>1. status' = "exec"
    BY <1>1, <1>8 DEF Busy
  <2>2. word # Undecodable
    BY <1>1, <1>8, Zenon DEF Judged
  <2>3. CASE Guarded(word)
    BY <1>1, <1>6, <2>1, <2>2, <2>3, Zenon DEF OwnFrame, GuardedFrame
  <2>4. CASE ~Guarded(word)
    BY <1>1, <1>5, <2>1, <2>2, <2>4, Zenon DEF OwnFrame, PlainFrame
  <2> QED BY <2>3, <2>4
<1> QED BY <1>1, <1>2, <1>3, <1>7, <1>8, Zenon DEF OwnInv, list

\* What a call has run when it returns.
LEMMA OwnReturns ==
    ASSUME OwnInv, Busy, Returns, jumpTo' = NoLabel,
           UNCHANGED <<nodeLabelToIndex, call, guarded>>,
           Judged => IF Guarded(call.word) THEN ran' = <<Unconditional(call.word), Skip>>
                                           ELSE ran' = <<call.word>>
    PROVE  OwnInv'
<1>1. status' = "idle"
  BY Zenon DEF Returns
<1>2. ~Busy'
  BY <1>1 DEF Busy
<1>3. PlacesOK'
  BY Zenon DEF OwnInv, PlacesOK, Expanded
<1>4. OwnInstruction'
  <2> SUFFICES ASSUME call.word # Undecodable, guarded => Guarded(call.word)
               PROVE  /\ ran' # << >>
                      /\ ran'[1] = IF Guarded(call.word) THEN Unconditional(call.word)
                                                        ELSE call.word
                      /\ {ran'[k] : k \in 2..Len(ran')}
                           \subseteq IF Guarded(call.word) THEN {Skip} ELSE {}
    BY Zenon DEF OwnInstruction, Skip
  <2>1. CASE Guarded(call.word)
    <3>1. ran' = <<Unconditional(call.word), Skip>>
      BY <2>1, Zenon DEF Judged
    <3> QED BY <2>1, <3>1
  <2>2. CASE ~Guarded(call.word)
    <3>1. ran' = <<call.word>>
      BY <2>2, Zenon DEF Judged
    <3> QED BY <2>2, <3>1
  <2> QED BY <2>1, <2>2
<1> QED BY <1>2, <1>3, <1>4, Zenon DEF OwnInv

\* A frame of a call goes on to another one.
LEMMA OwnStays ==
    ASSUME OwnInv, Busy, status' \in {"exec", "follow"},
           status' = "exec" => jumpTo' = NoLabel,
           UNCHANGED <<nodeLabelToIndex, asmNodes, call, guarded>>,
           Judged => OwnFrame'
    PROVE  OwnInv'
<1>1. status' # "idle"
  OBVIOUS
<1>2. PlacesOK'
  BY Zenon DEF OwnInv, PlacesOK, Expanded
<1>3. OwnInstruction'
  BY <1>1, Zenon DEF OwnInstruction, Returned
<1>4. Judged' <=> Judged
  BY Zenon DEF Judged
<1> QED BY <1>1, <1>2, <1>3, <1>4, Zenon DEF OwnInv

\* At the end of the code.
LEMMA OwnReachEnd ==
    ASSUME SessionInv, OwnInv, ReachEnd PROVE OwnInv'
<1>1. /\ Busy /\ Returns /\ label = End /\ status = "exec" /\ jumpTo' = jumpTo
      /\ UNCHANGED <<nodeLabelToIndex, call, guarded, ran>>
  BY Zenon DEF ReachEnd, Busy
<1>2. jumpTo' = NoLabel
  BY <1>1 DEF OwnInv
<1>3. Judged => IF Guarded(call.word) THEN ran = <<Unconditional(call.word), Skip>>
                                      ELSE ran = <<call.word>>
  BY <1>1, LabelsDiffer, Zenon DEF OwnInv, OwnFrame, GuardedFrame, PlainFrame
<1> QED BY <1>1, <1>2, <1>3, OwnReturns, Zenon

\* Lists of at most two instructions.
LEMMA ShortRuns ==
    ASSUME NEW x, NEW y
    PROVE  /\ Append(<< >>, x) = <<x>> /\ Append(<<x>>, y) = <<x, y>>
           /\ <<x>> # << >> /\ <<x>>[Len(<<x>>)] = x
<1> DEFINE one == <<x>>
           two == Append(one, y)
           set == {x, y}
<1>1. one \in Seq(set) /\ Len(one) = 1 /\ one[1] = x
  OBVIOUS
<1>2. Append(<< >>, x) = one
  OBVIOUS
<1> HIDE DEF one
<1>3. two \in Seq(set) /\ Len(two) = 2 /\ two[1] = x /\ two[2] = y
  <2>1. y \in set
    OBVIOUS
  <2>2. /\ two \in Seq(set) /\ Len(two) = Len(one) + 1
        /\ \A i \in 1..Len(one) : two[i] = one[i]
        /\ two[Len(one) + 1] = y
    BY <1>1, <2>1, AppendProperties, Zenon
  <2> HIDE DEF two
  <2> QED BY <1>1, <2>2
<1> HIDE DEF two
<1>4. two = <<x, y>>
  BY <1>3
<1>5. one # << >> /\ one[Len(one)] = x
  BY <1>1
<1> QED BY <1>2, <1>4, <1>5 DEF one, two

\* A handler that does not branch: mov, at 0-2 or at label 0.
LEMMA OwnData ==
    ASSUME SessionInv, OwnInv, ExecData PROVE OwnInv'
<1>1. /\ Busy /\ status = "exec" /\ label # End /\ Instr.op \notin BranchOps
      /\ ran' = Append(ran, Instr) /\ status' = "follow"
      /\ UNCHANGED <<nodeLabelToIndex, asmNodes, call, guarded, label, jumpTo>>
  BY Zenon DEF ExecData, Busy, statics
<1>2. jumpTo = NoLabel /\ call.word \in Words /\ asmNodes = parsed(call.word) /\ PlacesOK
      /\ label \in DOMAIN nodeLabelToIndex /\ (Judged => OwnFrame)
  BY <1>1, Zenon DEF OwnInv, SessionInv, FrameOK
<1>3. ASSUME Judged PROVE OwnFrame'
  <2>1. CASE Guarded(call.word)
    <3> DEFINE own == Unconditional(call.word)
    <3>1. (label = Minus2(0) /\ ran = << >>) \/ label = Plus2(0)
      BY <1>1, <1>2, <1>3, <2>1, Zenon DEF OwnFrame, GuardedFrame
    <3>2. label # Plus2(0)
      <4> SUFFICES ASSUME label = Plus2(0) PROVE FALSE
        OBVIOUS
      <4>1. Instr = Skip
        BY <1>2, <1>3, <2>1, ParsedGuarded, Zenon DEF Instr, PlacesOK, Judged
      <4>2. Skip.op = "b"
        BY DEF Skip, Branch
      <4> QED BY <1>1, <4>1, <4>2 DEF BranchOps
    <3>3. Instr = own
      BY <1>2, <1>3, <2>1, <3>1, <3>2, ParsedGuarded, Zenon DEF Instr, PlacesOK, Judged
    <3> HIDE DEF own
    <3>4. ran' = <<own>>
      BY <1>1, <3>1, <3>2, <3>3, ShortRuns, Zenon
    <3> QED BY <1>1, <1>2, <2>1, <3>1, <3>2, <3>4, Zenon DEF OwnFrame, GuardedFrame, own
  <2>2. CASE ~Guarded(call.word)
    <3>1. ~Expanded /\ call.word # Undecodable
      BY <1>3, <2>2, Zenon DEF Judged, Expanded
    <3>2. label = Plain(0) /\ (ran = << >> \/ call.word.op \in BranchOps)
      BY <1>1, <1>2, <1>3, <2>2, Zenon DEF OwnFrame, PlainFrame
    <3>3. Instr = call.word
      BY <1>2, <2>2, <3>1, <3>2, ParsedPlain, Zenon DEF Instr, PlacesOK
    <3>4. ran' = <<call.word>>
      BY <1>1, <3>2, <3>3, ShortRuns, Zenon
    <3> QED BY <1>1, <1>2, <2>2, <3>2, <3>4, Zenon DEF OwnFrame, PlainFrame
  <2> QED BY <2>1, <2>2
<1>4. status' \in {"exec", "follow"} /\ status' # "exec"
  BY <1>1
<1> QED BY <1>1, <1>3, <1>4, OwnStays, Zenon

\* decideToJump leaves an exited process or a destination: one it was given, or the
\* end, where everything left behind waits.
LEMMA DecideJumps ==
    ASSUME envStack \in Seq(Entries), NEW dest, NEW cond, decideToJump(Entry(dest, cond), << >>)
    PROVE  \/ status' = "exited"
           \/ status' = "follow" /\ jumpTo' \in {dest, End}
<1> DEFINE yes == Entry(dest, cond)
           stack == envStack \o << >> \o yes
<1>1. /\ stack = << >> => status' = "exited"
      /\ stack # << >> => status' = "follow" /\ jumpTo' = stack[Len(stack)].label
  BY Zenon DEF decideToJump
<1>2. envStack \o << >> = envStack
  BY ConcatEmptySeq, Zenon
<1>3. CASE dest = NoLabel
  <2>1. yes = << >>
    BY <1>3, Zenon DEF Entry
  <2>2. stack = envStack
    BY <1>2, <2>1, Zenon
  <2>3. envStack # << >> => envStack[Len(envStack)] \in Entries
    BY RestOfStack, Zenon
  <2>4. envStack # << >> => envStack[Len(envStack)].label = End
    BY <2>3 DEF Entries
  <2> HIDE DEF stack
  <2> QED BY <1>1, <2>2, <2>4, Zenon
<1>4. CASE dest # NoLabel
  <2> DEFINE entry == [label |-> dest, pathCondition |-> cond]
  <2>1. yes = <<entry>>
    BY <1>4, Zenon DEF Entry
  <2>2. stack = envStack \o <<entry>>
    BY <1>2, <2>1, Zenon
  <2>3. stack # << >> /\ stack[Len(stack)] = entry
    BY <2>2, TopOfStack, Zenon
  <2>4. entry.label = dest
    OBVIOUS
  <2> HIDE DEF stack, entry
  <2> QED BY <1>1, <2>3, <2>4, Zenon
<1> QED BY <1>3, <1>4

\* The jump at 0+2, which the variations that ignore the operand of a branch make to
\* the value of lr: it can only end the call.
LEMMA SkipJumps ==
    ASSUME SessionInv, OwnInv, ExecBranch, Instr = Skip, call.lr \in Addresses
    PROVE  \/ status' = "exited"
           \/ /\ status' = "follow"
              /\ jumpTo' \in DOMAIN nodeLabelToIndex => jumpTo' = End
<1>1. Skip.op = "b" /\ Skip.cond = "" /\ Skip.target = End
  BY Zenon DEF Skip, Branch
<1>2. Instr.op = "b" /\ Instr.cond = "" /\ Instr.target = End /\ Instr.op # "bx"
  BY <1>1
<1> DEFINE pre == PathCondition
           with(set) == [pre EXCEPT !.set = @ \cap set]
           holds == IF Instr.cond = "" THEN Inputs
                    ELSE IF Instr.cond = "eq" THEN call.holds ELSE Inputs \ call.holds
<1>3. \E pos \in IF Instr.cond = "" THEN {TRUE} ELSE Sat(with(holds).set),
         neg \in IF Instr.cond = "" THEN {FALSE} ELSE Sat(with(Inputs \ holds).set) :
        \E dest \in IF pos THEN Destinations ELSE {NoLabel} :
          decideToJump(Entry(dest, with(holds)),
                       Entry(IF neg THEN nextInst(InstrLabel) ELSE NoLabel,
                             with(Inputs \ holds)))
  BY Zenon DEF ExecBranch
<1> HIDE DEF with, holds
<1>4. PICK pos \in {TRUE}, neg \in {FALSE} :
        \E dest \in IF pos THEN Destinations ELSE {NoLabel} :
          decideToJump(Entry(dest, with(holds)),
                       Entry(IF neg THEN nextInst(InstrLabel) ELSE NoLabel,
                             with(Inputs \ holds)))
  BY <1>2, <1>3, Zenon
<1>5. PICK dest \in Destinations :
        decideToJump(Entry(dest, with(holds)), Entry(NoLabel, with(Inputs \ holds)))
  BY <1>4, Zenon
<1>6. Entry(NoLabel, with(Inputs \ holds)) = << >>
  BY Zenon DEF Entry
<1>7. \/ status' = "exited"
      \/ status' = "follow" /\ jumpTo' \in {dest, End}
  BY <1>5, <1>6, DecideJumps, Zenon DEF SessionInv
<1>8. DOMAIN nodeLabelToIndex \subseteq CallLabels
  BY Zenon DEF SessionInv, IndexOK
<1>9. dest \in CallLabels => dest = End
  <2>1. CASE call.usesTarget
    BY <1>2, <2>1, Zenon DEF Destinations
  <2>2. CASE ~call.usesTarget
    <3>1. dest = IF call.lr # 0 /\ call.lr % InstructionSize = 0 THEN Plain(call.lr) ELSE NoLabel
      BY <1>2, <2>2, Zenon DEF Destinations
    <3>2. dest = NoLabel => dest \notin CallLabels
      BY LabelsDiffer, Zenon
    <3>3. ASSUME call.lr # 0, dest = Plain(call.lr), dest \in CallLabels PROVE dest = End
      <4>1. dest.suffix = "" /\ dest.at = call.lr
        BY <3>3, Zenon DEF Plain
      <4>2. dest # Minus2(0) /\ dest # Plus2(0)
        <5>1. Minus2(0).suffix = "-2" /\ Plus2(0).suffix = "+2" /\ "" # "-2" /\ "" # "+2"
          BY DEF Minus2, Plus2
        <5> QED BY <4>1, <5>1, Zenon
      <4>3. dest # Plain(0)
        BY <3>3, <4>1 DEF Plain
      <4> QED BY <3>3, <4>2, <4>3, Zenon DEF CallLabels
    <3> QED BY <3>1, <3>2, <3>3, Zenon
  <2> QED BY <2>1, <2>2
<1> QED BY <1>7, <1>8, <1>9, Zenon

\* A branch: the jump at 0+2, or the instruction of the call itself.
LEMMA OwnBranch ==
    ASSUME SessionInv, OwnInv, ExecBranch PROVE OwnInv'
<1>1. /\ Busy /\ status = "exec" /\ label # End /\ Instr.op \in BranchOps
      /\ ran' = IF ran # << >> /\ ran[Len(ran)] = Instr THEN ran ELSE Append(ran, Instr)
      /\ UNCHANGED <<nodeLabelToIndex, asmNodes, call, guarded, label>>
  BY Zenon DEF ExecBranch, Busy, Ran
<1>2. /\ call.word \in Words /\ call.lr \in Addresses /\ asmNodes = parsed(call.word)
      /\ PlacesOK /\ label \in DOMAIN nodeLabelToIndex /\ (Judged => OwnFrame)
  BY <1>1, Zenon DEF OwnInv, SessionInv, FrameOK
<1>3. status' = "exited" \/ status' = "follow"
  BY Zenon DEF ExecBranch, decideToJump
<1>4. CASE status' = "exited"
  <2>1. status' \notin {"exec", "idle", "follow"}
    BY <1>4
  <2>2. PlacesOK'
    BY <1>1, <1>2, Zenon DEF PlacesOK, Expanded
  <2> QED BY <2>1, <2>2, Zenon DEF OwnInv, Busy, OwnInstruction, Returned
<1>5. CASE status' = "follow"
  <2>1. ASSUME Judged PROVE OwnFrame'
    <3>1. CASE Guarded(call.word)
      <4> DEFINE own == Unconditional(call.word)
      <4>1. label = Minus2(0) \/ (label = Plus2(0) /\ ran = <<own>>)
        BY <1>1, <1>2, <2>1, <3>1, Zenon DEF OwnFrame, GuardedFrame
      <4>2. own.op \notin BranchOps
        BY <1>2, <2>1, <3>1, ParsedGuarded, Zenon DEF Judged
      <4>3. label # Minus2(0)
        <5> SUFFICES ASSUME label = Minus2(0) PROVE FALSE
          OBVIOUS
        <5>1. Instr = own
          BY <1>2, <2>1, <3>1, ParsedGuarded, Zenon DEF Instr, PlacesOK, Judged
        <5> QED BY <1>1, <4>2, <5>1, Zenon
      <4>4. Instr = Skip
        BY <1>2, <2>1, <3>1, <4>1, <4>3, ParsedGuarded, Zenon DEF Instr, PlacesOK, Judged
      <4>5. jumpTo' \in DOMAIN nodeLabelToIndex => jumpTo' = End
        <5>1. status' # "exited"
          BY <1>5
        <5> QED BY <1>2, <4>4, <5>1, SkipJumps, Zenon
      <4>6. own # Skip
        BY <1>1, <4>2, <4>4, Zenon
      <4> HIDE DEF own
      <4>7. ran' = <<own, Skip>>
        BY <1>1, <4>1, <4>3, <4>4, <4>6, ShortRuns, Zenon
      <4> QED BY <1>1, <1>5, <3>1, <4>1, <4>3, <4>5, <4>7, Zenon
              DEF OwnFrame, GuardedFrame, own
    <3>2. CASE ~Guarded(call.word)
      <4>1. ~Expanded /\ call.word # Undecodable
        BY <2>1, <3>2, Zenon DEF Judged, Expanded
      <4>2. label = Plain(0) /\ (ran = << >> \/ ran = <<call.word>>)
        BY <1>1, <1>2, <2>1, <3>2, Zenon DEF OwnFrame, PlainFrame
      <4>3. Instr = call.word
        BY <1>2, <3>2, <4>1, <4>2, ParsedPlain, Zenon DEF Instr, PlacesOK
      <4>4. ran' = <<call.word>>
        BY <1>1, <4>2, <4>3, ShortRuns, Zenon
      <4>5. call.word.op \in BranchOps
        BY <1>1, <4>3, Zenon
      <4> QED BY <1>1, <1>5, <3>2, <4>2, <4>4, <4>5, Zenon DEF OwnFrame, PlainFrame
    <3> QED BY <3>1, <3>2
  <2>2. status' \in {"exec", "follow"} /\ status' # "exec"
    BY <1>5
  <2> QED BY <1>1, <2>1, <2>2, OwnStays, Zenon
<1> QED BY <1>3, <1>4, <1>5

\* A branch to an address that cannot be read is the instruction of the call itself:
\* the address of the jump at 0+2 is never asked for.
LEMMA OwnFails ==
    ASSUME SessionInv, OwnInv, BranchFails PROVE OwnInv'
<1>1. /\ Busy /\ status = "exec" /\ label # End /\ Instr.op \in BranchOps /\ Unreadable
      /\ ran' = IF ran # << >> /\ ran[Len(ran)] = Instr THEN ran ELSE Append(ran, Instr)
      /\ UNCHANGED <<nodeLabelToIndex, asmNodes, call, guarded, label, jumpTo>>
      /\ Returns \/ status' = "follow"
  BY Zenon DEF BranchFails, Busy, Ran
<1>2. /\ jumpTo = NoLabel /\ call.word \in Words /\ asmNodes = parsed(call.word)
      /\ PlacesOK /\ label \in DOMAIN nodeLabelToIndex /\ (Judged => OwnFrame)
  BY <1>1, Zenon DEF OwnInv, SessionInv, FrameOK
<1>3. ASSUME Judged PROVE ~Guarded(call.word)
  <2> SUFFICES ASSUME Guarded(call.word) PROVE FALSE
    OBVIOUS
  <2>1. label = Minus2(0) \/ label = Plus2(0)
    BY <1>1, <1>2, <1>3, Zenon DEF OwnFrame, GuardedFrame
  <2>2. CASE label = Minus2(0)
    <3>1. Instr = Unconditional(call.word)
      BY <1>2, <1>3, <2>2, ParsedGuarded, Zenon DEF Instr, PlacesOK, Judged
    <3>2. Unconditional(call.word).op \notin BranchOps
      BY <1>2, <1>3, ParsedGuarded, Zenon DEF Judged
    <3> QED BY <1>1, <3>1, <3>2, Zenon
  <2>3. CASE label = Plus2(0)
    <3>1. InstrLabel = Plus2(0)
      BY <1>2, <1>3, <2>3, ParsedGuarded, Zenon DEF InstrLabel, PlacesOK, Judged
    <3>2. Plus2(0).suffix = "+2"
      BY DEF Plus2
    <3> QED BY <1>1, <3>1, <3>2, Zenon DEF Unreadable, isConcreteLabel
  <2> QED BY <2>1, <2>2, <2>3
<1>4. ASSUME Judged
      PROVE  label = Plain(0) /\ ran' = <<call.word>> /\ call.word.op \in BranchOps
  <2>1. ~Expanded /\ call.word # Undecodable /\ ~Guarded(call.word)
    BY <1>3, <1>4, Zenon DEF Judged, Expanded
  <2>2. label = Plain(0) /\ (ran = << >> \/ ran = <<call.word>>)
    BY <1>1, <1>2, <1>4, <2>1, Zenon DEF OwnFrame, PlainFrame
  <2>3. Instr = call.word
    BY <1>2, <2>1, <2>2, ParsedPlain, Zenon DEF Instr, PlacesOK
  <2> QED BY <1>1, <2>2, <2>3, ShortRuns, Zenon
<1>5. CASE Returns
  BY <1>1, <1>2, <1>3, <1>4, <1>5, OwnReturns, Zenon
<1>6. CASE status' = "follow"
  <2>1. ASSUME Judged PROVE OwnFrame'
    BY <1>1, <1>2, <1>3, <1>4, <1>6, <2>1, Zenon DEF OwnFrame, PlainFrame
  <2>2. status' \in {"exec", "follow"} /\ status' # "exec"
    BY <1>6
  <2> QED BY <1>1, <2>1, <2>2, OwnStays, Zenon
<1> QED BY <1>1, <1>5, <1>6

\* execFrom of the next label: it exists and is the next place of the call, or the
\* call returns having run what it should.
LEMMA OwnEnter ==
    ASSUME SessionInv, OwnInv, status = "follow",
           NEW next \in DOMAIN nodeLabelToIndex, Enter(next), jumpTo' = NoLabel,
           UNCHANGED <<nodeLabelToIndex, asmNodes, call, guarded, ran>>,
           Judged => IF Guarded(call.word)
                       THEN \/ label = Minus2(0) /\ next = Plus2(0)
                            \/ label = Plus2(0) /\ next = End
                       ELSE next = End \/ (next = Plain(0) /\ call.word.op \in BranchOps)
    PROVE  OwnInv'
<1>1. Busy /\ status # "exec"
  BY DEF Busy
<1>2. /\ call.word \in Words /\ asmNodes = parsed(call.word) /\ PlacesOK
      /\ (Judged => OwnFrame)
  BY <1>1, Zenon DEF OwnInv
<1>3. Judged =>
        IF Guarded(call.word)
          THEN \/ label = Minus2(0) /\ ran = <<Unconditional(call.word)>>
               \/ label = Plus2(0) /\ ran = <<Unconditional(call.word), Skip>>
          ELSE ran = <<call.word>>
  BY <1>1, <1>2, Zenon DEF OwnFrame, GuardedFrame, PlainFrame
<1>4. CASE nodeLabelToIndex[next] \in DOMAIN asmNodes
  <2>1. label' = next /\ status' = "exec"
    BY <1>4, Zenon DEF Enter
  <2>2. ASSUME Judged PROVE OwnFrame'
    BY <1>3, <2>1, <2>2, LabelsDiffer, Zenon DEF OwnFrame, GuardedFrame, PlainFrame
  <2>3. status' \in {"exec", "follow"}
    BY <2>1
  <2> QED BY <1>1, <2>2, <2>3, OwnStays, Zenon
<1>5. CASE nodeLabelToIndex[next] \notin DOMAIN asmNodes
  <2>1. Returns
    BY <1>5, Zenon DEF Enter
  <2>2. ASSUME Judged, Guarded(call.word) PROVE label # Minus2(0)
    <3> SUFFICES ASSUME label = Minus2(0) PROVE FALSE
      OBVIOUS
    <3>1. next = Plus2(0)
      BY <2>2, LabelsDiffer, Zenon
    <3>2. nodeLabelToIndex[next] = 3
      BY <1>2, <3>1, Zenon DEF PlacesOK
    <3>3. DOMAIN asmNodes = {1, 2, 3, 4}
      BY <1>2, <2>2, ParsedGuarded, Zenon DEF Judged
    <3> QED BY <1>5, <3>2, <3>3
  <2>3. Judged => IF Guarded(call.word) THEN ran = <<Unconditional(call.word), Skip>>
                                        ELSE ran = <<call.word>>
    BY <1>3, <2>2, Zenon
  <2> QED BY <1>1, <2>1, <2>3, OwnReturns, Zenon
<1> QED BY <1>4, <1>5

\* Where a frame goes on.
LEMMA OwnFollow ==
    ASSUME SessionInv, OwnInv, TakeJump \/ FallThrough PROVE OwnInv'
<1>1. /\ status = "follow" /\ Busy /\ jumpTo' = NoLabel
      /\ UNCHANGED <<nodeLabelToIndex, asmNodes, call, guarded, ran>>
  BY Zenon DEF TakeJump, FallThrough, Busy
<1>2. /\ PlacesOK /\ (Judged => OwnFrame) /\ IndexOK
      /\ label \in DOMAIN nodeLabelToIndex /\ End \in DOMAIN nodeLabelToIndex
      /\ label # End /\ status # "exec"
      /\ NoLabel \notin DOMAIN nodeLabelToIndex
  <2>1. status # "exec"
    BY <1>1
  <2> QED BY <1>1, <2>1, LabelsDiffer, Zenon DEF OwnInv, SessionInv, FrameOK, IndexOK
<1>3. Judged =>
        IF Guarded(call.word)
          THEN \/ label = Minus2(0) /\ jumpTo = NoLabel
               \/ /\ label = Plus2(0) /\ ran = <<Unconditional(call.word), Skip>>
                  /\ jumpTo \in DOMAIN nodeLabelToIndex => jumpTo = End
          ELSE label = Plain(0) /\ (call.word.op \notin BranchOps => jumpTo = NoLabel)
  BY <1>2, Zenon DEF OwnFrame, GuardedFrame, PlainFrame
<1>4. CASE TakeJump
  <2>1. jumpTo \in DOMAIN nodeLabelToIndex /\ Enter(jumpTo)
    BY <1>4, Zenon DEF TakeJump, Exists
  <2>2. ASSUME Judged, ~Guarded(call.word)
        PROVE  jumpTo = End \/ (jumpTo = Plain(0) /\ call.word.op \in BranchOps)
    <3>1. ~Expanded
      BY <2>2, Zenon DEF Judged, Expanded
    <3> QED BY <1>2, <1>3, <2>1, <2>2, <3>1, Zenon DEF PlacesOK
  <2> QED BY <1>1, <1>2, <1>3, <2>1, <2>2, OwnEnter, Zenon
<1>5. CASE FallThrough /\ HasNext(label)
  <2>1. nextInst(label) \in DOMAIN nodeLabelToIndex
    BY <1>2, <1>5, NextKnown, Zenon
  <2>2. Enter(nextInst(label))
    BY <1>5, <2>1, Zenon DEF FallThrough
  <2>3. ~HasNext(Plus2(0))
    BY DEF HasNext, Plus2
  <2>4. nextInst(Minus2(0)) = Plus2(0)
    <3>1. Minus2(0).suffix = "-2" /\ Minus2(0).at = 0
      BY DEF Minus2
    <3> QED BY <3>1, Zenon DEF nextInst
  <2> QED BY <1>1, <1>3, <1>5, <2>1, <2>2, <2>3, <2>4, NextOfFirst, OwnEnter, Zenon
<1>6. CASE FallThrough /\ ~HasNext(label)
  <2>1. Returns
    BY <1>6, Zenon DEF FallThrough
  <2>2. HasNext(Minus2(0)) /\ HasNext(Plain(0))
    BY DEF HasNext, Minus2, Plain
  <2>3. Judged => IF Guarded(call.word) THEN ran = <<Unconditional(call.word), Skip>>
                                        ELSE ran = <<call.word>>
    BY <1>3, <1>6, <2>2, Zenon
  <2> QED BY <1>1, <2>1, <2>3, OwnReturns, Zenon
<1> QED BY <1>4, <1>5, <1>6, Zenon

\* The places of stale indices and the frames of a call are as OwnInv says.
LEMMA OwnInvHolds == Spec => []OwnInv
<1>1. Init => OwnInv
  <2> SUFFICES ASSUME Init PROVE OwnInv
    OBVIOUS
  <2>1. /\ jumpTo = NoLabel /\ status = "idle" /\ result = Null /\ nodeLabelToIndex = << >>
    BY DEF Init
  <2>2. DOMAIN nodeLabelToIndex = {} /\ ~Busy
    BY <2>1 DEF Busy
  <2> QED BY <2>1, <2>2, Zenon DEF OwnInv, PlacesOK, OwnInstruction, Returned
<1>2. SessionInv /\ OwnInv /\ [Next]_vars => OwnInv'
  <2> SUFFICES ASSUME SessionInv, OwnInv, [Next]_vars PROVE OwnInv'
    OBVIOUS
  <2>1. CASE Calls
    BY <2>1, OwnCall, Zenon DEF Calls
  <2>2. CASE ReachEnd
    BY <2>2, OwnReachEnd
  <2>3. CASE ExecData
    BY <2>3, OwnData
  <2>4. CASE BranchFails
    BY <2>4, OwnFails
  <2>5. CASE ExecBranch
    BY <2>5, OwnBranch
  <2>6. CASE TakeJump \/ FallThrough
    BY <2>6, OwnFollow
  <2>7. CASE UNCHANGED vars
    BY <2>7, Zenon DEF vars, statics, OwnInv, PlacesOK, Expanded, Judged, Busy, OwnFrame,
                       GuardedFrame, PlainFrame, OwnInstruction, Returned
  <2> QED BY <2>1, <2>2, <2>3, <2>4, <2>5, <2>6, <2>7, Zenon DEF Next, Frame
<1> QED BY <1>1, <1>2, SessionInvHolds, PTL DEF Spec

\* The instruction that a call of byteExecute executes first is its own, and no other
\* follows but the jump that ends an expansion, whatever was called before, unless
\* an earlier expansion left the index of label 0 behind an instruction that is not
\* expanded.
THEOREM CallRunsItsInstruction == Spec => []OwnInstruction
<1>1. OwnInv => OwnInstruction
  BY Zenon DEF OwnInv
<1> QED BY <1>1, OwnInvHolds, PTL

-----------------------------------------------------------------------------
(***************************************************************************)
(* Why a call ends                                                         *)
(***************************************************************************)
\* Counts are natural numbers.
CountsOK == \A p \in DOMAIN countJumpedPair : countJumpedPair[p] \in Nat

\* Counting a jump over a pair raises the count of that pair and of no other.
LEMMA CountAfter ==
    ASSUME CountsOK, NEW pair, countJumpedPair' = Counted(pair)
    PROVE  \A p : /\ CountOf(p) \in Nat
                  /\ CountOf(p)' = IF p = pair THEN CountOf(pair) + 1 ELSE CountOf(p)
BY DEF CountOf, Counted, CountsOK

\* Only the second half of a frame counts.
LEMMA CountsStep == CountsOK /\ [Next]_vars => CountsOK'
<1> SUFFICES ASSUME CountsOK, [Next]_vars PROVE CountsOK'
  OBVIOUS
<1>1. CASE countJumpedPair' = countJumpedPair
  BY <1>1 DEF CountsOK
<1>2. ASSUME NEW pair, countJumpedPair' = Counted(pair) PROVE CountsOK'
  BY <1>2 DEF CountsOK, Counted, CountOf
<1>3. CASE TakeJump \/ FallThrough
  BY <1>1, <1>2, <1>3, Zenon DEF TakeJump, FallThrough
<1>4. CASE Calls \/ ReachEnd \/ ExecData \/ BranchFails \/ ExecBranch \/ UNCHANGED vars
  <2>1. countJumpedPair' = countJumpedPair
    BY <1>4, Zenon DEF Calls, byteExecute, ReachEnd, ExecData, BranchFails, ExecBranch, vars,
                         statics
  <2> QED BY <1>1, <2>1
<1> QED BY <1>3, <1>4, Zenon DEF Next, Frame

\* What the budget of a call needs to know.
BudgetInv == SessionInv /\ OwnInv /\ CountsOK

\* It holds in every session.
LEMMA BudgetInvHolds == Spec => []BudgetInv
<1>1. Init => CountsOK
  <2> SUFFICES ASSUME Init PROVE CountsOK
    OBVIOUS
  <2>1. countJumpedPair = << >>
    BY DEF Init
  <2>2. DOMAIN countJumpedPair = {}
    BY <2>1
  <2> QED BY <2>2, Zenon DEF CountsOK
<1> QED BY <1>1, CountsStep, SessionInvHolds, OwnInvHolds, PTL DEF Spec, BudgetInv

\* The labels of a call are four.
LEMMA CallLabelsFinite == IsFiniteSet(CallLabels)
<1>1. CallLabels = (({Plain(0)} \cup {Minus2(0)}) \cup {Plus2(0)}) \cup {End}
  BY Zenon DEF CallLabels
<1>2. IsFiniteSet({Plain(0)}) /\ IsFiniteSet({Minus2(0)}) /\ IsFiniteSet({Plus2(0)})
      /\ IsFiniteSet({End})
  BY FS_Singleton
<1>3. IsFiniteSet({Plain(0)} \cup {Minus2(0)})
  BY <1>2, FS_Union
<1>4. IsFiniteSet(({Plain(0)} \cup {Minus2(0)}) \cup {Plus2(0)})
  BY <1>2, <1>3, FS_Union
<1> QED BY <1>1, <1>2, <1>4, FS_Union

\* The jumps of a call that loopLimitation allows, before any is made.
Jumps == (CallLabels \X CallLabels) \X (1..LoopLimit)

\* There are finitely many, numbered up to the limit for each pair.
LEMMA JumpsFinite == IsFiniteSet(Jumps) /\ \A j \in Jumps : j[2] \in 1..LoopLimit
<1>1. IsFiniteSet(CallLabels \X CallLabels)
  BY CallLabelsFinite, FS_Product
<1>2. IsFiniteSet(1..LoopLimit)
  BY FS_Interval, SessionAssumption
<1> QED BY <1>1, <1>2, FS_Product DEF Jumps

\* The jumps left before and after a step are among them.
LEMMA JumpsLeftAre ==
    /\ JumpsLeft = {j \in Jumps : j[2] > CountOf(j[1])}
    /\ JumpsLeft' = {j \in Jumps : j[2] > CountOf(j[1])'}
BY DEF JumpsLeft, Jumps

\* A label of a call is a label, and it is not ahead of itself.
LEMMA LabelNumbers == \A l \in CallLabels : l.at \in Nat
<1>1. Plain(0).at = 0 /\ Minus2(0).at = 0 /\ Plus2(0).at = 0 /\ End.at = 4
  BY DEF Plain, Minus2, Plus2, End
<1>2. 0 \in Nat /\ 4 \in Nat
  OBVIOUS
<1> QED BY <1>1, <1>2, Zenon DEF CallLabels

\* The types of the budget's parts.
LEMMA BudgetParts ==
    ASSUME label \in CallLabels
    PROVE  /\ IsFiniteSet(JumpsLeft)
           /\ Ahead \in SUBSET CallLabels /\ Ahead # CallLabels
           /\ FrameLeft \in 0..2
<1>1. JumpsLeft \in SUBSET Jumps
  BY JumpsLeftAre
<1>2. IsFiniteSet(JumpsLeft)
  BY <1>1, JumpsFinite, FS_Subset
<1>3. label \notin Ahead
  BY LabelNumbers DEF Ahead
<1>4. Ahead \in SUBSET CallLabels
  BY DEF Ahead
<1>5. FrameLeft \in 0..2
  BY DEF FrameLeft
<1> QED BY <1>2, <1>3, <1>4, <1>5

\* In a frame the labels of the frame, of its node and of an existing destination are
\* labels of a call.
LEMMA FrameLabels ==
    ASSUME BudgetInv, Busy
    PROVE  /\ label \in CallLabels
           /\ InstrLabel \in CallLabels
           /\ Exists => jumpTo \in CallLabels
<1>1. DOMAIN nodeLabelToIndex \subseteq CallLabels
  BY Zenon DEF BudgetInv, SessionInv, IndexOK
<1>2. label \in DOMAIN nodeLabelToIndex /\ nodeLabelToIndex[label] \in DOMAIN asmNodes
  BY Zenon DEF BudgetInv, SessionInv, FrameOK
<1>3. asmNodes = parsed(call.word) /\ call.word \in Words
  BY Zenon DEF BudgetInv, OwnInv
<1>4. \A k \in DOMAIN parsed(call.word) : parsed(call.word)[k].label \in CallLabels
  BY <1>3, ParsedOK, Zenon
<1>5. InstrLabel \in CallLabels
  BY <1>2, <1>3, <1>4, Zenon DEF InstrLabel
<1>6. Exists => jumpTo \in CallLabels
  BY <1>1, Zenon DEF Exists
<1> QED BY <1>1, <1>2, <1>5, <1>6

\* A jump that is taken was one of the jumps left, and is not any more.
LEMMA JumpCounted ==
    ASSUME BudgetInv, TakeJump
    PROVE  JumpsLeft' \in SUBSET JumpsLeft /\ JumpsLeft' # JumpsLeft
<1> DEFINE n == CountOf(Pair)
<1>1. Busy /\ Exists /\ countJumpedPair' = Counted(Pair) /\ countJumpedPair'[Pair] <= LoopLimit
  BY Zenon DEF TakeJump, Busy
<1>2. CountsOK
  BY DEF BudgetInv
<1>3. \A p : /\ CountOf(p) \in Nat
             /\ CountOf(p)' = IF p = Pair THEN n + 1 ELSE CountOf(p)
  BY <1>1, <1>2, CountAfter
<1>4. n \in Nat /\ n + 1 <= LoopLimit /\ LoopLimit \in Nat
  <2>1. countJumpedPair'[Pair] = n + 1
    BY <1>1 DEF Counted
  <2> QED BY <1>1, <1>3, <2>1, SessionAssumption
<1>5. Pair \in CallLabels \X CallLabels
  BY <1>1, FrameLabels DEF Pair
<1>6. PICK token : token = <<Pair, n + 1>>
  OBVIOUS
<1>7. token \in Jumps /\ token[1] = Pair /\ token[2] = n + 1
  <2> HIDE DEF n
  <2> QED BY <1>4, <1>5, <1>6 DEF Jumps
<1>8. CountOf(Pair) = n
  OBVIOUS
<1> HIDE DEF n
<1>9. CountOf(token[1]) = n /\ CountOf(token[1])' = n + 1
  BY <1>3, <1>7, <1>8
<1>10. token \in JumpsLeft /\ token \notin JumpsLeft'
  BY <1>4, <1>7, <1>9, JumpsLeftAre
<1>11. JumpsLeft' \in SUBSET JumpsLeft
  <2>1. ASSUME NEW j \in Jumps, j[2] > CountOf(j[1])' PROVE j[2] > CountOf(j[1])
    <3>1. j[2] \in Nat
      BY JumpsFinite, SessionAssumption
    <3> QED BY <1>3, <1>4, <1>8, <2>1, <3>1
  <2> QED BY <2>1, JumpsLeftAre
<1> QED BY <1>10, <1>11

\* A jump that is refused, and the absence of one, take none of the jumps left.
LEMMA RefusedKeeps ==
    ASSUME BudgetInv, FallThrough
    PROVE  JumpsLeft' = JumpsLeft
<1> DEFINE n == CountOf(Pair)
<1>1. CASE ~Exists
  <2>1. countJumpedPair' = countJumpedPair
    BY <1>1, Zenon DEF FallThrough
  <2> QED BY <2>1 DEF JumpsLeft, CountOf
<1>2. CASE Exists
  <2>1. countJumpedPair' = Counted(Pair) /\ countJumpedPair'[Pair] > LoopLimit
    BY <1>2, Zenon DEF FallThrough
  <2>2. CountsOK
    BY DEF BudgetInv
  <2>3. \A p : /\ CountOf(p) \in Nat
               /\ CountOf(p)' = IF p = Pair THEN n + 1 ELSE CountOf(p)
    BY <2>1, <2>2, CountAfter
  <2>4. n \in Nat /\ n + 1 > LoopLimit /\ LoopLimit \in Nat /\ CountOf(Pair) = n
    <3>1. countJumpedPair'[Pair] = n + 1
      BY <2>1 DEF Counted
    <3> QED BY <2>1, <2>3, <3>1, SessionAssumption
  <2> HIDE DEF n
  <2>5. ASSUME NEW j \in Jumps PROVE j[2] > CountOf(j[1])' <=> j[2] > CountOf(j[1])
    <3>1. j[2] \in Nat /\ j[2] <= LoopLimit
      BY <2>4, JumpsFinite
    <3>2. CASE j[1] = Pair
      BY <2>3, <2>4, <3>1, <3>2
    <3>3. CASE j[1] # Pair
      BY <2>3, <3>3
    <3> QED BY <3>2, <3>3
  <2> QED BY <2>5, JumpsLeftAre
<1> QED BY <1>1, <1>2

\* The label that nextInst names is ahead, and nothing ahead of it was not.
LEMMA NextIsAhead ==
    ASSUME label \in CallLabels, nextInst(label) \in CallLabels, label' = nextInst(label)
    PROVE  Ahead' \in SUBSET Ahead /\ Ahead' # Ahead
<1>1. label.at \in Nat /\ nextInst(label).at \in Nat /\ \A l \in CallLabels : l.at \in Nat
  BY LabelNumbers
<1>2. \/ label.suffix = "-2" /\ label'.at = label.at /\ label'.suffix = "+2"
      \/ label.suffix # "-2" /\ label'.at = label.at + 4
  BY DEF nextInst, Plus2, Plain, InstructionSize
<1>3. label'.suffix # "-2"
  BY DEF nextInst, Plus2, Plain
<1>4. label' \in Ahead /\ label' \notin Ahead'
  BY <1>1, <1>2 DEF Ahead
<1>5. ASSUME NEW l \in CallLabels, l \in Ahead' PROVE l \in Ahead
  <2>1. l.at > label'.at
    BY <1>3, <1>5 DEF Ahead
  <2>2. l.at > label.at
    BY <1>1, <1>2, <2>1
  <2> QED BY <2>2 DEF Ahead
<1>6. Ahead' \in SUBSET CallLabels
  BY DEF Ahead
<1> QED BY <1>4, <1>5, <1>6

\* The first half of a frame, and a frame that ends the call, leave label and counts.
LEMMA ExecFrame ==
    ASSUME ReachEnd \/ ExecData \/ BranchFails \/ ExecBranch
    PROVE  /\ status = "exec" /\ status' # "exec"
           /\ UNCHANGED <<label, countJumpedPair>>
<1>1. CASE ReachEnd \/ ExecData \/ BranchFails
  BY <1>1 DEF ReachEnd, ExecData, BranchFails, Returns, statics
<1>2. CASE ExecBranch
  <2>1. status = "exec" /\ UNCHANGED <<label, countJumpedPair>>
    BY <1>2, Zenon DEF ExecBranch
  <2>2. PICK yes, no : decideToJump(yes, no)
    BY <1>2, Zenon DEF ExecBranch
  <2>3. status' = "exited" \/ status' = "follow"
    BY <2>2, Zenon DEF decideToJump
  <2> QED BY <2>1, <2>3
<1> QED BY <1>1, <1>2

\* A frame of a call leads to a label of a call.
LEMMA NextLabel ==
    ASSUME BudgetInv, Frame
    PROVE  Busy /\ label' \in CallLabels
<1>1. Busy
  BY DEF Frame, ReachEnd, ExecData, BranchFails, ExecBranch, TakeJump, FallThrough, Busy
<1>2. label \in CallLabels /\ (Exists => jumpTo \in CallLabels)
  BY <1>1, FrameLabels
<1>3. ASSUME NEW next \in CallLabels, Enter(next) PROVE label' \in CallLabels
  BY <1>2, <1>3, Zenon DEF Enter
<1>4. CASE ReachEnd \/ ExecData \/ BranchFails \/ ExecBranch
  BY <1>1, <1>2, <1>4, ExecFrame
<1>5. CASE TakeJump
  BY <1>1, <1>2, <1>3, <1>5, Zenon DEF TakeJump
<1>6. CASE FallThrough
  <2>1. DOMAIN nodeLabelToIndex \subseteq CallLabels
    BY Zenon DEF BudgetInv, SessionInv, IndexOK
  <2> QED BY <1>1, <1>2, <1>3, <1>6, <2>1, Zenon DEF FallThrough
<1> QED BY <1>4, <1>5, <1>6, Zenon DEF Frame

\* Every step within a call of byteExecute uses up some of its budget, whatever the
\* calls before left in countJumpedPair, nodeLabelToIndex and envStack, and calls
\* only ever take jumps from one another.
THEOREM CallsProgress == Spec => CallProgresses
<1>1. ASSUME BudgetInv, Frame
      PROVE  /\ StepsLeft' \in Nat /\ StepsLeft' < StepsLeft
             /\ JumpsLeft' \in SUBSET JumpsLeft
  <2>1. Busy /\ label' \in CallLabels /\ label \in CallLabels
    BY <1>1, NextLabel, FrameLabels
  <2>2. /\ IsFiniteSet(JumpsLeft)
        /\ Ahead \in SUBSET CallLabels /\ Ahead # CallLabels
        /\ FrameLeft \in 0..2
    BY <2>1, BudgetParts
  <2>3. Ahead' \in SUBSET CallLabels /\ Ahead' # CallLabels /\ FrameLeft' \in 0..2
    <3>1. label' \notin Ahead'
      BY <2>1, LabelNumbers DEF Ahead
    <3>2. Ahead' \in SUBSET CallLabels
      BY DEF Ahead
    <3>3. FrameLeft' \in 0..2
      BY DEF FrameLeft
    <3> QED BY <2>1, <3>1, <3>2, <3>3
  <2>4. /\ StepsLeft = Budget(JumpsLeft, CallLabels, Ahead, FrameLeft)
        /\ StepsLeft' = Budget(JumpsLeft', CallLabels, Ahead', FrameLeft')
    BY DEF StepsLeft
  <2>5. FrameLeft \in Nat /\ FrameLeft' \in Nat
    BY <2>2, <2>3
  <2>6. StepsLeft' \in Nat
    <3>1. JumpsLeft' \in SUBSET Jumps
      BY JumpsLeftAre
    <3>2. IsFiniteSet(JumpsLeft')
      BY <3>1, JumpsFinite, FS_Subset
    <3>3. Budget(JumpsLeft', CallLabels, Ahead', FrameLeft') \in Nat
      BY <2>3, <2>5, <3>2, CallLabelsFinite, BudgetIsNat
    <3> QED BY <2>4, <3>3
  <2>7. ASSUME label' = label, JumpsLeft' = JumpsLeft, FrameLeft' < FrameLeft
        PROVE  StepsLeft' < StepsLeft
    <3>1. Ahead' = Ahead
      BY <2>7 DEF Ahead
    <3>2. Budget(JumpsLeft, CallLabels, Ahead, FrameLeft')
            < Budget(JumpsLeft, CallLabels, Ahead, FrameLeft)
      BY <2>2, <2>5, <2>7, CallLabelsFinite, FrameSpends
    <3> QED BY <2>4, <2>7, <3>1, <3>2
  <2>8. CASE ReachEnd \/ ExecData \/ BranchFails \/ ExecBranch
    <3>1. /\ status = "exec" /\ status' # "exec"
          /\ UNCHANGED <<label, countJumpedPair>>
      BY <2>8, ExecFrame
    <3>2. JumpsLeft' = JumpsLeft
      BY <3>1 DEF JumpsLeft, CountOf
    <3>3. FrameLeft' < FrameLeft
      BY <3>1 DEF FrameLeft
    <3> QED BY <2>6, <2>7, <3>1, <3>2, <3>3
  <2>9. CASE TakeJump
    <3>1. JumpsLeft' \in SUBSET JumpsLeft /\ JumpsLeft' # JumpsLeft
      BY <1>1, <2>9, JumpCounted
    <3>2. Budget(JumpsLeft', CallLabels, Ahead', FrameLeft')
            < Budget(JumpsLeft, CallLabels, Ahead, FrameLeft)
      BY <2>2, <2>3, <2>5, <3>1, CallLabelsFinite, JumpSpends
    <3> QED BY <2>4, <2>6, <3>1, <3>2
  <2>10. CASE FallThrough
    <3>1. JumpsLeft' = JumpsLeft
      BY <1>1, <2>10, RefusedKeeps
    <3>2. CASE label' = nextInst(label) /\ nextInst(label) \in CallLabels
      <4>1. Ahead' \in SUBSET Ahead /\ Ahead' # Ahead
        BY <2>1, <3>2, NextIsAhead
      <4>2. Budget(JumpsLeft, CallLabels, Ahead', FrameLeft')
              < Budget(JumpsLeft, CallLabels, Ahead, FrameLeft)
        BY <2>2, <2>3, <2>5, <4>1, CallLabelsFinite, MoveSpends
      <4> QED BY <2>4, <2>6, <3>1, <4>2
    <3>3. CASE label' = label /\ status' = "idle"
      <4>1. status = "follow"
        BY <2>10 DEF FallThrough
      <4>2. FrameLeft' < FrameLeft
        BY <3>3, <4>1 DEF FrameLeft
      <4> QED BY <2>6, <2>7, <3>1, <3>3, <4>2
    <3>4. DOMAIN nodeLabelToIndex \subseteq CallLabels
      BY <1>1, Zenon DEF BudgetInv, SessionInv, IndexOK
    <3>5. ASSUME NEW next, Enter(next)
          PROVE  label' = next \/ (label' = label /\ status' = "idle")
      BY <3>5, Zenon DEF Enter, Returns
    <3> QED BY <2>10, <3>2, <3>3, <3>4, <3>5, Zenon DEF FallThrough, Returns
  <2> QED BY <1>1, <2>8, <2>9, <2>10 DEF Frame
<1>2. ASSUME Calls PROVE status = "idle" /\ JumpsLeft' = JumpsLeft
  <2>1. status = "idle" /\ countJumpedPair' = countJumpedPair
    BY <1>2, Zenon DEF Calls, byteExecute
  <2> QED BY <2>1 DEF JumpsLeft, CountOf
<1> DEFINE Spends == /\ status \in {"exec", "follow"} => StepsLeft' \in Nat /\ StepsLeft' < StepsLeft
                     /\ JumpsLeft' \subseteq JumpsLeft
<1>3. BudgetInv /\ [Next]_vars => [Spends]_vars
  BY <1>1, <1>2 DEF Next
<1> QED BY <1>3, BudgetInvHolds, PTL DEF Spec, CallProgresses

=============================================================================
