---------------------------- MODULE WorklistProofs ----------------------------
(***************************************************************************)
(* The exploration implements the abstract work list, and loses no input   *)
(* at a direct branch when the solver answers.                             *)
(***************************************************************************)
EXTENDS ExplorerProofs

\* The path conditions on a stack of models, and the abstract status.
Conditions(stack) == [k \in DOMAIN stack |-> stack[k].pathCondition]

Status == IF phase \in {"exec", "follow"} THEN "running" ELSE phase

\* The path conditions of a stack form a sequence of the same length.
LEMMA ConditionsSeq ==
    ASSUME NEW s \in Seq(Models)
    PROVE  /\ Conditions(s) \in Seq(SUBSET Inputs)
           /\ Len(Conditions(s)) = Len(s) /\ Len(s) \in Nat
           /\ \A k \in 1..Len(s) : Conditions(s)[k] = s[k].pathCondition
<1>1. Len(s) \in Nat /\ DOMAIN s = 1..Len(s) /\ \A k \in 1..Len(s) : s[k] \in Models
  BY LenProperties, ElementOfSeq
<1>2. \A k \in 1..Len(s) : s[k].pathCondition \in SUBSET Inputs
  BY <1>1 DEF Models
<1>3. Conditions(s) \in [1..Len(s) -> SUBSET Inputs]
  BY <1>1, <1>2 DEF Conditions
<1>4. Conditions(s) \in Seq(SUBSET Inputs) /\ Len(Conditions(s)) = Len(s)
  BY <1>1, <1>3, SeqDef, LenProperties
<1> QED BY <1>1, <1>4 DEF Conditions

\* Pushing a model appends its path condition.
LEMMA ConditionsAppend ==
    ASSUME NEW s \in Seq(Models), NEW e \in Models
    PROVE  Conditions(Append(s, e)) = Append(Conditions(s), e.pathCondition)
<1> DEFINE l == Conditions(Append(s, e))
           r == Append(Conditions(s), e.pathCondition)
<1>1. e.pathCondition \in SUBSET Inputs
  BY DEF Models
<1>2. /\ Append(s, e) \in Seq(Models) /\ Len(Append(s, e)) = Len(s) + 1
      /\ \A k \in 1..Len(s) : Append(s, e)[k] = s[k]
      /\ Append(s, e)[Len(s) + 1] = e
  BY AppendProperties
<1>3. /\ Conditions(s) \in Seq(SUBSET Inputs) /\ Len(s) \in Nat
      /\ Len(Conditions(s)) = Len(s)
      /\ \A k \in 1..Len(s) : Conditions(s)[k] = s[k].pathCondition
  BY ConditionsSeq
<1>4. /\ r \in Seq(SUBSET Inputs) /\ Len(r) = Len(s) + 1
      /\ \A k \in 1..Len(s) : r[k] = Conditions(s)[k]
      /\ r[Len(s) + 1] = e.pathCondition
  BY <1>1, <1>3, AppendProperties
<1>5. /\ l \in Seq(SUBSET Inputs) /\ Len(l) = Len(s) + 1
      /\ \A k \in 1..(Len(s) + 1) : l[k] = Append(s, e)[k].pathCondition
  BY <1>2, ConditionsSeq
<1> HIDE DEF l, r
<1>6. \A k \in 1..(Len(s) + 1) : k \in 1..Len(s) \/ k = Len(s) + 1
  BY <1>3
<1>7. \A k \in 1..(Len(s) + 1) : l[k] = r[k]
  BY <1>2, <1>3, <1>4, <1>5, <1>6
<1>8. l = r
  BY <1>4, <1>5, <1>7, SeqEqual
<1> QED BY <1>8 DEF l, r

\* A rollback takes the last path condition off.
LEMMA ConditionsBelow ==
    ASSUME NEW s \in Seq(Models), s # << >>
    PROVE  /\ Conditions(s) # << >>
           /\ Conditions(s)[Len(Conditions(s))] = Top(s).pathCondition
           /\ Conditions(Below(s)) = SubSeq(Conditions(s), 1, Len(Conditions(s)) - 1)
<1>1. /\ Len(s) \in Nat \ {0} /\ Below(s) \in Seq(Models)
      /\ Len(Below(s)) = Len(s) - 1
      /\ \A i \in 1..(Len(s) - 1) : Below(s)[i] = s[i]
  BY BelowProperties
<1>2. /\ Conditions(s) \in Seq(SUBSET Inputs) /\ Len(Conditions(s)) = Len(s)
      /\ \A k \in 1..Len(s) : Conditions(s)[k] = s[k].pathCondition
  BY ConditionsSeq
<1>3. Conditions(s) # << >>
  BY <1>1, <1>2, EmptySeq
<1>4. Below(Conditions(s)) = SubSeq(Conditions(s), 1, Len(Conditions(s)) - 1)
  BY DEF Below
<1>5. /\ Below(Conditions(s)) \in Seq(SUBSET Inputs)
      /\ Len(Below(Conditions(s))) = Len(s) - 1
      /\ \A i \in 1..(Len(s) - 1) : Below(Conditions(s))[i] = Conditions(s)[i]
  BY <1>2, <1>3, BelowProperties
<1>6. /\ Conditions(Below(s)) \in Seq(SUBSET Inputs)
      /\ Len(Conditions(Below(s))) = Len(s) - 1
      /\ \A i \in 1..(Len(s) - 1) : Conditions(Below(s))[i] = Below(s)[i].pathCondition
  BY <1>1, ConditionsSeq
<1>7. \A i \in 1..(Len(s) - 1) : Conditions(Below(s))[i] = Below(Conditions(s))[i]
  <2> SUFFICES ASSUME NEW i \in 1..(Len(s) - 1)
               PROVE  Conditions(Below(s))[i] = Below(Conditions(s))[i]
    OBVIOUS
  <2>1. i \in 1..Len(s)
    BY <1>1
  <2> QED BY <1>1, <1>2, <1>5, <1>6, <2>1
<1>8. Conditions(Below(s)) = Below(Conditions(s))
  BY <1>5, <1>6, <1>7, SeqEqual
<1> QED BY <1>1, <1>2, <1>3, <1>4, <1>8 DEF Top

\* A step of the abstract search, and a step that it does not see.
Abstract == [Search!Next]_(Search!wvars)

\* decideToJump, given two disjoint models within the path condition, forks,
\* narrows, resumes or finishes.
LEMMA DecideImplements ==
    ASSUME SearchOK, RollbackSafe, phase = "exec",
           NEW map \in SUBSET Labels,
           NEW t, t.pathCondition \in SUBSET pathCond,
           NEW f, f.pathCondition \in SUBSET pathCond,
           t.pathCondition \cap f.pathCondition = {},
           t.label \in map => t.pathCondition # {},
           f.label \in map => f.pathCondition # {},
           decideToJump(t, f, map)
    PROVE  Search!Next
<1>1. /\ envStack \in Seq(Models)
      /\ t.pathCondition \in SUBSET Inputs /\ f.pathCondition \in SUBSET Inputs
  BY DEF SearchOK
<1>2. Entry(t, map).pathCondition = t.pathCondition
      /\ Entry(f, map).pathCondition = f.pathCondition
  BY DEF Entry
<1>3. Status = "running"
  BY DEF Status
<1>4. CASE /\ t.label \notin map /\ f.label \notin map /\ envStack = << >>
           /\ phase' = "exited" /\ UNCHANGED <<jumpTo, search>>
  <2>1. Conditions(envStack) = << >>
    BY <1>1, <1>4, ConditionsSeq, EmptySeq
  <2>2. Conditions(envStack)' = Conditions(envStack) /\ pathCond' = pathCond
        /\ Status' = "exited"
    BY <1>4 DEF search, Conditions, Status
  <2>3. Search!Finish
    BY <2>1, <2>2 DEF Search!Finish, Conditions, Status
  <2> QED BY <1>3, <2>3 DEF Search!Next, Status
<1>5. CASE /\ t.label \in map /\ f.label \in map
           /\ phase' = "follow" /\ Resumes(Entry(t, map), Append(envStack, Entry(f, map)))
  <2>1. Entry(f, map) \in Models
    BY <1>1, <1>5 DEF Entry, Models
  <2>2. envStack' = Append(envStack, Entry(f, map)) /\ pathCond' = t.pathCondition
    BY <1>2, <1>5 DEF Resumes
  <2>3. Conditions(envStack') = Append(Conditions(envStack), f.pathCondition)
    BY <1>1, <1>2, <2>1, <2>2, ConditionsAppend
  <2>4. Status' = Status
    BY <1>5 DEF Status
  <2>5. Search!Fork(t.pathCondition, f.pathCondition)
    BY <1>5, <2>2, <2>3, <2>4 DEF Search!Fork, Conditions, Status
  <2> QED BY <1>3, <2>5 DEF Search!Next, Status
<1>6. ASSUME NEW c \in SUBSET pathCond, c # {}, pathCond' = c, envStack' = envStack,
             phase' = "follow"
      PROVE  Search!Next
  <2>1. Search!Narrow(c)
    BY <1>6 DEF Search!Narrow
  <2> QED BY <1>3, <2>1 DEF Search!Next, Status
<1>7. CASE /\ t.label \in map /\ f.label \notin map
           /\ phase' = "follow" /\ Resumes(Entry(t, map), envStack)
  BY <1>2, <1>6, <1>7 DEF Resumes
<1>8. CASE /\ t.label \notin map /\ f.label \in map
           /\ phase' = "follow" /\ Resumes(Entry(f, map), envStack)
  BY <1>2, <1>6, <1>8 DEF Resumes
<1>9. CASE /\ t.label \notin map /\ f.label \notin map /\ envStack # << >>
           /\ phase' = "follow" /\ Resumes(Top(envStack), Below(envStack))
  <2>1. envStack' = Below(envStack) /\ pathCond' = Top(envStack).pathCondition
    BY <1>9 DEF Resumes
  <2>2. /\ Conditions(envStack) # << >>
        /\ Conditions(envStack)[Len(Conditions(envStack))] = pathCond'
        /\ Conditions(envStack') = SubSeq(Conditions(envStack), 1,
                                          Len(Conditions(envStack)) - 1)
    BY <1>1, <1>9, <2>1, ConditionsBelow
  <2>3. Status' = Status
    BY <1>9 DEF Status
  <2>4. Search!Resume
    BY <2>2, <2>3 DEF Search!Resume, Conditions, Status
  <2> QED BY <1>3, <2>4 DEF Search!Next, Status
<1> QED BY <1>1, <1>4, <1>5, <1>7, <1>8, <1>9, DecideCases

\* Any other step leaves the search as it is, or ends it.
LEMMA OtherImplements ==
    ASSUME UNCHANGED <<pathCond, envStack>>, phase \in {"exec", "follow"},
           phase' \in {"exec", "follow", "returned"}
    PROVE  Abstract
<1>1. CASE phase' = "returned"
  <2>1. Search!GiveUp
    BY <1>1 DEF Search!GiveUp
  <2> QED BY <2>1 DEF Abstract, Search!Next
<1>2. CASE phase' \in {"exec", "follow"}
  BY <1>2 DEF Abstract, Search!wvars
<1> QED BY <1>1, <1>2

\* Executor's search implements Worklist whatever the solver answers, unless a
\* path condition may be dropped for its length.
THEOREM WorklistImplemented == ASSUME ~CondTooLong PROVE Spec => ImplementsWorklist
<1>1. Init => Search!Init
  <2> SUFFICES ASSUME Init PROVE Search!Init
    OBVIOUS
  <2>1. pathCond = Inputs /\ envStack = << >> /\ phase = "exec"
    BY DEF Init, InitWith
  <2>2. Conditions(envStack) = << >>
    BY <2>1, EmptySeq, ConditionsSeq
  <2> QED BY <2>1, <2>2 DEF Search!Init, Conditions
<1>2. ASSUME IndInv, [Next]_vars PROVE Abstract
  <2>1. SearchOK /\ RollbackSafe
    BY <1>2 DEF IndInv, TypeOK, SearchOK
  <2>2. CASE ExecBranch
    <3>1. PICK t \in Choices(pathCond), f \in Choices(pathCond), map \in SUBSET Labels :
              /\ t.pathCondition \cap f.pathCondition = {}
              /\ t.label \in map => t.pathCondition # {}
              /\ f.label \in map => f.pathCondition # {}
              /\ decideToJump(t, f, map)
      BY <1>2, <2>2, BranchDecides
    <3>2. t.pathCondition \in SUBSET pathCond /\ f.pathCondition \in SUBSET pathCond
      BY DEF Choices
    <3>3. phase = "exec"
      BY <2>2 DEF ExecBranch
    <3>4. Search!Next
      BY <2>1, <3>1, <3>2, <3>3, DecideImplements
    <3> QED BY <3>4 DEF Abstract
  <2>3. CASE ExecPop
    <3>1. phase = "exec"
      BY <2>3 DEF ExecPop, Executes
    <3>2. CASE Throw
      BY <3>1, <3>2, OtherImplements DEF Throw
    <3>3. CASE NoJump
      BY <3>1, <3>3, OtherImplements DEF NoJump, search
    <3>4. ASSUME NEW t \in Choices(Inputs), NEW map \in SUBSET Labels,
                 t.pathCondition # {}, t.pathCondition = pathCond, NoLabel \notin map,
                 decideToJump(t, NoModel, map)
          PROVE  Abstract
      <4>1. /\ NoModel.pathCondition \in SUBSET pathCond /\ NoModel.label \notin map
            /\ t.pathCondition \in SUBSET pathCond
            /\ t.pathCondition \cap NoModel.pathCondition = {}
        BY <3>4 DEF NoModel
      <4>2. Search!Next
        BY <2>1, <3>1, <3>4, <4>1, DecideImplements
      <4> QED BY <4>2 DEF Abstract
    <3> QED BY <1>2, <2>3, <3>2, <3>3, <3>4, PopDecides
  <2>4. CASE Next /\ ~ExecBranch /\ ~ExecPop
    <3>1. UNCHANGED <<pathCond, envStack>>
      BY <2>4, SearchSteps
    <3>2. phase \in {"exec", "follow"} /\ phase' \in {"exec", "follow", "returned"}
      <4>1. CASE Exec
        BY <2>4, <4>1 DEF Exec, BranchIgnored, BranchThrows, ExecMov, ExecCmp, ExecLdr, ExecLdrb,
                          ExecNop, ExecPush, Executes, Return, Throw, NoJump
      <4>2. CASE Follow
        BY <4>2 DEF Follow, TakeJump, Continue, BreakLoop, FallThrough, Enter
      <4> QED BY <2>4, <4>1, <4>2 DEF Next, ReachEnd, StackOverflow, Return, Throw
    <3> QED BY <3>1, <3>2, OtherImplements
  <2>5. CASE UNCHANGED vars
    BY <2>5 DEF vars, search, Abstract, Search!wvars
  <2> QED BY <1>2, <2>2, <2>3, <2>4, <2>5
<1>3. IndInv /\ [Next]_vars => [Search!Next]_(Search!wvars)
  BY <1>2 DEF Abstract
<1> QED BY <1>1, <1>3, InvHolds, PTL DEF Spec, ImplementsWorklist, Search!Spec

-----------------------------------------------------------------------------
\* One step of NoBranchLost, from a direct branch.
BranchAnswered ==
    /\ ~SolverFails /\ zero.declared /\ phase = "exec" /\ Variant.usesTarget
    /\ Instr.op \in BranchOps /\ Instr.target # NoLabel

AllKept ==
    \A i \in pathCond : \/ i \in pathCond'
                        \/ \E k \in DOMAIN envStack' : i \in envStack'[k].pathCondition

\* An answer that is missing, from a solver that answers, is an empty condition.
LEMMA AnswersMean ==
    ASSUME TypeOK, BranchAnswered,
           NEW pos \in PosAnswers(Instr.cond, Declared),
           NEW neg \in NegAnswers(Instr.cond, Declared)
    PROVE  /\ pos \in BOOLEAN /\ neg \in BOOLEAN
           /\ ~pos => PosCond(Instr.cond) = {}
           /\ ~neg => NegCond(Instr.cond) = {}
           /\ PosCond(Instr.cond) \cup NegCond(Instr.cond) = pathCond
<1>1. Declared = TRUE
  BY DEF BranchAnswered, Declared, ViaModel, Direct, TypeOK
<1>2. SolverFails = FALSE
  BY ConstantsAssumption DEF BranchAnswered
<1>3. /\ pos \in BOOLEAN /\ neg \in BOOLEAN
      /\ ~pos => PosCond(Instr.cond) = {}
      /\ ~neg => NegCond(Instr.cond) = {}
  BY <1>1, <1>2 DEF PosAnswers, NegAnswers, checkSAT, NegCond
<1>4. PosCond(Instr.cond) \cup NegCond(Instr.cond) = pathCond
  BY DEF PosCond, NegCond
<1> QED BY <1>3, <1>4

\* A direct branch keeps every input of the path condition.
LEMMA BranchKeepsAll ==
    ASSUME IndInv, BranchAnswered, ExecBranch
    PROVE  AllKept
<1>1. TypeOK /\ PendingFeasible /\ RollbackSafe /\ envStack \in Seq(Models)
  BY DEF IndInv, TypeOK
<1>2. Destinations = {Instr.target} /\ Instr.target \in Labels /\ label \in Labels
      /\ known \in SUBSET Labels
  <2>1. Instr \in Instructions
    BY <1>1 DEF TypeOK, NodesOK, Instr
  <2>2. Instr.target \in Labels
    BY <2>1 DEF Instructions, BranchAnswered
  <2> QED BY <1>1, <2>2 DEF BranchAnswered, Destinations, ViaTarget, Direct, TypeOK, NodesOK
<1>3. PICK pos \in PosAnswers(Instr.cond, Declared),
           neg \in NegAnswers(Instr.cond, Declared) :
         \E dest \in IF pos THEN Destinations ELSE {NoLabel} :
           LET next == IF neg THEN nextInst(label) ELSE NoLabel
           IN  decideToJump(
                 [label |-> dest, pathCondition |-> PosCond(Instr.cond)],
                 [label |-> next, pathCondition |-> NegCond(Instr.cond)],
                 Put({label, dest, next}))
  BY DEF ExecBranch
<1> DEFINE next == IF neg THEN nextInst(label) ELSE NoLabel
<1>4. PICK dest \in IF pos THEN Destinations ELSE {NoLabel} :
        decideToJump([label |-> dest, pathCondition |-> PosCond(Instr.cond)],
                     [label |-> next, pathCondition |-> NegCond(Instr.cond)],
                     Put({label, dest, next}))
  BY <1>3
<1> DEFINE t == [label |-> dest, pathCondition |-> PosCond(Instr.cond)]
           f == [label |-> next, pathCondition |-> NegCond(Instr.cond)]
           map == Put({label, dest, next})
<1>5. /\ pos \in BOOLEAN /\ neg \in BOOLEAN
      /\ ~pos => PosCond(Instr.cond) = {}
      /\ ~neg => NegCond(Instr.cond) = {}
      /\ PosCond(Instr.cond) \cup NegCond(Instr.cond) = pathCond
  BY <1>1, <1>3, AnswersMean
<1>6. dest = IF pos THEN Instr.target ELSE NoLabel
  BY <1>2, <1>4, <1>5
<1>7. nextInst(label) \in Labels
  BY <1>2, NextType
<1>8. dest \in Labels \cup {NoLabel} /\ next \in Labels \cup {NoLabel}
      /\ (pos <=> dest # NoLabel) /\ (neg <=> next # NoLabel)
  BY <1>2, <1>5, <1>6, <1>7, NoLabelIsNone
<1> HIDE DEF next
<1>9. /\ map \in SUBSET Labels
      /\ (dest \in map <=> pos) /\ (next \in map <=> neg)
  BY <1>2, <1>8, NoLabelIsNone DEF Put
<1>10. /\ t.label = dest /\ t.pathCondition = PosCond(Instr.cond)
       /\ f.label = next /\ f.pathCondition = NegCond(Instr.cond)
  OBVIOUS
<1>11. decideToJump(t, f, map)
  BY <1>4
<1>12. t.pathCondition \in SUBSET Inputs /\ f.pathCondition \in SUBSET Inputs
  BY <1>1, <1>5, <1>10 DEF TypeOK
<1>13. /\ Entry(t, map).pathCondition = t.pathCondition
       /\ Entry(f, map).pathCondition = f.pathCondition
       /\ f.label \in map => Entry(f, map) \in Models
  BY <1>9, <1>12 DEF Entry, Models
<1> HIDE DEF t, f, map
<1>14. pos \/ neg
  BY <1>1, <1>5 DEF PendingFeasible
<1>15. \/ pos /\ neg /\ Resumes(Entry(t, map), Append(envStack, Entry(f, map)))
       \/ pos /\ ~neg /\ Resumes(Entry(t, map), envStack)
       \/ ~pos /\ neg /\ Resumes(Entry(f, map), envStack)
  BY <1>1, <1>9, <1>10, <1>11, <1>12, <1>14, DecideCases
<1>16. CASE pos /\ neg /\ Resumes(Entry(t, map), Append(envStack, Entry(f, map)))
  <2> DEFINE s == Append(envStack, Entry(f, map))
  <2>1. /\ s \in Seq(Models) /\ Len(s) = Len(envStack) + 1 /\ Len(envStack) \in Nat
        /\ s[Len(envStack) + 1] = Entry(f, map)
    BY <1>1, <1>9, <1>10, <1>13, <1>16, AppendProperties, LenProperties
  <2>2. Len(envStack) + 1 \in DOMAIN s
    BY <2>1, LenProperties
  <2>3. envStack' = s /\ pathCond' = t.pathCondition
    BY <1>13, <1>16 DEF Resumes
  <2> HIDE DEF s
  <2>4. Len(envStack) + 1 \in DOMAIN envStack'
        /\ envStack'[Len(envStack) + 1].pathCondition = f.pathCondition
    BY <1>13, <2>1, <2>2, <2>3
  <2> QED BY <1>5, <1>10, <2>3, <2>4 DEF AllKept
<1>17. CASE pos /\ ~neg /\ Resumes(Entry(t, map), envStack)
  BY <1>5, <1>10, <1>13, <1>17 DEF AllKept, Resumes
<1>18. CASE ~pos /\ neg /\ Resumes(Entry(f, map), envStack)
  BY <1>5, <1>10, <1>13, <1>18 DEF AllKept, Resumes
<1> QED BY <1>15, <1>16, <1>17, <1>18

\* A solver that answers costs the search no input at a direct branch: with
\* SolverFails false, both sides of b, bl and bx to a label are kept.
THEOREM NoBranchIsLost == Spec => NoBranchLost
<1>1. ASSUME IndInv, Next, BranchAnswered PROVE AllKept
  <2>1. CASE UNCHANGED pathCond
    BY <2>1 DEF AllKept
  <2>2. ~ExecPop
    BY <1>1 DEF BranchAnswered, ExecPop, Executes, BranchOps
  <2> QED BY <1>1, <2>1, <2>2, SearchSteps, BranchKeepsAll
<1>2. IndInv /\ [Next]_vars => [BranchAnswered => AllKept]_vars
  BY <1>1
<1> QED BY <1>2, InvHolds, PTL DEF Spec, NoBranchLost, BranchAnswered, AllKept

=============================================================================
