-------------------------- MODULE TerminationProofs --------------------------
(***************************************************************************)
(* Why the search ends, for every program, loop limit, variation and       *)
(* behaviour of the solver: every step uses up some of a budget.           *)
(***************************************************************************)
EXTENDS ExplorerProofs, BudgetProofs

\* The labels a program is expanded to are finitely many.
LEMMA ExpandFinite ==
    ASSUME NEW code \in Programs
    PROVE  IsFiniteSet(DOMAIN expand(code))
<1> DEFINE G == GuardedAt(code)
           D == DOMAIN code
           P == {Plain(a) : a \in D}
           Q == {Minus2(a) : a \in G}
           R == {Plus2(a) : a \in G}
<1>1. IsFiniteSet(D)
  BY ProgramsAssumption
<1>2. G \in SUBSET D
  BY DEF GuardedAt
<1>3. IsFiniteSet(G)
  BY <1>1, <1>2, FS_Subset
<1> HIDE DEF D, G
<1>4. IsFiniteSet(P)
  <2> DEFINE f == [a \in D |-> Plain(a)]
  <2>1. f \in Surjection(D, P)
    BY DEF Surjection
  <2> QED BY <1>1, <2>1, FS_Surjection
<1>5. IsFiniteSet(Q)
  <2> DEFINE f == [a \in G |-> Minus2(a)]
  <2>1. f \in Surjection(G, Q)
    BY DEF Surjection
  <2> QED BY <1>3, <2>1, FS_Surjection
<1>6. IsFiniteSet(R)
  <2> DEFINE f == [a \in G |-> Plus2(a)]
  <2>1. f \in Surjection(G, R)
    BY DEF Surjection
  <2> QED BY <1>3, <2>1, FS_Surjection
<1> HIDE DEF P, Q, R
<1>7. IsFiniteSet((P \cup Q) \cup R)
  BY <1>4, <1>5, <1>6, FS_Union
<1>8. DOMAIN expand(code) = (P \cup Q) \cup R
  BY DEF expand, P, Q, R, D, G
<1> QED BY <1>7, <1>8

\* The program does not change and stays finite.
FiniteInv == IndInv /\ IsFiniteSet(DOMAIN nodes)

\* No step changes the nodes.
LEMMA NodesStay == ASSUME [Next]_vars PROVE nodes' = nodes
<1>1. CASE Exec
  BY <1>1, ExecWritesDot
<1>2. CASE Follow
  BY <1>2 DEF Follow, TakeJump, Continue, BreakLoop, FallThrough, program
<1>3. CASE ReachEnd \/ StackOverflow
  BY <1>3 DEF ReachEnd, StackOverflow, Return, Throw, program
<1>4. CASE UNCHANGED vars
  BY <1>4 DEF vars, program
<1> QED BY <1>1, <1>2, <1>3, <1>4 DEF Next

\* Finiteness is part of the invariant.
LEMMA FiniteHolds == Spec => []FiniteInv
<1>1. Init => FiniteInv
  <2> SUFFICES ASSUME Init PROVE FiniteInv
    OBVIOUS
  <2>1. PICK code \in Programs : nodes = expand(code)
    BY DEF Init, InitWith
  <2>2. IsFiniteSet(DOMAIN nodes)
    BY <2>1, ExpandFinite
  <2> QED BY <2>2, InitInv DEF FiniteInv
<1>2. FiniteInv /\ [Next]_vars => FiniteInv'
  <2> SUFFICES ASSUME FiniteInv, [Next]_vars PROVE FiniteInv'
    OBVIOUS
  <2>1. IndInv'
    BY StepInv DEF FiniteInv
  <2>2. (DOMAIN nodes)' = DOMAIN nodes
    BY NodesStay
  <2> QED BY <2>1, <2>2 DEF FiniteInv
<1> QED BY <1>1, <1>2, PTL DEF Spec

\* The sets behind the budget are finite, and the current label is not ahead.
LEMMA BudgetTypes ==
    ASSUME TypeOK, IsFiniteSet(DOMAIN nodes)
    PROVE  /\ IsFiniteSet(JumpsLeft)
           /\ Ahead \in SUBSET DOMAIN nodes /\ Ahead # DOMAIN nodes
           /\ FrameLeft \in 0..2
<1> DEFINE L == DOMAIN nodes
           J == (L \X L) \X (1..LoopLimit)
<1>1. IsFiniteSet(1..LoopLimit)
  BY FS_Interval, ConstantsAssumption
<1>2. IsFiniteSet(J)
  <2> HIDE DEF L
  <2>1. IsFiniteSet(L)
    BY DEF L
  <2>2. IsFiniteSet(L \X L)
    BY <2>1, FS_Product
  <2> QED BY <1>1, <2>2, FS_Product
<1>3. JumpsLeft \in SUBSET J
  BY DEF JumpsLeft
<1>4. IsFiniteSet(JumpsLeft)
  <2> HIDE DEF J
  <2> QED BY <1>2, <1>3, FS_Subset
<1>5. label \notin Ahead
  <2>1. label.at \in Nat
    BY DEF TypeOK, NodesOK, Labels
  <2> QED BY <2>1 DEF Ahead
<1>6. Ahead \in SUBSET L /\ label \in L
  BY DEF Ahead, TypeOK
<1>7. FrameLeft \in 0..2
  BY DEF FrameLeft
<1> QED BY <1>4, <1>5, <1>6, <1>7

\* The jumps left stay finitely many.
LEMMA BudgetTypesNext ==
    ASSUME IsFiniteSet(DOMAIN nodes), nodes' = nodes
    PROVE  IsFiniteSet(JumpsLeft')
<1> DEFINE L == DOMAIN nodes
           J == (L \X L) \X (1..LoopLimit)
<1>1. IsFiniteSet(1..LoopLimit)
  BY FS_Interval, ConstantsAssumption
<1>2. IsFiniteSet(J)
  <2> HIDE DEF L
  <2>1. IsFiniteSet(L)
    BY DEF L
  <2>2. IsFiniteSet(L \X L)
    BY <2>1, FS_Product
  <2> QED BY <1>1, <2>2, FS_Product
<1>3. JumpsLeft' \in SUBSET J
  BY DEF JumpsLeft
<1> HIDE DEF J
<1> QED BY <1>2, <1>3, FS_Subset

\* An instruction moves on within its frame and counts nothing.
LEMMA ExecFrame ==
    ASSUME IndInv, Exec
    PROVE  /\ phase = "exec" /\ phase' # "exec"
           /\ UNCHANGED <<nodes, label, counts>>
<1>1. phase = "exec"
  BY DEF Exec, ExecBranch, BranchIgnored, BranchThrows, ExecMov, ExecCmp, ExecLdr, ExecLdrb, ExecNop,
         ExecPush, ExecPop, Executes
<1>2. UNCHANGED <<nodes, label, counts>>
  BY DEF Exec, ExecBranch, BranchIgnored, BranchThrows, ExecMov, ExecCmp, ExecLdr, ExecLdrb, ExecNop,
         ExecPush, ExecPop, Return, Throw, NoJump, program, graph
<1>3. ASSUME NEW t, NEW f, NEW map, decideToJump(t, f, map) PROVE phase' # "exec"
  BY <1>3 DEF decideToJump, Pop, gg
<1>4. ASSUME ExecBranch PROVE phase' # "exec"
  <2>1. PICK t \in Choices(pathCond), f \in Choices(pathCond), map \in SUBSET Labels :
          decideToJump(t, f, map)
    BY <1>4, BranchDecides
  <2> QED BY <1>3, <2>1
<1>5. ASSUME ExecPop PROVE phase' # "exec"
  <2>1. CASE Throw \/ NoJump
    BY <2>1 DEF Throw, NoJump
  <2> QED BY <1>3, <1>5, <2>1, PopDecides
<1>6. phase' # "exec"
  BY <1>4, <1>5 DEF Exec, BranchIgnored, BranchThrows, ExecMov, ExecCmp, ExecLdr, ExecLdrb, ExecNop,
         ExecPush, Return, Throw, NoJump
<1> QED BY <1>1, <1>2, <1>6

\* Counting a jump over a pair raises the count of that pair and of no other.
LEMMA CountAfter ==
    ASSUME NEW pair, counts' = Counted(pair), NEW p
    PROVE  CountOf(p)' = IF p = pair THEN CountOf(pair) + 1 ELSE CountOf(p)
BY DEF CountOf, Counted

\* Counts are natural numbers.
LEMMA CountIsNat == ASSUME TypeOK, NEW p PROVE CountOf(p) \in Nat
BY DEF TypeOK, CountOf

\* A jump that is taken was one of the jumps left, and is not any more.
LEMMA JumpCounted ==
    ASSUME TypeOK, TypeOK', nodes' = nodes, TakeJump
    PROVE  JumpsLeft' \in SUBSET JumpsLeft /\ JumpsLeft' # JumpsLeft
<1> DEFINE pair == <<label, jumpTo>>
           L == DOMAIN nodes
           J == (L \X L) \X (1..LoopLimit)
           n == CountOf(pair)
<1>1. n \in Nat /\ n + 1 <= LoopLimit /\ counts' = Counted(pair) /\ label \in L /\ jumpTo \in L
  BY CountIsNat DEF TakeJump, Exists, TypeOK
<1>2. LoopLimit \in Nat
  BY ConstantsAssumption
<1>3. JumpsLeft = {j \in J : j[2] > CountOf(j[1])}
  BY DEF JumpsLeft
<1>4. JumpsLeft' = {j \in J : j[2] > CountOf(j[1])'}
  BY DEF JumpsLeft
<1>5. \A p : /\ CountOf(p) \in Nat
             /\ CountOf(p)' = IF p = pair THEN n + 1 ELSE CountOf(p)
  BY <1>1, CountAfter, CountIsNat
<1>6. PICK token : token = <<pair, n + 1>>
  OBVIOUS
<1>7. token \in J /\ token[1] = pair /\ token[2] = n + 1
  BY <1>1, <1>2, <1>6
<1>8. \A j \in J : j[2] \in Nat
  OBVIOUS
<1>9. CountOf(pair) = n
  OBVIOUS
<1> HIDE DEF pair, L, J, n
<1>10. CountOf(token[1]) = n /\ CountOf(token[1])' = n + 1
  BY <1>5, <1>7, <1>9
<1>11. token \in JumpsLeft /\ token \notin JumpsLeft'
  BY <1>1, <1>3, <1>4, <1>7, <1>10
<1>12. JumpsLeft' \in SUBSET JumpsLeft
  <2>1. ASSUME NEW j \in J, j[2] > CountOf(j[1])' PROVE j[2] > CountOf(j[1])
    BY <1>1, <1>5, <1>8, <1>9, <2>1
  <2> QED BY <1>3, <1>4, <2>1
<1> QED BY <1>11, <1>12

\* A jump that is refused, and the absence of one, take none of the jumps left.
LEMMA RefusedKeeps ==
    ASSUME TypeOK, nodes' = nodes, Continue \/ BreakLoop
    PROVE  JumpsLeft' = JumpsLeft
<1> DEFINE pair == <<label, jumpTo>>
           L == DOMAIN nodes
           J == (L \X L) \X (1..LoopLimit)
           n == CountOf(pair)
<1>1. CASE Continue
  BY <1>1 DEF Continue, JumpsLeft, CountOf
<1>2. CASE BreakLoop
  <2>1. n \in Nat /\ n + 1 > LoopLimit /\ counts' = Counted(pair) /\ LoopLimit \in Nat
    BY <1>2, CountIsNat, ConstantsAssumption DEF BreakLoop
  <2>2. JumpsLeft = {j \in J : j[2] > CountOf(j[1])}
    BY DEF JumpsLeft
  <2>3. JumpsLeft' = {j \in J : j[2] > CountOf(j[1])'}
    BY DEF JumpsLeft
  <2>4. \A p : CountOf(p)' = IF p = pair THEN n + 1 ELSE CountOf(p)
    BY <2>1, CountAfter
  <2>5. \A j \in J : j[2] \in Nat /\ j[2] <= LoopLimit
    BY <2>1
  <2> HIDE DEF pair, L, J, n
  <2>6. ASSUME NEW j \in J PROVE j[2] > CountOf(j[1])' <=> j[2] > CountOf(j[1])
    <3>1. CASE j[1] = pair
      BY <2>1, <2>4, <2>5, <3>1 DEF n
    <3>2. CASE j[1] # pair
      BY <2>4, <3>2
    <3> QED BY <3>1, <3>2
  <2> QED BY <2>2, <2>3, <2>6
<1> QED BY <1>1, <1>2

\* The label that nextInst names is ahead, and nothing ahead of it was not.
LEMMA NextIsAhead ==
    ASSUME TypeOK, nodes' = nodes, HasNext(label), nextInst(label) \in DOMAIN nodes,
           label' = nextInst(label)
    PROVE  Ahead' \in SUBSET Ahead /\ Ahead' # Ahead
<1>1. label \in Labels /\ nextInst(label) \in Labels /\ DOMAIN nodes \subseteq Labels
  BY DEF TypeOK, NodesOK
<1>2. \A l \in Labels : l.at \in Nat
  BY DEF Labels
<1>3. label' \in Ahead /\ label' \notin Ahead'
  <2>1. \/ label.suffix = "-2" /\ label'.at = label.at /\ label'.suffix = "+2"
        \/ label.suffix # "-2" /\ label'.at = label.at + 4
    BY DEF nextInst, Plus2, Plain, InstructionSize
  <2> QED BY <1>1, <1>2, <2>1 DEF Ahead
<1>4. ASSUME NEW l \in DOMAIN nodes, l \in Ahead' PROVE l \in Ahead
  <2>1. \/ label.suffix = "-2" /\ label'.at = label.at /\ label'.suffix = "+2"
        \/ label.suffix # "-2" /\ label'.at = label.at + 4
    BY DEF nextInst, Plus2, Plain, InstructionSize
  <2>2. \/ l.at > label'.at
        \/ l.at = label'.at /\ l.suffix = "+2" /\ label'.suffix = "-2"
    BY <1>4 DEF Ahead
  <2>3. label'.suffix # "-2"
    BY DEF nextInst, Plus2, Plain
  <2>4. l.at > label.at
    BY <1>1, <1>2, <2>1, <2>2, <2>3
  <2> QED BY <2>4 DEF Ahead
<1>5. Ahead' \in SUBSET DOMAIN nodes
  BY DEF Ahead
<1> QED BY <1>3, <1>4, <1>5

\* Every step of execFrom uses up some of the budget that its program and
\* loopLimitation set, whatever the solver answers, and the budget never falls below 0.
THEOREM SearchProgresses == Spec => Progresses
<1>1. ASSUME FiniteInv, Next PROVE StepsLeft' < StepsLeft /\ StepsLeft' \in Nat
  <2> DEFINE L == DOMAIN nodes
  <2>1. TypeOK /\ IndInv /\ IsFiniteSet(L)
    BY <1>1 DEF FiniteInv, IndInv
  <2>2. TypeOK' /\ nodes' = nodes /\ L' = L
    BY <1>1, <2>1, StepInv, NodesStay DEF IndInv
  <2>3. /\ IsFiniteSet(JumpsLeft)
        /\ Ahead \in SUBSET L /\ Ahead # L
        /\ FrameLeft \in 0..2
    BY <2>1, BudgetTypes
  <2>4. Ahead' \in SUBSET L /\ Ahead' # L /\ FrameLeft' \in 0..2
    <3>1. label' \in L /\ label'.at \in Nat /\ L' = L
      BY <2>2 DEF TypeOK, NodesOK, Labels
    <3>2. label' \notin Ahead'
      BY <3>1 DEF Ahead
    <3>3. Ahead' \in SUBSET L
      BY <2>2 DEF Ahead
    <3>4. FrameLeft' \in 0..2
      BY DEF FrameLeft
    <3> QED BY <3>1, <3>2, <3>3, <3>4
  <2>5. /\ StepsLeft = Budget(JumpsLeft, L, Ahead, FrameLeft)
        /\ StepsLeft' = Budget(JumpsLeft', L, Ahead', FrameLeft')
    BY <2>2 DEF StepsLeft
  <2> HIDE DEF L
  <2> SUFFICES StepsLeft' < StepsLeft
    <3>1. IsFiniteSet(JumpsLeft')
      BY <2>1, <2>2, BudgetTypesNext DEF L
    <3>2. FrameLeft' \in Nat
      BY <2>4
    <3>3. Budget(JumpsLeft', L, Ahead', FrameLeft') \in Nat
      BY <2>1, <2>4, <3>1, <3>2, BudgetIsNat
    <3> QED BY <2>5, <3>3
  <2>6. ASSUME UNCHANGED <<nodes, label>>, JumpsLeft' = JumpsLeft, FrameLeft' < FrameLeft
        PROVE  StepsLeft' < StepsLeft
    <3>1. Ahead' = Ahead
      BY <2>6 DEF Ahead
    <3>2. FrameLeft \in Nat /\ FrameLeft' \in Nat
      BY <2>3, <2>4
    <3> HIDE DEF L
    <3>3. Budget(JumpsLeft, L, Ahead, FrameLeft') < Budget(JumpsLeft, L, Ahead, FrameLeft)
      BY <2>1, <2>3, <2>6, <3>2, FrameSpends
    <3> QED BY <2>5, <2>6, <3>1, <3>3
  <2>7. CASE Exec
    <3>1. phase = "exec" /\ phase' # "exec" /\ UNCHANGED <<nodes, label, counts>>
      BY <2>1, <2>7, ExecFrame
    <3>2. JumpsLeft' = JumpsLeft
      BY <3>1 DEF JumpsLeft, CountOf
    <3>3. FrameLeft' < FrameLeft
      BY <3>1 DEF FrameLeft
    <3> QED BY <2>6, <3>1, <3>2, <3>3
  <2>8. CASE ReachEnd \/ StackOverflow
    <3>1. phase = "exec" /\ phase' = "returned" /\ UNCHANGED <<nodes, label, counts>>
      BY <2>8 DEF ReachEnd, StackOverflow, Return, Throw, program, graph
    <3>2. JumpsLeft' = JumpsLeft
      BY <3>1 DEF JumpsLeft, CountOf
    <3>3. FrameLeft' < FrameLeft
      BY <3>1 DEF FrameLeft
    <3> QED BY <2>6, <3>1, <3>2, <3>3
  <2>9. CASE TakeJump
    <3>1. JumpsLeft' \in SUBSET JumpsLeft /\ JumpsLeft' # JumpsLeft
      BY <2>1, <2>2, <2>9, JumpCounted
    <3>2. Budget(JumpsLeft', L, Ahead', FrameLeft') < Budget(JumpsLeft, L, Ahead, FrameLeft)
      <4>1. FrameLeft \in Nat
        BY <2>3
      <4> QED BY <2>1, <2>3, <2>4, <3>1, <4>1, JumpSpends
    <3> QED BY <2>5, <3>2
  <2>10. CASE Continue \/ BreakLoop
    <3>1. JumpsLeft' = JumpsLeft /\ FallThrough /\ phase = "follow"
      BY <2>1, <2>2, <2>10, RefusedKeeps DEF Continue, BreakLoop
    <3>2. CASE HasNext(label) /\ nextInst(label) \in DOMAIN nodes
      <4>1. label' = nextInst(label)
        BY <3>1, <3>2 DEF FallThrough, Enter
      <4>2. Ahead' \in SUBSET Ahead /\ Ahead' # Ahead
        BY <2>1, <2>2, <3>2, <4>1, NextIsAhead
      <4>3. FrameLeft \in Nat
        BY <2>3
      <4>4. Budget(JumpsLeft, L, Ahead', FrameLeft') < Budget(JumpsLeft, L, Ahead, FrameLeft)
        BY <2>1, <2>3, <2>4, <4>2, <4>3, MoveSpends
      <4> QED BY <2>5, <3>1, <4>4
    <3>3. CASE ~(HasNext(label) /\ nextInst(label) \in DOMAIN nodes)
      <4>1. phase' = "returned" /\ UNCHANGED <<nodes, label>>
        BY <3>1, <3>3 DEF FallThrough, program
      <4>2. FrameLeft' < FrameLeft
        BY <3>1, <4>1 DEF FrameLeft
      <4> QED BY <2>6, <3>1, <4>1, <4>2
    <3> QED BY <3>2, <3>3
  <2> QED BY <1>1, <2>7, <2>8, <2>9, <2>10 DEF Next, Follow
<1>2. FiniteInv /\ [Next]_vars => [StepsLeft' \in Nat /\ StepsLeft' < StepsLeft]_vars
  BY <1>1
<1> QED BY <1>2, FiniteHolds, PTL DEF Spec, Progresses

=============================================================================
