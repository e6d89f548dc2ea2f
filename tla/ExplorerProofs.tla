---------------------------- MODULE ExplorerProofs ----------------------------
(***************************************************************************)
(* Safety of the exploration for every program, every set of inputs, every *)
(* variation and every loop limit.                                         *)
(***************************************************************************)
EXTENDS Explorer, SequenceTheorems, TLAPS

-----------------------------------------------------------------------------
(***************************************************************************)
(* The program                                                             *)
(***************************************************************************)
\* The three kinds of labels are labels.
LEMMA LabelTypes ==
    \A a \in Nat : Plain(a) \in Labels /\ Minus2(a) \in Labels /\ Plus2(a) \in Labels
BY DEF Plain, Minus2, Plus2, Labels, Suffixes

\* The name of a register is a label, and that of no instruction.
LEMMA NameIsNoPlace ==
    /\ Unevaluated \in Labels /\ Unevaluated # NoLabel
    /\ \A a : Plain(a) # Unevaluated /\ Minus2(a) # Unevaluated /\ Plus2(a) # Unevaluated
<1>1. Unevaluated \in Labels
  BY DEF Unevaluated, Labels, Suffixes
<1>2. Unevaluated.suffix = "name" /\ NoLabel.suffix = "null"
  BY DEF Unevaluated, NoLabel
<1>3. \A a : Plain(a).suffix = "" /\ Minus2(a).suffix = "-2" /\ Plus2(a).suffix = "+2"
  BY DEF Plain, Minus2, Plus2
<1>4. "name" # "null" /\ "name" # "" /\ "name" # "-2" /\ "name" # "+2"
  OBVIOUS
<1> QED BY <1>1, <1>2, <1>3, <1>4

\* A direct branch invented by expand is a well-formed instruction.
LEMMA BranchTypes ==
    ASSUME NEW cond \in Conds, NEW target \in Labels \ {Unevaluated}
    PROVE  /\ Branch(cond, target) \in Instructions
           /\ WellFormed(Branch(cond, target))
           /\ Branch(cond, target).cond = cond
<1>1. << >> \in Seq(Regs \cup {"pc"})
  BY EmptySeq
<1>2. target # NoLabel
  <2>1. target.suffix \in Suffixes
    BY DEF Labels
  <2>2. NoLabel.suffix = "null" /\ "null" \notin Suffixes
    BY DEF NoLabel, Suffixes
  <2> QED BY <2>1, <2>2
<1>3. Branch(cond, target) \in Instructions
  <2>1. "b" \in Ops /\ 0 \in Nat
    BY DEF Ops, BranchOps
  <2> QED BY <1>1, <2>1 DEF Branch, Instructions
<1> QED BY <1>2, <1>3 DEF Branch, WellFormed

\* expand turns well-formed code into well-formed nodes, and gives a suffix to
\* no conditional branch (BinParser.expand).
LEMMA ExpandOK ==
    ASSUME NEW code \in Programs, nodes = expand(code)
    PROVE  NodesOK /\ firstLabel(code) \in DOMAIN nodes
<1> DEFINE Dom == {Plain(a) : a \in DOMAIN code}
                    \cup {Minus2(a) : a \in GuardedAt(code)}
                    \cup {Plus2(a) : a \in GuardedAt(code)}
<1>1. /\ 0 \in DOMAIN code /\ DOMAIN code \subseteq Nat
      /\ \A a \in DOMAIN code : code[a] \in Instructions /\ WellFormed(code[a])
  BY ProgramsAssumption
<1>2. DOMAIN nodes = Dom
  BY DEF expand
<1>3. GuardedAt(code) \subseteq DOMAIN code
  BY DEF GuardedAt
<1>4. Dom \subseteq Labels \ {Unevaluated}
  BY <1>1, <1>3, LabelTypes, NameIsNoPlace
<1>5. ASSUME NEW l \in Dom
      PROVE  /\ nodes[l] \in Instructions /\ WellFormed(nodes[l])
             /\ nodes[l].op \in BranchOps /\ nodes[l].cond # "" => l.suffix = ""
  <2>1. l.at \in DOMAIN code /\ (l.suffix # "" => l.at \in GuardedAt(code))
    <3>1. CASE l \in {Plain(a) : a \in DOMAIN code}
      <4>1. PICK a \in DOMAIN code : l = Plain(a)
        BY <3>1
      <4> QED BY <4>1 DEF Plain
    <3>2. CASE l \in {Minus2(a) : a \in GuardedAt(code)}
      <4>1. PICK a \in GuardedAt(code) : l = Minus2(a)
        BY <3>2
      <4> QED BY <1>3, <4>1 DEF Minus2
    <3>3. CASE l \in {Plus2(a) : a \in GuardedAt(code)}
      <4>1. PICK a \in GuardedAt(code) : l = Plus2(a)
        BY <3>3
      <4> QED BY <1>3, <4>1 DEF Plus2
    <3> QED BY <3>1, <3>2, <3>3
  <2>2. code[l.at] \in Instructions /\ WellFormed(code[l.at]) /\ l.at \in Nat
    BY <1>1, <2>1
  <2>3. CASE l.suffix = "-2"
    <3>1. nodes[l] = Unconditional(code[l.at])
      BY <1>2, <2>3 DEF expand
    <3>2. code[l.at].op \notin BranchOps
      BY <2>1, <2>3 DEF GuardedAt, Guarded
    <3>3. /\ nodes[l] \in Instructions
          /\ nodes[l].op = code[l.at].op /\ nodes[l].regs = code[l.at].regs
          /\ nodes[l].target = code[l.at].target
      BY <2>2, <3>1 DEF Unconditional, Instructions, Conds
    <3> QED BY <2>2, <3>2, <3>3 DEF WellFormed
  <2>4. CASE l.suffix = "+2"
    <3>1. nodes[l] = Branch("", Plain(l.at + InstructionSize))
      BY <1>2, <2>4 DEF expand
    <3>2. "" \in Conds /\ Plain(l.at + InstructionSize) \in Labels \ {Unevaluated}
      BY <2>2, LabelTypes, NameIsNoPlace DEF Conds, InstructionSize
    <3> QED BY <3>1, <3>2, BranchTypes
  <2>5. CASE l.suffix = ""
    <3>1. nodes[l] = IF Guarded(code[l.at])
                       THEN Branch(code[l.at].cond, Minus2(l.at)) ELSE code[l.at]
      BY <1>2, <2>5 DEF expand
    <3>2. code[l.at].cond \in Conds
      BY <2>2 DEF Instructions
    <3>3. Minus2(l.at) \in Labels \ {Unevaluated}
      BY <2>2, LabelTypes, NameIsNoPlace
    <3> QED BY <2>2, <2>5, <3>1, <3>2, <3>3, BranchTypes
  <2>6. l.suffix \in {"", "-2", "+2"}
    <3>1. CASE \E a \in DOMAIN code : l = Plain(a)
      <4>1. PICK a \in DOMAIN code : l = Plain(a)
        BY <3>1
      <4>2. Plain(a).suffix = ""
        BY DEF Plain
      <4> QED BY <4>1, <4>2, Zenon
    <3>2. CASE \E a \in GuardedAt(code) : l = Minus2(a)
      BY <3>2 DEF Minus2
    <3>3. CASE \E a \in GuardedAt(code) : l = Plus2(a)
      BY <3>3 DEF Plus2
    <3> QED BY <3>1, <3>2, <3>3
  <2> QED BY <2>3, <2>4, <2>5, <2>6
<1>6. firstLabel(code) \in Dom
  BY <1>1 DEF firstLabel, GuardedAt
<1> QED BY <1>2, <1>4, <1>5, <1>6 DEF NodesOK

-----------------------------------------------------------------------------
(***************************************************************************)
(* envStack                                                                *)
(***************************************************************************)
\* What is popped from a stack whose last push was e.
LEMMA PopAppend ==
    ASSUME NEW S, NEW s \in Seq(S), NEW e \in S
    PROVE  /\ Append(s, e) # << >>
           /\ Top(Append(s, e)) = e
           /\ Below(Append(s, e)) = s
<1>1. /\ Append(s, e) \in Seq(S) /\ Append(s, e) # << >>
      /\ Len(Append(s, e)) = Len(s) + 1
      /\ \A i \in 1..Len(s) : Append(s, e)[i] = s[i]
      /\ Append(s, e)[Len(s) + 1] = e
  BY AppendProperties
<1>2. Len(s) \in Nat
  BY LenProperties
<1>3. /\ Below(Append(s, e)) \in Seq(S)
      /\ Len(Below(Append(s, e))) = Len(s)
      /\ \A i \in 1..Len(s) : Below(Append(s, e))[i] = s[i]
  <2>1. \A i \in 1..Len(s) : Append(s, e)[i] \in S
    BY <1>1, ElementOfSeq
  <2>2. Below(Append(s, e)) = SubSeq(Append(s, e), 1, Len(s))
    BY <1>1, <1>2 DEF Below
  <2>3. /\ SubSeq(Append(s, e), 1, Len(s)) \in Seq(S)
        /\ Len(SubSeq(Append(s, e), 1, Len(s))) = IF 1 <= Len(s) THEN Len(s) - 1 + 1 ELSE 0
        /\ \A i \in 1..(Len(s) - 1 + 1) :
              SubSeq(Append(s, e), 1, Len(s))[i] = Append(s, e)[1 + i - 1]
    BY <1>2, <2>1, SubSeqProperties
  <2> QED BY <1>1, <1>2, <2>2, <2>3
<1>4. Below(Append(s, e)) = s
  BY <1>3, SeqEqual
<1> QED BY <1>1, <1>4 DEF Top

\* What is left below the top of a non-empty stack.
LEMMA BelowProperties ==
    ASSUME NEW S, NEW s \in Seq(S), s # << >>
    PROVE  /\ Len(s) \in Nat \ {0}
           /\ Top(s) \in S
           /\ Below(s) \in Seq(S)
           /\ Len(Below(s)) = Len(s) - 1
           /\ \A i \in 1..(Len(s) - 1) : Below(s)[i] = s[i]
<1>1. Len(s) \in Nat \ {0}
  BY EmptySeq
<1>2. \A i \in 1..Len(s) : s[i] \in S
  BY ElementOfSeq
<1> DEFINE n == Len(s) - 1
<1>3. n \in Nat /\ n = Len(s) - 1
  BY <1>1
<1>4. \A i \in 1..n : s[i] \in S
  BY <1>1, <1>2
<1> HIDE DEF n
<1>5. /\ SubSeq(s, 1, n) \in Seq(S)
      /\ Len(SubSeq(s, 1, n)) = IF 1 <= n THEN n - 1 + 1 ELSE 0
      /\ \A i \in 1..(n - 1 + 1) : SubSeq(s, 1, n)[i] = s[1 + i - 1]
  BY <1>3, <1>4, SubSeqProperties
<1>6. /\ SubSeq(s, 1, n) \in Seq(S)
      /\ Len(SubSeq(s, 1, n)) = n
      /\ \A i \in 1..n : SubSeq(s, 1, n)[i] = s[i]
  BY <1>3, <1>5
<1> QED BY <1>1, <1>2, <1>3, <1>6 DEF Top, Below

\* The entry e of envStack becomes recentPop and leaves `rest' pending.
Resumes(e, rest) ==
    /\ jumpTo' = e.label
    /\ pathCond' = e.pathCondition
    /\ known' = e.known
    /\ envStack' = rest

Entry(model, map) ==
    [label |-> model.label, pathCondition |-> model.pathCondition, known |-> map]

\* What decideToJump does, case by case: exit, follow the true model and keep the
\* false one, follow the only one pushed, or roll back.
LEMMA DecideCases ==
    ASSUME envStack \in Seq(Models), RollbackSafe,
           NEW map \in SUBSET Labels,
           NEW t, t.pathCondition \in SUBSET Inputs,
           NEW f, f.pathCondition \in SUBSET Inputs,
           decideToJump(t, f, map)
    PROVE  \/ /\ t.label \notin map /\ f.label \notin map /\ envStack = << >>
              /\ phase' = "exited" /\ UNCHANGED <<jumpTo, search>>
           \/ /\ t.label \in map /\ f.label \in map
              /\ phase' = "follow" /\ Resumes(Entry(t, map), Append(envStack, Entry(f, map)))
           \/ /\ t.label \in map /\ f.label \notin map
              /\ phase' = "follow" /\ Resumes(Entry(t, map), envStack)
           \/ /\ t.label \notin map /\ f.label \in map
              /\ phase' = "follow" /\ Resumes(Entry(f, map), envStack)
           \/ /\ t.label \notin map /\ f.label \notin map /\ envStack # << >>
              /\ phase' = "follow" /\ Resumes(Top(envStack), Below(envStack))
<1> DEFINE stack == envStack \o Pushed(f, map) \o Pushed(t, map)
<1>1. Pop(stack, t, f)
  BY DEF decideToJump
<1>2. ASSUME t.label \in map PROVE Entry(t, map) \in Models
  BY <1>2 DEF Entry, Models
<1>3. ASSUME f.label \in map PROVE Entry(f, map) \in Models
  BY <1>3 DEF Entry, Models
<1>4. /\ t.label \in map => Pushed(t, map) = <<Entry(t, map)>>
      /\ t.label \notin map => Pushed(t, map) = << >>
      /\ f.label \in map => Pushed(f, map) = <<Entry(f, map)>>
      /\ f.label \notin map => Pushed(f, map) = << >>
  BY DEF Pushed, Entry
<1>5. CASE t.label \in map /\ f.label \in map
  <2> DEFINE s == Append(envStack, Entry(f, map))
  <2>1. s \in Seq(Models) /\ s = envStack \o <<Entry(f, map)>>
    BY <1>3, <1>5, AppendProperties, AppendIsConcat
  <2>2. stack = Append(s, Entry(t, map))
    <3>1. Append(s, Entry(t, map)) = s \o <<Entry(t, map)>>
      BY <1>2, <1>5, <2>1, AppendIsConcat
    <3> QED BY <1>4, <1>5, <2>1, <3>1
  <2>3. stack # << >> /\ Top(stack) = Entry(t, map) /\ Below(stack) = s
    <3>1. s \in Seq(Models) /\ Entry(t, map) \in Models
      BY <1>2, <1>5, <2>1
    <3> HIDE DEF s, stack
    <3> QED BY <2>2, <3>1, PopAppend
  <2> QED BY <1>1, <1>5, <2>3 DEF Pop, Resumes, Entry
<1>6. CASE t.label \in map /\ f.label \notin map
  <2>1. stack = Append(envStack, Entry(t, map))
    <3>1. envStack \o << >> = envStack
      BY ConcatEmptySeq
    <3>2. Append(envStack, Entry(t, map)) = envStack \o <<Entry(t, map)>>
      BY <1>2, <1>6, AppendIsConcat
    <3> QED BY <1>4, <1>6, <3>1, <3>2
  <2>2. stack # << >> /\ Top(stack) = Entry(t, map) /\ Below(stack) = envStack
    BY <1>2, <1>6, <2>1, PopAppend
  <2> QED BY <1>1, <1>6, <2>2 DEF Pop, Resumes, Entry
<1>7. CASE t.label \notin map /\ f.label \in map
  <2>1. stack = Append(envStack, Entry(f, map))
    <3>1. /\ Append(envStack, Entry(f, map)) \in Seq(Models)
          /\ Append(envStack, Entry(f, map)) = envStack \o <<Entry(f, map)>>
      BY <1>3, <1>7, AppendProperties, AppendIsConcat
    <3>2. Append(envStack, Entry(f, map)) \o << >> = Append(envStack, Entry(f, map))
      BY <3>1, ConcatEmptySeq
    <3> QED BY <1>4, <1>7, <3>1, <3>2
  <2>2. stack # << >> /\ Top(stack) = Entry(f, map) /\ Below(stack) = envStack
    BY <1>3, <1>7, <2>1, PopAppend
  <2> QED BY <1>1, <1>7, <2>2 DEF Pop, Resumes, Entry
<1>8. CASE t.label \notin map /\ f.label \notin map
  <2>1. stack = envStack
    <3>1. envStack \o << >> = envStack
      BY ConcatEmptySeq
    <3> QED BY <1>4, <1>8, <3>1
  <2>2. CASE envStack = << >>
    BY <1>1, <1>8, <2>1, <2>2 DEF Pop, gg
  <2>3. CASE envStack # << >>
    <3>1. Len(envStack) \in Nat \ {0}
      BY <2>3, BelowProperties
    <3>2. Len(envStack) \in DOMAIN envStack
      BY <3>1, LenProperties
    <3>3. /\ HasPrev(Top(envStack).label)
          /\ prevAddress(Top(envStack).label) >= 0
      BY <3>2 DEF RollbackSafe, Top
    <3>4. ~(prevAddress(Top(envStack).label) < 0)
      <4>1. Top(envStack) \in Models
        BY <2>3, BelowProperties
      <4>2. prevAddress(Top(envStack).label) \in Int
        BY <4>1 DEF Models, Labels, prevAddress, InstructionSize
      <4> QED BY <3>3, <4>2
    <3> QED BY <1>1, <1>8, <2>1, <2>3, <3>3, <3>4 DEF Pop, Resumes
  <2> QED BY <2>2, <2>3
<1> QED BY <1>5, <1>6, <1>7, <1>8

\* pcJump is decideToJump without a false model.
LEMMA PcJumpDecides ==
    ASSUME envStack \in Seq(Models), NEW map \in SUBSET Labels, NEW t,
           pcJump(t, map)
    PROVE  decideToJump(t, NoModel, map)
<1>1. NoLabel \notin Labels
  <2>1. NoLabel.suffix = "null" /\ "null" \notin Suffixes
    BY DEF NoLabel, Suffixes
  <2> QED BY <2>1 DEF Labels
<1>2. Pushed(NoModel, map) = << >>
  BY <1>1 DEF Pushed, NoModel
<1>3. envStack \o << >> = envStack
  BY ConcatEmptySeq
<1> QED BY <1>2, <1>3 DEF pcJump, decideToJump

\* The part of TypeOK about the search.
SearchOK ==
    /\ envStack \in Seq(Models)
    /\ pathCond \in SUBSET Inputs
    /\ known \in SUBSET Labels
    /\ jumpTo \in Labels \cup {NoLabel}

\* decideToJump keeps envStack well typed, feasible and safe to roll back to,
\* provided the models it is given are feasible and the false one continues at a
\* plain address.
LEMMA DecideKeeps ==
    ASSUME SearchOK, PendingFeasible, RollbackSafe,
           NEW map \in SUBSET Labels,
           NEW t, t.pathCondition \in SUBSET Inputs,
           NEW f, f.pathCondition \in SUBSET Inputs,
           t.label \in map => t.pathCondition # {},
           f.label \in map => /\ f.pathCondition # {} /\ HasPrev(f.label)
                              /\ prevAddress(f.label) >= 0,
           decideToJump(t, f, map)
    PROVE  /\ SearchOK' /\ PendingFeasible' /\ RollbackSafe'
           /\ ExitExhausted' /\ phase' \in {"follow", "exited"}
<1>1. envStack \in Seq(Models) /\ Len(envStack) \in Nat
      /\ DOMAIN envStack = 1..Len(envStack)
  BY LenProperties DEF SearchOK
<1>2. /\ t.label \in map => Entry(t, map) \in Models
      /\ f.label \in map => Entry(f, map) \in Models
  BY DEF Entry, Models
<1>3. ASSUME NEW e \in Models, e.pathCondition # {}, Resumes(e, envStack), phase' = "follow"
      PROVE  /\ SearchOK' /\ PendingFeasible' /\ RollbackSafe'
             /\ ExitExhausted' /\ phase' \in {"follow", "exited"}
  <2>1. SearchOK'
    BY <1>1, <1>3 DEF SearchOK, Resumes, Models
  <2> QED BY <1>3, <2>1 DEF Resumes, PendingFeasible, RollbackSafe, ExitExhausted
<1>4. CASE /\ t.label \notin map /\ f.label \notin map /\ envStack = << >>
           /\ phase' = "exited" /\ UNCHANGED <<jumpTo, search>>
  BY <1>4 DEF search, SearchOK, PendingFeasible, RollbackSafe, ExitExhausted
<1>5. CASE /\ t.label \in map /\ f.label \in map
           /\ phase' = "follow" /\ Resumes(Entry(t, map), Append(envStack, Entry(f, map)))
  <2> DEFINE s == Append(envStack, Entry(f, map))
  <2>1. /\ s \in Seq(Models) /\ Len(s) = Len(envStack) + 1
        /\ \A i \in 1..Len(envStack) : s[i] = envStack[i]
        /\ s[Len(envStack) + 1] = Entry(f, map)
    BY <1>1, <1>2, <1>5, AppendProperties
  <2>2. DOMAIN s = 1..(Len(envStack) + 1)
    BY <2>1, LenProperties
  <2>3. envStack' = s /\ pathCond' = t.pathCondition /\ known' = map /\ jumpTo' = t.label
    BY <1>5 DEF Resumes, Entry
  <2> HIDE DEF s
  <2>4. ASSUME NEW k \in DOMAIN s
        PROVE  /\ s[k].pathCondition # {}
               /\ HasPrev(s[k].label) /\ prevAddress(s[k].label) >= 0
    <3>1. k \in DOMAIN envStack \/ k = Len(envStack) + 1
      BY <1>1, <2>2
    <3>2. CASE k \in DOMAIN envStack
      BY <1>1, <2>1, <3>2 DEF PendingFeasible, RollbackSafe
    <3>3. CASE k = Len(envStack) + 1
      BY <1>5, <2>1, <3>3 DEF Entry
    <3> QED BY <3>1, <3>2, <3>3
  <2>5. SearchOK'
    BY <1>5, <2>1, <2>3 DEF SearchOK
  <2>6. PendingFeasible' /\ RollbackSafe'
    BY <1>5, <2>3, <2>4 DEF PendingFeasible, RollbackSafe
  <2> QED BY <1>5, <2>5, <2>6 DEF ExitExhausted
<1>6. CASE /\ t.label \in map /\ f.label \notin map
           /\ phase' = "follow" /\ Resumes(Entry(t, map), envStack)
  <2>1. Entry(t, map).pathCondition # {}
    BY <1>6 DEF Entry
  <2> QED BY <1>2, <1>3, <1>6, <2>1
<1>7. CASE /\ t.label \notin map /\ f.label \in map
           /\ phase' = "follow" /\ Resumes(Entry(f, map), envStack)
  <2>1. Entry(f, map).pathCondition # {}
    BY <1>7 DEF Entry
  <2> QED BY <1>2, <1>3, <1>7, <2>1
<1>8. CASE /\ t.label \notin map /\ f.label \notin map /\ envStack # << >>
           /\ phase' = "follow" /\ Resumes(Top(envStack), Below(envStack))
  <2>1. /\ Len(envStack) \in Nat \ {0} /\ Top(envStack) \in Models
        /\ Below(envStack) \in Seq(Models) /\ Len(Below(envStack)) = Len(envStack) - 1
        /\ \A i \in 1..(Len(envStack) - 1) : Below(envStack)[i] = envStack[i]
    BY <1>1, <1>8, BelowProperties
  <2>2. DOMAIN Below(envStack) = 1..(Len(envStack) - 1)
    BY <2>1, LenProperties
  <2>3. Top(envStack).pathCondition # {}
    BY <1>1, <2>1 DEF Top, PendingFeasible
  <2>4. /\ envStack' = Below(envStack)
        /\ \A k \in DOMAIN Below(envStack) : k \in DOMAIN envStack
                                               /\ Below(envStack)[k] = envStack[k]
    BY <1>1, <1>8, <2>1, <2>2 DEF Resumes
  <2>5. SearchOK'
    BY <1>8, <2>1 DEF Resumes, SearchOK, Models
  <2>6. PendingFeasible' /\ RollbackSafe'
    BY <1>8, <2>3, <2>4 DEF Resumes, PendingFeasible, RollbackSafe
  <2> QED BY <1>8, <2>5, <2>6 DEF ExitExhausted
<1> QED BY <1>1, <1>4, <1>5, <1>6, <1>7, <1>8, DecideCases

\* decideToJump keeps the pending path conditions disjoint, provided the two
\* models split the current one.
LEMMA DecideDisjoint ==
    ASSUME SearchOK, RollbackSafe, PendingDisjoint,
           NEW map \in SUBSET Labels,
           NEW t, t.pathCondition \in SUBSET pathCond,
           NEW f, f.pathCondition \in SUBSET pathCond,
           t.pathCondition \cap f.pathCondition = {},
           decideToJump(t, f, map)
    PROVE  PendingDisjoint'
<1>1. envStack \in Seq(Models) /\ Len(envStack) \in Nat
      /\ DOMAIN envStack = 1..Len(envStack)
      /\ t.pathCondition \in SUBSET Inputs /\ f.pathCondition \in SUBSET Inputs
  BY LenProperties DEF SearchOK
<1>2. ASSUME NEW e, e.pathCondition \in SUBSET pathCond, Resumes(e, envStack)
      PROVE  PendingDisjoint'
  BY <1>2 DEF Resumes, PendingDisjoint
<1>3. CASE UNCHANGED <<jumpTo, search>>
  BY <1>3 DEF search, PendingDisjoint
<1>4. CASE /\ t.label \in map /\ f.label \in map
           /\ Resumes(Entry(t, map), Append(envStack, Entry(f, map)))
  <2> DEFINE s == Append(envStack, Entry(f, map))
  <2>1. Entry(f, map) \in Models
    BY <1>1, <1>4 DEF Entry, Models
  <2>2. /\ s \in Seq(Models) /\ Len(s) = Len(envStack) + 1
        /\ \A i \in 1..Len(envStack) : s[i] = envStack[i]
        /\ s[Len(envStack) + 1] = Entry(f, map)
    BY <1>1, <2>1, AppendProperties
  <2>3. DOMAIN s = 1..(Len(envStack) + 1)
    BY <2>2, LenProperties
  <2>4. envStack' = s /\ pathCond' = t.pathCondition
    BY <1>4 DEF Resumes, Entry
  <2> HIDE DEF s
  <2>5. \A k \in DOMAIN s : \/ k \in DOMAIN envStack /\ s[k] = envStack[k]
                            \/ /\ k = Len(envStack) + 1
                               /\ s[k].pathCondition = f.pathCondition
    BY <1>1, <2>2, <2>3 DEF Entry
  <2>6. ASSUME NEW k \in DOMAIN s PROVE s[k].pathCondition \cap pathCond' = {}
    BY <2>4, <2>5 DEF PendingDisjoint
  <2>7. ASSUME NEW j \in DOMAIN s, NEW k \in DOMAIN s, j # k
        PROVE  s[j].pathCondition \cap s[k].pathCondition = {}
    <3>1. CASE j \in DOMAIN envStack /\ s[j] = envStack[j]
      BY <2>5, <2>7, <3>1 DEF PendingDisjoint
    <3>2. CASE k \in DOMAIN envStack /\ s[k] = envStack[k]
      BY <2>5, <2>7, <3>2 DEF PendingDisjoint
    <3> QED BY <2>5, <2>7, <3>1, <3>2
  <2> QED BY <2>4, <2>6, <2>7 DEF PendingDisjoint
<1>5. CASE envStack # << >> /\ Resumes(Top(envStack), Below(envStack))
  <2>1. /\ Len(envStack) \in Nat \ {0} /\ Len(Below(envStack)) = Len(envStack) - 1
        /\ Below(envStack) \in Seq(Models)
        /\ \A i \in 1..(Len(envStack) - 1) : Below(envStack)[i] = envStack[i]
    BY <1>1, <1>5, BelowProperties
  <2>2. DOMAIN Below(envStack) = 1..(Len(envStack) - 1)
    BY <2>1, LenProperties
  <2>3. /\ envStack' = Below(envStack)
        /\ pathCond' = envStack[Len(envStack)].pathCondition
        /\ Len(envStack) \in DOMAIN envStack
        /\ \A k \in DOMAIN Below(envStack) : /\ k \in DOMAIN envStack /\ k # Len(envStack)
                                             /\ Below(envStack)[k] = envStack[k]
    BY <1>1, <1>5, <2>1, <2>2 DEF Resumes, Top
  <2> QED BY <2>3 DEF PendingDisjoint
<1>6. Entry(t, map).pathCondition = t.pathCondition /\ Entry(f, map).pathCondition = f.pathCondition
  BY DEF Entry
<1> QED BY <1>1, <1>2, <1>3, <1>4, <1>5, <1>6, DecideCases

-----------------------------------------------------------------------------
(***************************************************************************)
(* The actions                                                             *)
(***************************************************************************)
\* The six copies of singleExec handle no branch opcode but these.
LEMMA VariantBranches == Variant.branches \subseteq BranchOps
BY ConstantsAssumption
   DEF Cores, Variant, SingleExecM0, SingleExecM0_PLUS, SingleExecM3, SingleExecM4,
       SingleExecM7, SingleExecM33, BranchOps

\* The null label is no label of a program.
LEMMA NoLabelIsNone == NoLabel \notin Labels
<1>1. NoLabel.suffix = "null" /\ "null" \notin Suffixes
  BY DEF NoLabel, Suffixes
<1> QED BY <1>1 DEF Labels

\* The literals that instructions write are values.
LEMMA LiteralType == ASSUME NEW n \in Nat PROVE Literal(n) \in Values
BY DEF Literal, Values

\* The label after an instruction is a label.
LEMMA NextType == ASSUME NEW l \in Labels PROVE nextInst(l) \in Labels
<1>1. l.at \in Nat /\ l.at + InstructionSize \in Nat
  BY DEF Labels, InstructionSize
<1> QED BY <1>1, LabelTypes DEF nextInst

\* The label after a plain one is safe to roll back to.
LEMMA NextOfPlain ==
    ASSUME NEW l \in Labels, HasPrev(l)
    PROVE  HasPrev(nextInst(l)) /\ prevAddress(nextInst(l)) >= 0
<1>1. l.at \in Nat
  BY DEF Labels
<1>2. nextInst(l) = Plain(l.at + InstructionSize)
  BY DEF HasPrev, nextInst
<1>3. \A a \in Nat : HasPrev(Plain(a)) /\ Plain(a).at = a
  BY DEF Plain, HasPrev
<1>4. l.at + InstructionSize \in Nat
  BY <1>1 DEF InstructionSize
<1>5. HasPrev(nextInst(l)) /\ nextInst(l).at = l.at + InstructionSize
  BY <1>2, <1>3, <1>4
<1> QED BY <1>1, <1>5 DEF InstructionSize, prevAddress

\* What bl leaves in lr is a value, so the registers stay well typed.
LEMMA LinkedType ==
    ASSUME TypeOK
    PROVE  Linked \in [Regs -> Values \cup {Null}]
<1>1. label \in Labels
  BY DEF TypeOK, NodesOK
<1>2. Link \in Nat
  BY <1>1, NextType DEF Link, Labels
<1> QED BY <1>2, LiteralType DEF TypeOK, Linked

\* A branch whose operand is not null goes to a label or nowhere.
LEMMA DestinationType ==
    ASSUME TypeOK, Instr.op \in Variant.branches, ~OperandIsNull, ~LrIsNull,
           NEW dest \in Destinations
    PROVE  dest \in Labels \cup {NoLabel}
<1>1. /\ Instr \in Instructions /\ WellFormed(Instr) /\ Instr.op \in BranchOps
      /\ Instr.target \in Labels \cup {NoLabel}
  BY VariantBranches DEF TypeOK, NodesOK, Instr, Instructions
<1>2. CASE ViaTarget
  BY <1>1, <1>2 DEF Destinations
<1>3. CASE ~ViaTarget /\ ViaModel
  <2>1. Operand \in Values
    <3>1. Instr.regs[1] \in Regs
      BY <1>1, <1>3 DEF ViaModel, Direct, WellFormed
    <3> QED BY <1>3, <3>1, LinkedType DEF Operand, OperandIsNull, ViaModel
  <2>2. CASE dest = Unevaluated
    BY <2>2, NameIsNoPlace
  <2>3. CASE dest # Unevaluated
    <3>1. PICK i \in PosCond(Instr.cond) : dest = Plain(Operand.sym[i])
      BY <1>3, <2>3 DEF Destinations
    <3>2. i \in Inputs
      BY <3>1 DEF PosCond, TypeOK
    <3>3. Operand.sym[i] \in Nat
      BY <2>1, <3>2 DEF Values
    <3> QED BY <3>1, <3>3, LabelTypes
  <2> QED BY <2>2, <2>3
<1>4. CASE ~ViaTarget /\ ~ViaModel
  <2>1. Linked["lr"] \in Values
    BY <1>4, LinkedType DEF LrIsNull, Regs
  <2>2. Concrete(Linked["lr"]) \in Nat
    BY <2>1, ConstantsAssumption DEF Concrete, Values
  <2>3. dest = DestinationOfLr
    BY <1>4 DEF Destinations
  <2> QED BY <2>2, <2>3, LabelTypes DEF DestinationOfLr
<1> QED BY <1>2, <1>3, <1>4

\* The two models of a branch: a true one that exists is feasible, a false one
\* that exists is feasible and continues at the plain address after the branch.
LEMMA BranchModels ==
    ASSUME TypeOK, PendingFeasible, Instr.op \in Variant.branches,
           NEW pos \in PosAnswers(Instr.cond, Declared),
           NEW neg \in NegAnswers(Instr.cond, Declared)
    PROVE  /\ PosCond(Instr.cond) \in SUBSET pathCond
           /\ NegCond(Instr.cond) \in SUBSET pathCond
           /\ PosCond(Instr.cond) \cap NegCond(Instr.cond) = {}
           /\ pos \in BOOLEAN /\ neg \in BOOLEAN
           /\ pos => PosCond(Instr.cond) # {}
           /\ neg => /\ NegCond(Instr.cond) # {}
                     /\ HasPrev(nextInst(label)) /\ prevAddress(nextInst(label)) >= 0
<1>1. /\ label \in Labels /\ Instr.op \in BranchOps
      /\ Instr.cond # "" => label.suffix = ""
  BY VariantBranches DEF TypeOK, NodesOK, Instr
<1>2. /\ pos \in BOOLEAN /\ neg \in BOOLEAN
      /\ pos => PosCond(Instr.cond) # {}
      /\ neg => NegCond(Instr.cond) # {} /\ Instr.cond # ""
  BY DEF PosAnswers, NegAnswers, checkSAT, PosCond, PendingFeasible
<1>3. /\ PosCond(Instr.cond) \in SUBSET pathCond
      /\ NegCond(Instr.cond) \in SUBSET pathCond
      /\ PosCond(Instr.cond) \cap NegCond(Instr.cond) = {}
  BY DEF PosCond, NegCond
<1>4. ASSUME neg
      PROVE  HasPrev(nextInst(label)) /\ prevAddress(nextInst(label)) >= 0
  BY <1>1, <1>2, <1>4, NextOfPlain DEF HasPrev
<1>5. neg => HasPrev(nextInst(label)) /\ prevAddress(nextInst(label)) >= 0
  BY <1>4
<1> QED BY <1>2, <1>3, <1>5

\* The inductive invariant.  Each part needs the others: a rollback is safe
\* because only conditional branches, whose labels are plain (TypeOK), push a
\* false model; it keeps the search feasible because what is pushed was
\* satisfiable; an exit finds nothing pending because a rollback is safe.
IndInv == TypeOK /\ PendingFeasible /\ RollbackSafe /\ ExitExhausted

\* A step that leaves the search alone and does not exit the process.
LEMMA SearchUnchanged ==
    ASSUME IndInv, UNCHANGED <<pathCond, envStack>>, phase' # "exited"
    PROVE  PendingFeasible' /\ RollbackSafe' /\ ExitExhausted'
BY DEF IndInv, PendingFeasible, RollbackSafe, ExitExhausted

\* A true or false model: a destination and a path condition within `within'.
Choices(within) == [label : Labels \cup {NoLabel}, pathCondition : SUBSET within]

\* Unless a branch is stuck, it has a destination or its false side is feasible.
LEMMA OneSide ==
    ASSUME TypeOK, PendingFeasible, Instr.op \in Variant.branches, ~Stuck,
           NEW pos \in PosAnswers(Instr.cond, Declared),
           NEW neg \in NegAnswers(Instr.cond, Declared),
           NEW dest \in IF pos THEN Destinations ELSE {NoLabel}
    PROVE  dest # NoLabel \/ neg
<1>1. Declared /\ ~SolverFails /\ (~ViaTarget /\ ~ViaModel => DestinationOfLr # NoLabel)
  BY DEF Stuck
<1>2. pos \/ neg
  <2>1. CASE Instr.cond = ""
    BY <2>1 DEF PosAnswers
  <2>2. CASE Instr.cond # ""
    <3>1. pathCond # {} /\ pathCond = PosCond(Instr.cond) \cup NegCond(Instr.cond)
      BY <2>2 DEF PendingFeasible, PosCond, NegCond
    <3> QED BY <1>1, <2>2, <3>1 DEF PosAnswers, NegAnswers, checkSAT
  <2> QED BY <2>1, <2>2
<1>3. ASSUME pos PROVE dest # NoLabel
  <2>1. dest \in Destinations
    BY <1>3
  <2>2. \A a : Plain(a) # NoLabel
    BY DEF Plain, NoLabel
  <2>3. ViaTarget => Instr.target # NoLabel
    BY DEF ViaTarget, Direct
  <2>4. Unevaluated # NoLabel
    BY NameIsNoPlace
  <2>5. CASE ViaTarget
    BY <2>1, <2>3, <2>5 DEF Destinations
  <2>6. CASE ~ViaTarget /\ ViaModel
    BY <2>1, <2>2, <2>4, <2>6 DEF Destinations
  <2>7. CASE ~ViaTarget /\ ~ViaModel
    BY <1>1, <2>1, <2>7 DEF Destinations
  <2> QED BY <2>5, <2>6, <2>7
<1>4. pos \in BOOLEAN /\ neg \in BOOLEAN
  BY BranchModels
<1> QED BY <1>2, <1>3, <1>4

\* What a branch hands to decideToJump: two models that split the current path
\* condition, each feasible if it is pushed.
LEMMA BranchDecides ==
    ASSUME IndInv, ExecBranch
    PROVE  \E t \in Choices(pathCond), f \in Choices(pathCond), map \in SUBSET Labels :
              /\ t.pathCondition \cap f.pathCondition = {}
              /\ t.label \in map => t.pathCondition # {}
              /\ f.label \in map => /\ f.pathCondition # {} /\ HasPrev(f.label)
                                    /\ prevAddress(f.label) >= 0
              /\ t.label \in map \/ f.label \in map \/ Stuck
              /\ decideToJump(t, f, map)
<1>1. TypeOK /\ PendingFeasible
  BY DEF IndInv
<1>2. Instr.op \in Variant.branches /\ ~OperandIsNull
  BY DEF ExecBranch
<1>3. PICK pos \in PosAnswers(Instr.cond, Declared),
           neg \in NegAnswers(Instr.cond, Declared) :
         /\ ~(pos /\ LrIsNull)
         /\ \E dest \in IF pos THEN Destinations ELSE {NoLabel} :
              LET next == IF neg THEN nextInst(label) ELSE NoLabel
              IN  decideToJump(
                    [label |-> dest, pathCondition |-> PosCond(Instr.cond)],
                    [label |-> next, pathCondition |-> NegCond(Instr.cond)],
                    Put({label, dest, next}))
  BY DEF ExecBranch
<1> DEFINE next == IF neg THEN nextInst(label) ELSE NoLabel
<1>4. PICK dest \in IF pos THEN Destinations ELSE {NoLabel} :
        decideToJump([label |-> dest, pathCondition |-> PosCond(Instr.cond)],
                     [label |-> next, pathCondition |-> NegCond(Instr.cond)],
                     Put({label, dest, next}))
  BY <1>3
<1> DEFINE t == [label |-> dest, pathCondition |-> PosCond(Instr.cond)]
           f == [label |-> next, pathCondition |-> NegCond(Instr.cond)]
           map == Put({label, dest, next})
<1>5. /\ PosCond(Instr.cond) \in SUBSET pathCond
      /\ NegCond(Instr.cond) \in SUBSET pathCond
      /\ PosCond(Instr.cond) \cap NegCond(Instr.cond) = {}
      /\ pos \in BOOLEAN /\ neg \in BOOLEAN
      /\ pos => PosCond(Instr.cond) # {}
      /\ neg => /\ NegCond(Instr.cond) # {}
                /\ HasPrev(nextInst(label)) /\ prevAddress(nextInst(label)) >= 0
  BY <1>1, <1>2, <1>3, BranchModels
<1>6. label \in Labels /\ known \in SUBSET Labels
  BY <1>1 DEF TypeOK, NodesOK
<1>7. dest \in Labels \cup {NoLabel} /\ (dest # NoLabel => pos)
  BY <1>1, <1>2, <1>3, <1>4, <1>5, DestinationType
<1>8. next \in Labels \cup {NoLabel} /\ (next # NoLabel => neg /\ next = nextInst(label))
  BY <1>5, <1>6, NextType
<1> HIDE DEF next
<1>9. map \in SUBSET Labels /\ NoLabel \notin map
  BY <1>6, <1>7, <1>8, NoLabelIsNone DEF Put
<1>10. /\ t.label = dest /\ t.pathCondition = PosCond(Instr.cond)
       /\ f.label = next /\ f.pathCondition = NegCond(Instr.cond)
  OBVIOUS
<1>11. t \in Choices(pathCond) /\ f \in Choices(pathCond)
  BY <1>5, <1>7, <1>8 DEF Choices
<1>12. decideToJump(t, f, map)
  BY <1>4
<1> HIDE DEF t, f, map
<1>13. /\ t.pathCondition \cap f.pathCondition = {}
       /\ t.label \in map => t.pathCondition # {}
       /\ f.label \in map => /\ f.pathCondition # {} /\ HasPrev(f.label)
                             /\ prevAddress(f.label) >= 0
  BY <1>5, <1>7, <1>8, <1>9, <1>10
<1>14. t.label \in map \/ f.label \in map \/ Stuck
  <2>1. dest # NoLabel => t.label \in map
    BY <1>10 DEF map, Put
  <2>2. next # NoLabel => f.label \in map
    BY <1>10 DEF map, Put
  <2>3. neg => next # NoLabel
    <3>1. nextInst(label) # NoLabel
      BY <1>6, NextType, NoLabelIsNone
    <3> QED BY <3>1 DEF next
  <2> QED BY <1>1, <1>2, <1>3, <1>4, <2>1, <2>2, <2>3, OneSide
<1> QED BY <1>9, <1>11, <1>12, <1>13, <1>14

\* A branch preserves the invariant.
LEMMA BranchStep == IndInv /\ ExecBranch => IndInv'
<1> SUFFICES ASSUME IndInv, ExecBranch PROVE IndInv'
  OBVIOUS
<1>1. TypeOK /\ PendingFeasible /\ RollbackSafe /\ SearchOK
  BY DEF IndInv, TypeOK, SearchOK
<1>2. PICK t \in Choices(pathCond), f \in Choices(pathCond), map \in SUBSET Labels :
         /\ t.label \in map => t.pathCondition # {}
         /\ f.label \in map => /\ f.pathCondition # {} /\ HasPrev(f.label)
                               /\ prevAddress(f.label) >= 0
         /\ decideToJump(t, f, map)
  BY BranchDecides
<1>3. t.pathCondition \in SUBSET Inputs /\ f.pathCondition \in SUBSET Inputs
  BY <1>1 DEF Choices, TypeOK
<1>4. /\ SearchOK' /\ PendingFeasible' /\ RollbackSafe'
      /\ ExitExhausted' /\ phase' \in {"follow", "exited"}
  BY <1>1, <1>2, <1>3, DecideKeeps
<1>5. TypeOK'
  <2>1. Linked \in [Regs -> Values \cup {Null}] /\ regs' = Linked
    BY <1>1, LinkedType DEF ExecBranch
  <2>2. UNCHANGED <<nodes, end, label, zero, stacks, counts, savedGraph>>
    BY DEF ExecBranch, program, graph
  <2>3. NodesOK'
    BY <1>1, <2>2 DEF TypeOK, NodesOK
  <2> QED BY <1>1, <1>4, <2>1, <2>2, <2>3 DEF TypeOK, SearchOK
<1> QED BY <1>4, <1>5 DEF IndInv

\* An exception preserves the invariant if what was written before it is well
\* typed.
LEMMA ThrowStep ==
    ASSUME IndInv, Throw, known' \in SUBSET Labels,
           regs' \in [Regs -> Values \cup {Null}],
           zero' \in [set : SUBSET Inputs, declared : BOOLEAN],
           stacks' \in Seq(Values)
    PROVE  IndInv'
<1>1. /\ UNCHANGED <<nodes, end, label, jumpTo, pathCond, envStack, counts, savedGraph>>
      /\ phase' = "returned"
  BY DEF Throw, program, graph
<1>2. TypeOK'
  <2>1. NodesOK'
    BY <1>1 DEF IndInv, TypeOK, NodesOK
  <2> QED BY <1>1, <2>1 DEF IndInv, TypeOK
<1>3. PendingFeasible' /\ RollbackSafe' /\ ExitExhausted'
  BY <1>1, SearchUnchanged
<1> QED BY <1>2, <1>3 DEF IndInv

\* An instruction that does not jump preserves the invariant if what it writes to
\* the environment is well typed.
LEMMA NoJumpStep ==
    ASSUME IndInv, NoJump,
           regs' \in [Regs -> Values \cup {Null}],
           zero' \in [set : SUBSET Inputs, declared : BOOLEAN],
           stacks' \in Seq(Values)
    PROVE  IndInv'
<1>1. /\ UNCHANGED <<nodes, end, label, jumpTo, search, counts, savedGraph>>
      /\ phase' = "follow"
  BY DEF NoJump, program, graph
<1>2. TypeOK'
  <2>1. NodesOK'
    BY <1>1 DEF IndInv, TypeOK, NodesOK
  <2> QED BY <1>1, <2>1 DEF IndInv, TypeOK, search
<1>3. PendingFeasible' /\ RollbackSafe' /\ ExitExhausted'
  BY <1>1, SearchUnchanged DEF search
<1> QED BY <1>2, <1>3 DEF IndInv

\* The instruction of a frame is well formed, and the environment well typed.
LEMMA FrameTypes ==
    ASSUME IndInv
    PROVE  /\ Instr \in Instructions /\ WellFormed(Instr) /\ Instr.num \in Nat
           /\ Instr.regs \in Seq(Regs \cup {"pc"}) /\ label \in Labels
           /\ regs \in [Regs -> Values \cup {Null}]
           /\ zero \in [set : SUBSET Inputs, declared : BOOLEAN]
           /\ stacks \in Seq(Values)
BY DEF IndInv, TypeOK, NodesOK, Instr, Instructions

\* A frame that ends before it changed anything preserves the invariant.
LEMMA ReturnStep == IndInv /\ Return => IndInv'
<1> SUFFICES ASSUME IndInv, Return PROVE IndInv'
  OBVIOUS
<1>1. Throw /\ UNCHANGED <<known, regs, zero, stacks>>
  BY DEF Return, env
<1>2. known \in SUBSET Labels
  BY DEF IndInv, TypeOK
<1> QED BY <1>1, <1>2, FrameTypes, ThrowStep

\* A branch that is ignored preserves the invariant.
LEMMA IgnoredStep == IndInv /\ BranchIgnored => IndInv'
<1> SUFFICES ASSUME IndInv, BranchIgnored PROVE IndInv'
  OBVIOUS
<1>1. /\ UNCHANGED <<nodes, end, label, jumpTo, pathCond, envStack, zero, stacks, counts,
                     savedGraph>>
      /\ phase' = "follow" /\ known' = Put({label}) /\ regs' = Linked
  BY DEF BranchIgnored, program, graph
<1>2. Put({label}) \in SUBSET Labels
  BY FrameTypes DEF IndInv, TypeOK, Put
<1>3. Linked \in [Regs -> Values \cup {Null}]
  BY LinkedType DEF IndInv
<1>4. NodesOK'
  BY <1>1 DEF IndInv, TypeOK, NodesOK
<1>5. TypeOK'
  BY <1>1, <1>2, <1>3, <1>4 DEF IndInv, TypeOK
<1>6. PendingFeasible' /\ RollbackSafe' /\ ExitExhausted'
  BY <1>1, SearchUnchanged
<1> QED BY <1>5, <1>6 DEF IndInv

\* A stack that runs out, at the head of a frame or in a branch, preserves the
\* invariant.
LEMMA OverflowStep == IndInv /\ StackOverflow => IndInv'
<1> SUFFICES ASSUME IndInv, StackOverflow PROVE IndInv'
  OBVIOUS
<1>1. CASE Return
  BY <1>1, ReturnStep
<1>2. CASE ~Return
  <2>1. /\ Instr.op \in Variant.branches
        /\ Throw /\ regs' = Linked /\ UNCHANGED <<zero, stacks>>
        /\ \E dest \in DestinationsPut, next \in NextsPut : known' = Put({label, dest, next})
    BY <1>2 DEF StackOverflow
  <2>2. TypeOK /\ known \in SUBSET Labels /\ label \in Labels
    BY FrameTypes DEF IndInv, TypeOK
  <2>3. PICK dest, next :
          /\ known' = Put({label, dest, next})
          /\ dest = NoLabel \/ (~OperandIsNull /\ ~LrIsNull /\ dest \in Destinations)
          /\ next \in {NoLabel, nextInst(label)}
    BY <2>1 DEF DestinationsPut, NextsPut, Queried
  <2>4. dest \in Labels \cup {NoLabel} /\ next \in Labels \cup {NoLabel}
    BY <2>1, <2>2, <2>3, DestinationType, NextType
  <2>5. known' \in SUBSET Labels
    BY <2>2, <2>3, <2>4 DEF Put
  <2>6. Linked \in [Regs -> Values \cup {Null}]
    BY <2>2, LinkedType
  <2> QED BY <2>1, <2>5, <2>6, FrameTypes, ThrowStep
<1> QED BY <1>1, <1>2

\* A branch on a null register, or to an address that cannot be read, preserves the
\* invariant.
LEMMA ThrowsStep == IndInv /\ BranchThrows => IndInv'
<1> SUFFICES ASSUME IndInv, BranchThrows PROVE IndInv'
  OBVIOUS
<1>1. Throw /\ known' = Put({label}) /\ regs' = Linked /\ UNCHANGED <<zero, stacks>>
  BY DEF BranchThrows
<1>2. Put({label}) \in SUBSET Labels
  BY FrameTypes DEF IndInv, TypeOK, Put
<1>3. Linked \in [Regs -> Values \cup {Null}]
  BY LinkedType DEF IndInv
<1> QED BY <1>1, <1>2, <1>3, FrameTypes, ThrowStep

\* The data-processing and load instructions preserve the invariant.
LEMMA DataStep ==
    IndInv /\ (ExecMov \/ ExecCmp \/ ExecLdr \/ ExecLdrb \/ ExecNop) => IndInv'
<1> SUFFICES ASSUME IndInv, ExecMov \/ ExecCmp \/ ExecLdr \/ ExecLdrb \/ ExecNop
             PROVE  IndInv'
  OBVIOUS
<1>1. CASE ExecMov
  <2>1. Instr.regs[1] \in Regs
    BY <1>1, FrameTypes DEF ExecMov, Executes, WellFormed
  <2>2. /\ regs' = [regs EXCEPT ![Instr.regs[1]] = Literal(Instr.num)]
        /\ NoJump /\ UNCHANGED <<zero, stacks>>
    BY <1>1 DEF ExecMov
  <2>3. Literal(Instr.num) \in Values
    BY FrameTypes, LiteralType
  <2>4. regs' \in [Regs -> Values \cup {Null}]
    BY <2>1, <2>2, <2>3, FrameTypes
  <2> QED BY <2>2, <2>4, FrameTypes, NoJumpStep
<1>2. CASE ExecCmp
  <2> DEFINE v == regs[Instr.regs[1]]
  <2>1. CASE v = Null
    BY <1>2, <2>1, ReturnStep DEF ExecCmp
  <2>2. CASE v # Null
    <3>1. /\ zero' = [set |-> {i \in Inputs : v.sym[i] = Instr.num},
                      declared |-> v.kind # "SYM"]
          /\ NoJump /\ UNCHANGED <<regs, stacks>>
      BY <1>2, <2>2 DEF ExecCmp
    <3>2. zero' \in [set : SUBSET Inputs, declared : BOOLEAN]
      BY <3>1
    <3> QED BY <3>1, <3>2, FrameTypes, NoJumpStep
  <2> QED BY <2>1, <2>2
<1>3. CASE ExecLdr
  <2>1. CASE Return
    BY <2>1, ReturnStep
  <2>2. CASE /\ regs' = [r \in Regs |-> IF r = Instr.regs[1] THEN Null ELSE regs[r]]
             /\ NoJump /\ UNCHANGED <<zero, stacks>>
    <3>1. regs' \in [Regs -> Values \cup {Null}]
      BY <2>2, FrameTypes
    <3> QED BY <2>2, <3>1, FrameTypes, NoJumpStep
  <2> QED BY <1>3, <2>1, <2>2 DEF ExecLdr
<1>4. CASE ExecLdrb
  BY <1>4, ReturnStep DEF ExecLdrb
<1>5. CASE ExecNop
  <2>1. NoJump /\ UNCHANGED <<regs, zero, stacks>>
    BY <1>5 DEF ExecNop, env
  <2> QED BY <2>1, FrameTypes, NoJumpStep
<1> QED BY <1>1, <1>2, <1>3, <1>4, <1>5

\* push preserves the invariant: what it pushes, in either order, are values.
LEMMA PushStep == IndInv /\ ExecPush => IndInv'
<1> SUFFICES ASSUME IndInv, ExecPush PROVE IndInv'
  OBVIOUS
<1>1. PICK n \in 0..Len(Instr.regs) :
         /\ \A k \in 1..n : regs[PushOrder[k]] # Null
         /\ stacks' = stacks \o [k \in 1..n |-> regs[PushOrder[k]]]
         /\ NoJump \/ (Throw /\ known' = known)
  BY DEF ExecPush
<1>2. UNCHANGED <<regs, zero>>
  BY DEF ExecPush
<1>3. Instr.regs \in Seq(Regs)
  BY FrameTypes DEF ExecPush, Executes, WellFormed
<1>4. DOMAIN Instr.regs = 1..Len(Instr.regs) /\ Len(Instr.regs) \in Nat /\ n \in Nat
  BY <1>3, LenProperties
<1>5. ASSUME NEW k \in 1..n PROVE regs[PushOrder[k]] \in Values
  <2> DEFINE i == IF Variant.pushReversed THEN Len(Instr.regs) - k + 1 ELSE k
  <2>1. i \in DOMAIN Instr.regs /\ k \in DOMAIN Instr.regs
    BY <1>4
  <2>2. PushOrder[k] = Instr.regs[i]
    BY <2>1 DEF PushOrder
  <2> HIDE DEF i
  <2>3. Instr.regs[i] \in Regs
    BY <1>3, <1>4, <2>1, ElementOfSeq
  <2> QED BY <1>1, <2>2, <2>3, FrameTypes
<1> DEFINE pushed == [k \in 1..n |-> regs[PushOrder[k]]]
<1>6. pushed \in [1..n -> Values]
  BY <1>5
<1>7. stacks' = stacks \o pushed
  BY <1>1
<1> HIDE DEF pushed
<1>8. pushed \in Seq(Values)
  BY <1>4, <1>6, SeqDef
<1>9. stacks' \in Seq(Values)
  BY <1>7, <1>8, FrameTypes, ConcatProperties
<1>10. CASE NoJump
  BY <1>2, <1>9, <1>10, FrameTypes, NoJumpStep
<1>11. CASE Throw /\ known' = known
  <2>1. known \in SUBSET Labels
    BY DEF IndInv, TypeOK
  <2> QED BY <1>2, <1>9, <1>11, <2>1, FrameTypes, ThrowStep
<1> QED BY <1>1, <1>10, <1>11

\* What pop reads is a value or null, and what it leaves is a stack.
LEMMA PopTypes ==
    ASSUME IndInv, NEW rand \in [DOMAIN Instr.regs -> RandVals]
    PROVE  /\ \A k \in DOMAIN Instr.regs : Popped(k, rand) \in Values \cup {Null}
           /\ PopRegs(rand) \in [Regs -> Values \cup {Null}]
           /\ PopStacks \in Seq(Values)
<1>1. /\ DOMAIN Instr.regs = 1..Len(Instr.regs) /\ Len(Instr.regs) \in Nat
      /\ Len(stacks) \in Nat
  BY FrameTypes, LenProperties
<1>2. \A i \in 1..Len(stacks) : stacks[i] \in Values
  BY FrameTypes, ElementOfSeq
<1>3. ASSUME NEW k \in DOMAIN Instr.regs
      PROVE  Popped(k, rand) \in Values \cup {Null}
  <2>1. CASE k > Len(stacks)
    <3>1. rand[k] \in Nat
      BY ConstantsAssumption
    <3>2. [i \in Inputs |-> rand[k]] \in [Inputs -> Nat]
      BY <3>1
    <3>3. Popped(k, rand) = [kind |-> "SYM", sym |-> [i \in Inputs |-> rand[k]]]
      BY <2>1 DEF Popped
    <3> QED BY <3>2, <3>3 DEF Values
  <2>2. CASE ~(k > Len(stacks))
    <3>1. Len(stacks) - k + 1 \in 1..Len(stacks)
      BY <1>1, <2>2
    <3>2. stacks[Len(stacks) - k + 1] \in Values
      BY <1>2, <3>1
    <3> QED BY <2>2, <3>2 DEF Popped
  <2> QED BY <2>1, <2>2
<1>4. PopRegs(rand) \in [Regs -> Values \cup {Null}]
  <2>1. ASSUME NEW r \in Regs, \E k \in DOMAIN Instr.regs : Instr.regs[k] = r
        PROVE  (CHOOSE k \in DOMAIN Instr.regs : Instr.regs[k] = r) \in DOMAIN Instr.regs
    BY <2>1
  <2> QED BY <1>3, <2>1, FrameTypes DEF PopRegs
<1>5. PopStacks \in Seq(Values)
  <2> DEFINE n == Len(stacks) - Len(Instr.regs)
  <2>1. n \in Int /\ \A i \in 1..n : stacks[i] \in Values
    BY <1>1, <1>2
  <2>2. PopStacks = SubSeq(stacks, 1, n)
    BY DEF PopStacks
  <2> HIDE DEF n
  <2> QED BY <2>1, <2>2, SubSeqProperties
<1> QED BY <1>3, <1>4, <1>5

\* A pop throws, goes on, or hands pcJump a model with the current path condition
\* or, once that has grown too long, with none.
LEMMA PopDecides ==
    ASSUME IndInv, ExecPop
    PROVE  /\ regs' \in [Regs -> Values \cup {Null}] /\ stacks' \in Seq(Values)
           /\ UNCHANGED zero
           /\ \/ Throw /\ known' = known
              \/ NoJump
              \/ /\ UNCHANGED <<program, label, graph>>
                 /\ \E t \in Choices(Inputs), map \in SUBSET Labels :
                      /\ t.pathCondition # {}
                      /\ ~CondTooLong => t.pathCondition = pathCond
                      /\ NoLabel \notin map
                      /\ t.label \in map
                      /\ decideToJump(t, NoModel, map)
<1>1. PICK rand \in [DOMAIN Instr.regs -> RandVals] :
         LET pc == Popped(Len(Instr.regs), rand)
             jumps == PopsPc /\ pc # Null /\ pc.kind = "literal"
                             /\ Concrete(pc) > PcFloor
             throws == PopsPc /\ (pc # Null => pc.kind = "formula")
         IN  /\ regs' = PopRegs(rand)
             /\ stacks' = PopStacks
             /\ \/ throws /\ Throw /\ known' = known
                \/ ~throws /\ ~jumps /\ NoJump
                \/ /\ jumps
                   /\ \E pre \in IF CondTooLong THEN {pathCond, Inputs} ELSE {pathCond} :
                        pcJump([label |-> Plain(Concrete(pc)), pathCondition |-> pre],
                               Put({label, Plain(Concrete(pc))}))
                   /\ UNCHANGED <<program, label, graph>>
             /\ UNCHANGED zero
  BY DEF ExecPop
<1> DEFINE pc == Popped(Len(Instr.regs), rand)
<1>2. /\ PopRegs(rand) \in [Regs -> Values \cup {Null}]
      /\ PopStacks \in Seq(Values)
  BY PopTypes
<1>3. regs' = PopRegs(rand) /\ stacks' = PopStacks /\ UNCHANGED zero
  BY <1>1
<1>4. CASE NoJump \/ (Throw /\ known' = known)
  BY <1>2, <1>3, <1>4
<1>5. CASE /\ UNCHANGED <<program, label, graph>>
           /\ pc # Null
           /\ \E pre \in IF CondTooLong THEN {pathCond, Inputs} ELSE {pathCond} :
                pcJump([label |-> Plain(Concrete(pc)), pathCondition |-> pre],
                       Put({label, Plain(Concrete(pc))}))
  <2>1. PICK pre \in IF CondTooLong THEN {pathCond, Inputs} ELSE {pathCond} :
          pcJump([label |-> Plain(Concrete(pc)), pathCondition |-> pre],
                 Put({label, Plain(Concrete(pc))}))
    BY <1>5
  <2>2. Plain(Concrete(pc)) \in Labels
    <3>1. Instr.regs # << >>
      BY FrameTypes DEF ExecPop, Executes, WellFormed
    <3>2. Len(Instr.regs) \in DOMAIN Instr.regs
      BY <3>1, FrameTypes, BelowProperties, LenProperties
    <3>3. pc \in Values
      BY <1>5, <3>2, PopTypes
    <3> HIDE DEF pc
    <3>4. Concrete(pc) \in Nat
      BY <3>3, ConstantsAssumption DEF Concrete, Values
    <3> QED BY <3>4, LabelTypes
  <2>3. /\ SearchOK /\ pathCond # {}
        /\ known \in SUBSET Labels /\ pathCond \in SUBSET Inputs /\ label \in Labels
    BY FrameTypes DEF IndInv, TypeOK, SearchOK, PendingFeasible
  <2>4. pre \in SUBSET Inputs /\ pre # {} /\ (~CondTooLong => pre = pathCond)
    BY <2>1, <2>3, ConstantsAssumption
  <2> DEFINE t == [label |-> Plain(Concrete(pc)), pathCondition |-> pre]
             map == Put({label, Plain(Concrete(pc))})
  <2>5. map \in SUBSET Labels /\ NoLabel \notin map
    BY <2>2, <2>3, NoLabelIsNone DEF Put
  <2>6. t \in Choices(Inputs) /\ t.pathCondition = pre /\ t.label \in map
    BY <2>2, <2>4, NoLabelIsNone DEF Choices, Put
  <2>7. decideToJump(t, NoModel, map)
    <3>1. pcJump(t, map) /\ envStack \in Seq(Models)
      BY <2>1, <2>3 DEF SearchOK
    <3> HIDE DEF t, map
    <3> QED BY <2>5, <3>1, PcJumpDecides
  <2> HIDE DEF t, map
  <2> QED BY <1>2, <1>3, <1>5, <2>4, <2>5, <2>6, <2>7
<1> QED BY <1>1, <1>4, <1>5

\* pop preserves the invariant, also when it jumps.
LEMMA PopStep == IndInv /\ ExecPop => IndInv'
<1> SUFFICES ASSUME IndInv, ExecPop PROVE IndInv'
  OBVIOUS
<1>0. /\ regs' \in [Regs -> Values \cup {Null}] /\ stacks' \in Seq(Values)
      /\ UNCHANGED zero
  BY PopDecides
<1>1. CASE Throw /\ known' = known
  <2>1. known \in SUBSET Labels
    BY DEF IndInv, TypeOK
  <2> QED BY <1>0, <1>1, <2>1, FrameTypes, ThrowStep
<1>2. CASE NoJump
  BY <1>0, <1>2, FrameTypes, NoJumpStep
<1>3. ASSUME NEW t \in Choices(Inputs), NEW map \in SUBSET Labels,
             t.pathCondition # {}, NoLabel \notin map, decideToJump(t, NoModel, map),
             UNCHANGED <<program, label, graph>>
      PROVE  IndInv'
  <2>1. SearchOK /\ PendingFeasible /\ RollbackSafe
    BY DEF IndInv, TypeOK, SearchOK
  <2>2. /\ NoModel.pathCondition \in SUBSET Inputs /\ NoModel.label \notin map
        /\ t.pathCondition \in SUBSET Inputs
    BY <1>3 DEF NoModel, Choices
  <2>3. /\ SearchOK' /\ PendingFeasible' /\ RollbackSafe'
        /\ ExitExhausted' /\ phase' \in {"follow", "exited"}
    BY <1>3, <2>1, <2>2, DecideKeeps
  <2>4. TypeOK'
    <3>1. UNCHANGED <<nodes, end, label, counts, savedGraph>>
      BY <1>3 DEF program, graph
    <3>2. NodesOK'
      BY <3>1 DEF IndInv, TypeOK, NodesOK
    <3> QED BY <1>0, <1>3, <2>3, <3>1, <3>2 DEF IndInv, TypeOK, SearchOK
  <2> QED BY <2>3, <2>4 DEF IndInv
<1> QED BY <1>1, <1>2, <1>3, PopDecides

\* Entering the next frame preserves the invariant.
LEMMA EnterStep ==
    ASSUME IndInv, NEW next \in DOMAIN nodes, Enter(next),
           \A p \in DOMAIN counts' : counts'[p] \in Nat,
           UNCHANGED <<program, search, env>>
    PROVE  IndInv'
<1>1. /\ UNCHANGED <<nodes, end, search, regs, zero, stacks>>
      /\ phase' = "exec" /\ label' = next /\ jumpTo' = NoLabel
      /\ savedGraph' = savedGraph \cup {<<label, next>>}
  BY DEF program, env, Enter
<1>2. TypeOK'
  <2>1. NodesOK'
    BY <1>1 DEF IndInv, TypeOK, NodesOK
  <2>2. savedGraph' \subseteq (Labels \X Labels)
    <3>1. label \in Labels /\ next \in Labels
      BY DEF IndInv, TypeOK, NodesOK
    <3> QED BY <1>1, <3>1 DEF IndInv, TypeOK
  <2> QED BY <1>1, <2>1, <2>2 DEF IndInv, TypeOK, search
<1>3. PendingFeasible' /\ RollbackSafe' /\ ExitExhausted'
  BY <1>1, SearchUnchanged DEF search
<1> QED BY <1>2, <1>3 DEF IndInv

\* A counted jump leaves natural counts.
LEMMA CountedType ==
    ASSUME IndInv, NEW pair
    PROVE  \A p \in DOMAIN Counted(pair) : Counted(pair)[p] \in Nat
BY DEF IndInv, TypeOK, Counted, CountOf

\* The rest of execFrom preserves the invariant.
LEMMA FollowStep == IndInv /\ Follow => IndInv'
<1> SUFFICES ASSUME IndInv, Follow PROVE IndInv'
  OBVIOUS
<1>1. \A p \in DOMAIN counts' : counts'[p] \in Nat
  <2>1. counts' = Counted(<<label, jumpTo>>) \/ counts' = counts
    BY DEF Follow, TakeJump, Continue, BreakLoop
  <2> QED BY <2>1, CountedType DEF IndInv, TypeOK
<1>2. CASE TakeJump
  <2>1. jumpTo \in DOMAIN nodes /\ Enter(jumpTo) /\ UNCHANGED <<program, search, env>>
    BY <1>2 DEF TakeJump, Exists
  <2> QED BY <1>1, <2>1, EnterStep
<1>3. CASE FallThrough
  <2>1. CASE /\ nextInst(label) \in DOMAIN nodes /\ Enter(nextInst(label))
             /\ UNCHANGED <<program, search, env>>
    BY <1>1, <2>1, EnterStep
  <2>2. CASE /\ phase' = "returned" /\ jumpTo' = NoLabel
             /\ UNCHANGED <<program, label, search, env, savedGraph>>
    <3>1. /\ UNCHANGED <<nodes, end, label, search, regs, zero, stacks, savedGraph>>
          /\ phase' = "returned" /\ jumpTo' = NoLabel
      BY <2>2 DEF program, env
    <3>2. TypeOK'
      <4>1. NodesOK'
        BY <3>1 DEF IndInv, TypeOK, NodesOK
      <4> QED BY <1>1, <3>1, <4>1 DEF IndInv, TypeOK, search
    <3>3. PendingFeasible' /\ RollbackSafe' /\ ExitExhausted'
      BY <3>1, SearchUnchanged DEF search
    <3> QED BY <3>2, <3>3 DEF IndInv
  <2> QED BY <1>3, <2>1, <2>2 DEF FallThrough
<1> QED BY <1>2, <1>3 DEF Follow, Continue, BreakLoop

-----------------------------------------------------------------------------
(***************************************************************************)
(* Theorems                                                                *)
(***************************************************************************)
\* The invariant holds when execute or byteExecute calls execFrom.
LEMMA InitInv == Init => IndInv
<1> SUFFICES ASSUME Init PROVE IndInv
  OBVIOUS
<1>1. PICK code \in Programs : nodes = expand(code) /\ label = firstLabel(code)
  BY DEF Init, InitWith
<1>2. NodesOK /\ label \in DOMAIN nodes
  BY <1>1, ExpandOK
<1>3. envStack \in Seq(Models) /\ stacks \in Seq(Values) /\ DOMAIN envStack = {}
  BY EmptySeq, LenProperties DEF Init, InitWith
<1>4. regs \in [Regs -> Values \cup {Null}]
  BY ConstantsAssumption DEF Init, InitWith, Values
<1>5. TypeOK
  <2>1. pathCond \in SUBSET Inputs /\ known \in SUBSET Labels /\ end \in Int
    BY ConstantsAssumption DEF Init, InitWith
  <2>2. zero \in [set : SUBSET Inputs, declared : BOOLEAN]
    BY ConstantsAssumption DEF Init, InitWith
  <2>3. \A p \in DOMAIN counts : counts[p] \in Nat
    BY EmptySeq, LenProperties DEF Init, InitWith
  <2> QED BY <1>2, <1>3, <1>4, <2>1, <2>2, <2>3 DEF Init, InitWith, TypeOK
<1>6. PendingFeasible /\ RollbackSafe /\ ExitExhausted
  BY <1>3, ConstantsAssumption DEF Init, InitWith, PendingFeasible, RollbackSafe, ExitExhausted
<1> QED BY <1>5, <1>6 DEF IndInv

\* Every step of the analysis preserves the invariant.
LEMMA StepInv == IndInv /\ [Next]_vars => IndInv'
<1> SUFFICES ASSUME IndInv, [Next]_vars PROVE IndInv'
  OBVIOUS
<1>1. CASE ExecBranch
  BY <1>1, BranchStep
<1>2. CASE BranchThrows
  BY <1>2, ThrowsStep
<1>3. CASE ExecMov \/ ExecCmp \/ ExecLdr \/ ExecLdrb \/ ExecNop
  BY <1>3, DataStep
<1>4. CASE ExecPush
  BY <1>4, PushStep
<1>5. CASE ExecPop
  BY <1>5, PopStep
<1>6. CASE Follow
  BY <1>6, FollowStep
<1>7. CASE ReachEnd
  BY <1>7, ReturnStep DEF ReachEnd
<1>9. CASE StackOverflow
  BY <1>9, OverflowStep
<1>10. CASE BranchIgnored
  BY <1>10, IgnoredStep
<1>8. CASE UNCHANGED vars
  <2>1. UNCHANGED <<nodes, end, phase, label, jumpTo, search, regs, zero, stacks,
                    counts, savedGraph>>
    BY <1>8 DEF vars, program, env, graph
  <2>2. NodesOK'
    BY <2>1 DEF IndInv, TypeOK, NodesOK
  <2> QED BY <2>1, <2>2 DEF IndInv, TypeOK, search, PendingFeasible, RollbackSafe,
                            ExitExhausted
<1> QED BY <1>1, <1>2, <1>3, <1>4, <1>5, <1>6, <1>7, <1>8, <1>9, <1>10 DEF Next, Exec

\* The invariant holds throughout the analysis of every program by every
\* variation.
THEOREM InvHolds == Spec => []IndInv
BY InitInv, StepInv, PTL DEF Spec

\* Type correctness; in particular execFrom is only called with labels of the
\* program and a destination never outlives its frame.
THEOREM TypeSafe == Spec => []TypeOK
<1>1. IndInv => TypeOK
  BY DEF IndInv
<1> QED BY <1>1, InvHolds, PTL

\* No path is entered, at once or by a rollback, that checkSAT refused.
THEOREM FeasibleSafe == Spec => []PendingFeasible
<1>1. IndInv => PendingFeasible
  BY DEF IndInv
<1> QED BY <1>1, InvHolds, PTL

\* The parse that a rollback makes in decideToJump never throws and never finds a
\* negative address, whatever was pushed on envStack.
THEOREM RollbackIsSafe == Spec => []RollbackSafe
<1>1. IndInv => RollbackSafe
  BY DEF IndInv
<1> QED BY <1>1, InvHolds, PTL

\* gg ends the process only when no branch is pending.
THEOREM ExitIsExhausted == Spec => []ExitExhausted
<1>1. IndInv => ExitExhausted
  BY DEF IndInv
<1> QED BY <1>1, InvHolds, PTL

\* Every step but a branch and a pop leaves envStack and the path condition alone.
LEMMA SearchSteps ==
    ASSUME Next, ~ExecBranch, ~ExecPop
    PROVE  UNCHANGED <<pathCond, envStack>>
<1>1. CASE Exec
  BY <1>1 DEF Exec, BranchIgnored, BranchThrows, ExecMov, ExecCmp, ExecLdr, ExecLdrb, ExecNop,
              ExecPush, Return, Throw, NoJump, search
<1>2. CASE Follow
  BY <1>2 DEF Follow, TakeJump, Continue, BreakLoop, FallThrough, search
<1> QED BY <1>1, <1>2 DEF Next, ReachEnd, StackOverflow, Return, Throw

\* No input is explored twice: unless a path condition may be dropped for its
\* length, pending branches and the current path stay pairwise disjoint.
THEOREM DisjointSafe == ASSUME ~CondTooLong PROVE Spec => []PendingDisjoint
<1>1. Init => PendingDisjoint
  BY EmptySeq, LenProperties DEF Init, InitWith, PendingDisjoint
<1>2. ASSUME IndInv, PendingDisjoint, [Next]_vars PROVE PendingDisjoint'
  <2>1. /\ SearchOK /\ RollbackSafe
    BY <1>2 DEF IndInv, TypeOK, SearchOK
  <2>2. CASE UNCHANGED <<pathCond, envStack>>
    BY <1>2, <2>2 DEF PendingDisjoint
  <2>3. CASE ExecBranch
    <3>1. PICK t \in Choices(pathCond), f \in Choices(pathCond), map \in SUBSET Labels :
            t.pathCondition \cap f.pathCondition = {} /\ decideToJump(t, f, map)
      BY <1>2, <2>3, BranchDecides
    <3>2. t.pathCondition \in SUBSET pathCond /\ f.pathCondition \in SUBSET pathCond
      BY DEF Choices
    <3> QED BY <1>2, <2>1, <3>1, <3>2, DecideDisjoint
  <2>4. CASE ExecPop
    <3>1. CASE Throw
      BY <2>2, <3>1 DEF Throw
    <3>2. ASSUME NEW t \in Choices(Inputs), NEW map \in SUBSET Labels,
                 t.pathCondition = pathCond, decideToJump(t, NoModel, map)
          PROVE  PendingDisjoint'
      <4>1. /\ NoModel.pathCondition \in SUBSET pathCond
            /\ t.pathCondition \in SUBSET pathCond
            /\ t.pathCondition \cap NoModel.pathCondition = {}
        BY <3>2 DEF NoModel
      <4> QED BY <1>2, <2>1, <3>2, <4>1, DecideDisjoint
    <3>3. CASE NoJump
      BY <2>2, <3>3 DEF NoJump, search
    <3> QED BY <1>2, <2>4, <3>1, <3>2, <3>3, PopDecides
  <2>5. UNCHANGED vars => UNCHANGED <<pathCond, envStack>>
    BY DEF vars, search
  <2> QED BY <1>2, <2>2, <2>3, <2>4, <2>5, SearchSteps
<1>3. IndInv /\ PendingDisjoint /\ [Next]_vars => PendingDisjoint'
  BY <1>2
<1> QED BY <1>1, <1>3, InvHolds, PTL DEF Spec

\* One step of NothingDropped.
KeepsPending ==
    \A k \in DOMAIN envStack :
        \/ k \in DOMAIN envStack' /\ envStack'[k] = envStack[k]
        \/ /\ k = Len(envStack) /\ Len(envStack') = k - 1
           /\ jumpTo' = envStack[k].label
           /\ pathCond' = envStack[k].pathCondition

\* decideToJump pops no more than the branch it follows.
LEMMA DecideKeepsPending ==
    ASSUME SearchOK, RollbackSafe, NEW map \in SUBSET Labels,
           NEW t, t.pathCondition \in SUBSET Inputs,
           NEW f, f.pathCondition \in SUBSET Inputs,
           decideToJump(t, f, map)
    PROVE  KeepsPending
<1>1. envStack \in Seq(Models) /\ Len(envStack) \in Nat
      /\ DOMAIN envStack = 1..Len(envStack)
  BY LenProperties DEF SearchOK
<1>2. CASE envStack' = envStack
  BY <1>2 DEF KeepsPending
<1>3. CASE f.label \in map /\ envStack' = Append(envStack, Entry(f, map))
  <2>1. Entry(f, map) \in Models
    BY <1>3 DEF Entry, Models
  <2>2. /\ envStack' \in Seq(Models) /\ Len(envStack') = Len(envStack) + 1
        /\ \A i \in 1..Len(envStack) : envStack'[i] = envStack[i]
    BY <1>1, <1>3, <2>1, AppendProperties
  <2>3. DOMAIN envStack' = 1..(Len(envStack) + 1)
    BY <2>2, LenProperties
  <2> QED BY <1>1, <2>2, <2>3 DEF KeepsPending
<1>4. CASE envStack # << >> /\ Resumes(Top(envStack), Below(envStack))
  <2>1. /\ Len(envStack) \in Nat \ {0}
        /\ Below(envStack) \in Seq(Models) /\ Len(Below(envStack)) = Len(envStack) - 1
        /\ \A i \in 1..(Len(envStack) - 1) : Below(envStack)[i] = envStack[i]
    BY <1>1, <1>4, BelowProperties
  <2>2. DOMAIN Below(envStack) = 1..(Len(envStack) - 1)
    BY <2>1, LenProperties
  <2>3. /\ envStack' = Below(envStack)
        /\ jumpTo' = envStack[Len(envStack)].label
        /\ pathCond' = envStack[Len(envStack)].pathCondition
    BY <1>4 DEF Resumes, Top
  <2>4. ASSUME NEW k \in DOMAIN envStack, k # Len(envStack)
        PROVE  k \in DOMAIN envStack' /\ envStack'[k] = envStack[k]
    BY <1>1, <2>1, <2>2, <2>3, <2>4
  <2>5. Len(envStack') = Len(envStack) - 1
    BY <2>1, <2>3
  <2> QED BY <2>3, <2>4, <2>5 DEF KeepsPending
<1>5. \/ envStack' = envStack
      \/ f.label \in map /\ envStack' = Append(envStack, Entry(f, map))
      \/ envStack # << >> /\ Resumes(Top(envStack), Below(envStack))
  BY <1>1, DecideCases DEF Resumes, search
<1> QED BY <1>2, <1>3, <1>4, <1>5

\* Pending branches are never lost or reordered.
THEOREM NothingIsDropped == Spec => NothingDropped
<1>1. ASSUME IndInv, Next PROVE KeepsPending
  <2>1. SearchOK /\ RollbackSafe /\ pathCond \in SUBSET Inputs
    BY <1>1 DEF IndInv, TypeOK, SearchOK
  <2>2. CASE UNCHANGED <<pathCond, envStack>>
    BY <2>2 DEF KeepsPending
  <2>3. CASE ExecBranch
    <3>1. PICK t \in Choices(pathCond), f \in Choices(pathCond), map \in SUBSET Labels :
            decideToJump(t, f, map)
      BY <1>1, <2>3, BranchDecides
    <3>2. t.pathCondition \in SUBSET Inputs /\ f.pathCondition \in SUBSET Inputs
      BY <2>1 DEF Choices
    <3> QED BY <2>1, <3>1, <3>2, DecideKeepsPending
  <2>4. CASE ExecPop
    <3>1. CASE Throw
      BY <2>2, <3>1 DEF Throw
    <3>2. ASSUME NEW t \in Choices(Inputs), NEW map \in SUBSET Labels,
                 decideToJump(t, NoModel, map)
          PROVE  KeepsPending
      <4>1. NoModel.pathCondition \in SUBSET Inputs /\ t.pathCondition \in SUBSET Inputs
        BY DEF NoModel, Choices
      <4> QED BY <2>1, <3>2, <4>1, DecideKeepsPending
    <3>3. CASE NoJump
      BY <2>2, <3>3 DEF NoJump, search
    <3> QED BY <1>1, <2>4, <3>1, <3>2, <3>3, PopDecides
  <2> QED BY <1>1, <2>2, <2>3, <2>4, SearchSteps
<1>2. IndInv /\ [Next]_vars => [KeepsPending]_vars
  BY <1>1
<1> QED BY <1>2, InvHolds, PTL DEF Spec, NothingDropped, KeepsPending

\* Every instruction executed writes the file of what was saved before it.
LEMMA ExecWritesDot ==
    ASSUME Exec PROVE exportDot /\ UNCHANGED <<nodes, label, savedGraph>>
BY DEF Exec, ExecBranch, BranchIgnored, BranchThrows, ExecMov, ExecCmp, ExecLdr,
       ExecLdrb, ExecNop, ExecPush, ExecPop, Return, Throw, NoJump, program, graph

\* An instruction entered adds the edge to it; nothing else touches the graph.
LEMMA FollowAddsEdge ==
    ASSUME Follow, label \in DOMAIN nodes
    PROVE  /\ phase = "follow" /\ UNCHANGED <<nodes, dot>>
           /\ \/ \E next \in DOMAIN nodes :
                   /\ savedGraph' = savedGraph \cup {<<label, next>>}
                   /\ label' = next /\ phase' = "exec"
              \/ UNCHANGED <<label, savedGraph>> /\ phase' = "returned"
<1>1. CASE TakeJump
  BY <1>1 DEF TakeJump, Enter, Exists, program
<1>2. CASE Continue \/ BreakLoop
  BY <1>2 DEF Continue, BreakLoop, FallThrough, Enter, program
<1> QED BY <1>1, <1>2 DEF Follow

\* The .dot file of the variations that write one is never more than the edge into
\* the current instruction behind the graph, at an exit not even that.
THEOREM DotIsComplete == Spec => []DotComplete
<1>1. Init => DotComplete
  BY DEF Init, InitWith, DotComplete
<1>2. ASSUME IndInv, DotComplete, [Next]_vars PROVE DotComplete'
  <2>1. CASE Exec
    BY <2>1, ExecWritesDot DEF exportDot, DotComplete
  <2>2. CASE Follow
    <3>1. label \in DOMAIN nodes
      BY <1>2 DEF IndInv, TypeOK
    <3>2. phase = "follow" /\ UNCHANGED dot
      BY <2>2, <3>1, FollowAddsEdge
    <3>3. Variant.exportsDot => savedGraph \subseteq dot
      BY <1>2, <3>2 DEF DotComplete
    <3>4. CASE \E next \in DOMAIN nodes :
                 /\ savedGraph' = savedGraph \cup {<<label, next>>}
                 /\ label' = next /\ phase' = "exec"
      BY <3>2, <3>3, <3>4 DEF DotComplete
    <3>5. CASE UNCHANGED <<label, savedGraph>> /\ phase' = "returned"
      BY <3>2, <3>3, <3>5 DEF DotComplete
    <3> QED BY <2>2, <3>1, <3>4, <3>5, FollowAddsEdge
  <2>3. CASE ReachEnd \/ StackOverflow
    BY <1>2, <2>3 DEF ReachEnd, StackOverflow, Return, Throw, exportDot, graph, DotComplete
  <2>4. CASE UNCHANGED vars
    BY <1>2, <2>4 DEF vars, graph, DotComplete
  <2> QED BY <1>2, <2>1, <2>2, <2>3, <2>4 DEF Next
<1>3. IndInv /\ DotComplete /\ [Next]_vars => DotComplete'
  BY <1>2
<1> QED BY <1>1, <1>3, InvHolds, PTL DEF Spec

\* The graph stays connected from the entry to the current instruction.
THEOREM CfgIsConnected == Spec => []CfgConnected
<1>1. Init => CfgConnected
  <2> SUFFICES ASSUME Init PROVE CfgConnected
    OBVIOUS
  <2>1. PICK code \in Programs : nodes = expand(code) /\ label = firstLabel(code)
    BY DEF Init, InitWith
  <2>2. label \in DOMAIN nodes
    BY <2>1, ExpandOK
  <2>3. label.at = 0 /\ label.suffix \in {"", "-2"}
    BY <2>1 DEF firstLabel, Plain, Minus2
  <2> QED BY <2>2, <2>3 DEF Init, InitWith, CfgConnected
<1>2. ASSUME IndInv, CfgConnected, [Next]_vars PROVE CfgConnected'
  <2>1. CASE UNCHANGED <<nodes, label, savedGraph>>
    BY <1>2, <2>1 DEF CfgConnected
  <2>2. CASE Follow
    <3>1. label \in DOMAIN nodes
      BY <1>2 DEF IndInv, TypeOK
    <3>2. CASE UNCHANGED <<label, savedGraph>>
      BY <2>1, <2>2, <3>1, <3>2, FollowAddsEdge
    <3>3. ASSUME NEW next \in DOMAIN nodes, label' = next,
                 savedGraph' = savedGraph \cup {<<label, next>>}, UNCHANGED nodes
          PROVE  CfgConnected'
      <4> DEFINE entry == {l \in DOMAIN nodes : l.at = 0 /\ l.suffix \in {"", "-2"}}
                 reached == {e[2] : e \in savedGraph}
      <4>1. /\ \A e \in savedGraph : e[1] \in entry \cup reached
            /\ reached \subseteq DOMAIN nodes
            /\ label \in entry \cup reached
        BY <1>2 DEF CfgConnected
      <4>2. reached' = reached \cup {next} /\ entry' = entry
        <5>1. entry' = entry
          BY <3>3
        <5> HIDE DEF entry
        <5>2. <<label, next>>[1] = label /\ <<label, next>>[2] = next
          OBVIOUS
        <5>3. reached' = reached \cup {next}
          BY <3>3, <5>2
        <5> QED BY <5>1, <5>3
      <4>3. \A e \in savedGraph' : e[1] \in entry \cup reached
        <5> HIDE DEF entry, reached
        <5>1. <<label, next>>[1] = label
          OBVIOUS
        <5> QED BY <3>3, <4>1, <5>1
      <4>4. /\ \A e \in savedGraph' : e[1] \in entry' \cup reached'
            /\ reached' \subseteq DOMAIN nodes'
            /\ label' \in entry' \cup reached'
        <5> HIDE DEF entry, reached
        <5> QED BY <3>3, <4>1, <4>2, <4>3
      <4> QED BY <4>4 DEF CfgConnected
    <3> QED BY <2>2, <3>1, <3>2, <3>3, FollowAddsEdge
  <2>3. CASE ReachEnd \/ StackOverflow
    BY <2>1, <2>3 DEF ReachEnd, StackOverflow, Return, Throw, graph, program
  <2>4. CASE UNCHANGED vars
    BY <2>1, <2>4 DEF vars, graph, program
  <2> QED BY <1>2, <2>1, <2>2, <2>3, <2>4, ExecWritesDot DEF Next
<1>3. IndInv /\ CfgConnected /\ [Next]_vars => CfgConnected'
  BY <1>2
<1> QED BY <1>1, <1>3, InvHolds, PTL DEF Spec

\* What is pending is only resumed, and the process only left, at a branch that is
\* stuck: with a solver that answers, at least one side of any other branch is
\* feasible and is pushed, and the last one pushed is the one popped.
THEOREM ResumedWhenStuck == Spec => ResumesWhenStuck
<1> DEFINE Goes == Len(envStack') < Len(envStack) \/ phase' = "exited"
           Allowed == phase = "exec" /\ Instr.op \in Variant.branches /\ Stuck
<1>1. ASSUME IndInv, Next, Goes PROVE Allowed
  <2>1. TypeOK /\ PendingFeasible /\ RollbackSafe /\ envStack \in Seq(Models)
    BY <1>1 DEF IndInv, TypeOK
  <2>2. ~(UNCHANGED envStack /\ phase' # "exited")
    BY <1>1, <2>1
  <2>3. ASSUME NEW map \in SUBSET Labels,
               NEW t, t.pathCondition \in SUBSET Inputs,
               NEW f, f.pathCondition \in SUBSET Inputs,
               decideToJump(t, f, map)
        PROVE  t.label \notin map /\ f.label \notin map
    <3>1. CASE t.label \in map \/ f.label \in map
      <4>1. phase' = "follow"
        BY <2>1, <2>3, <3>1, DecideCases
      <4>2. \/ envStack' = envStack
            \/ \E e \in Models : envStack' = Append(envStack, e)
        <5>1. f.label \in map => Entry(f, map) \in Models
          BY <2>3 DEF Entry, Models
        <5> QED BY <2>1, <2>3, <3>1, <5>1, DecideCases DEF Resumes
      <4>3. Len(envStack') >= Len(envStack)
        BY <2>1, <4>2
      <4>4. Len(envStack) \in Nat /\ Len(envStack') \in Nat
        BY <2>1, <4>2
      <4> QED BY <1>1, <4>1, <4>3, <4>4
    <3> QED BY <3>1
  <2>4. CASE ExecPop
    <3>1. CASE Throw \/ NoJump
      BY <2>2, <3>1 DEF Throw, NoJump, search
    <3>2. ASSUME NEW t \in Choices(Inputs), NEW map \in SUBSET Labels,
                 t.label \in map, decideToJump(t, NoModel, map)
          PROVE  FALSE
      <4>1. NoModel.pathCondition \in SUBSET Inputs /\ t.pathCondition \in SUBSET Inputs
        BY DEF NoModel, Choices
      <4> QED BY <2>3, <3>2, <4>1
    <3> QED BY <1>1, <2>4, <3>1, <3>2, PopDecides
  <2>5. CASE ExecBranch
    <3>1. PICK t \in Choices(pathCond), f \in Choices(pathCond), map \in SUBSET Labels :
            /\ t.label \in map \/ f.label \in map \/ Stuck
            /\ decideToJump(t, f, map)
      BY <1>1, <2>5, BranchDecides
    <3>2. t.pathCondition \in SUBSET Inputs /\ f.pathCondition \in SUBSET Inputs
      BY <2>1 DEF Choices, TypeOK
    <3>3. Stuck
      BY <2>3, <3>1, <3>2
    <3>4. phase = "exec" /\ Instr.op \in Variant.branches
      BY <2>5 DEF ExecBranch
    <3> QED BY <3>3, <3>4
  <2>6. ASSUME ~ExecBranch, ~ExecPop PROVE FALSE
    <3>1. UNCHANGED <<pathCond, envStack>>
      BY <1>1, <2>6, SearchSteps
    <3>2. phase' # "exited"
      <4>1. CASE Exec
        BY <2>6, <4>1 DEF Exec, BranchIgnored, BranchThrows, ExecMov, ExecCmp, ExecLdr, ExecLdrb, ExecNop,
                          ExecPush, Return, Throw, NoJump
      <4>2. CASE Follow
        BY <4>2 DEF Follow, TakeJump, Continue, BreakLoop, FallThrough, Enter
      <4> QED BY <1>1, <4>1, <4>2 DEF Next, ReachEnd, StackOverflow, Return, Throw
    <3> QED BY <2>2, <3>1, <3>2
  <2> QED BY <2>4, <2>5, <2>6
<1>2. IndInv /\ [Next]_vars => [Goes => Allowed]_vars
  BY <1>1
<1> QED BY <1>2, InvHolds, PTL DEF Spec, ResumesWhenStuck

=============================================================================
