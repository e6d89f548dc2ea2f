----------------------------- MODULE ParserProofs -----------------------------
(***************************************************************************)
(* The labels that the two decoding loops of BinParser give, for code of   *)
(* any length with undecodable words anywhere in it.                       *)
(***************************************************************************)
EXTENDS Parser, TLAPS

-----------------------------------------------------------------------------
(***************************************************************************)
(* The inductive invariant                                                 *)
(***************************************************************************)
GapBetween(holes, p, q) == \E g \in holes : p < g /\ g < q

\* Label l at position p and label m at the later position q: parseInstruction keeps
\* the distance of the addresses; parse falls behind by every gap between the two.
InStep(method, holes, p, l, q, m) ==
    /\ method = "parseInstruction" => m - l = InstructionSize * (q - p)
    /\ method = "parse" =>
         /\ m - l <= InstructionSize * (q - p)
         /\ m - l = InstructionSize * (q - p) <=> ~GapBetween(holes, p, q)

NodesInStep ==
    \A j, k \in DOMAIN nodes : j < k =>
        /\ nodes[j].position < nodes[k].position
        /\ InStep(mode, gaps, nodes[j].position, nodes[j].label,
                  nodes[k].position, nodes[k].label)

LoopInStep ==
    \A j \in DOMAIN nodes :
        InStep(mode, gaps, nodes[j].position, nodes[j].label, position, label)

NodesRead ==
    /\ \E S : nodes \in Seq(S)
    /\ \A k \in DOMAIN nodes :
          /\ nodes[k].position \in 0..(position - 1)
          /\ nodes[k].label \in Int /\ nodes[k].word.jump \in Int
          /\ nodes[k].target = nodes[k].label + InstructionSize * nodes[k].word.jump

ParserInv ==
    /\ mode \in {"parse", "parseInstruction"}
    /\ position \in Nat /\ label \in Int
    /\ gaps \subseteq 0..(position - 1)
    /\ NodesRead
    /\ NodesInStep
    /\ LoopInStep

-----------------------------------------------------------------------------
(***************************************************************************)
(* Two positions, when the loop moves on                                   *)
(***************************************************************************)
\* A gap at the position of the loop is not between two positions behind it.
LEMMA EarlierPair ==
    ASSUME NEW method, NEW at \in Nat, NEW holes \in SUBSET (0..(at - 1)),
           NEW p \in 0..at, NEW q \in 0..at, NEW l, NEW m,
           InStep(method, holes, p, l, q, m)
    PROVE  InStep(method, holes \cup {at}, p, l, q, m)
<1>1. GapBetween(holes \cup {at}, p, q) <=> GapBetween(holes, p, q)
  BY DEF GapBetween
<1> QED BY <1>1, Zenon DEF InStep

\* A decoded word moves the label as far as the position.
LEMMA PairDecodes ==
    ASSUME NEW method, NEW at \in Nat, NEW holes \in SUBSET (0..(at - 1)),
           NEW p \in 0..(at - 1), NEW l \in Int, NEW m \in Int,
           InStep(method, holes, p, l, at, m)
    PROVE  InStep(method, holes, p, l, at + 1, m + InstructionSize)
<1>1. GapBetween(holes, p, at + 1) <=> GapBetween(holes, p, at)
  BY DEF GapBetween
<1>2. (m + InstructionSize) - l = InstructionSize * ((at + 1) - p)
        <=> m - l = InstructionSize * (at - p)
  BY DEF InstructionSize
<1>3. (m + InstructionSize) - l <= InstructionSize * ((at + 1) - p)
        <=> m - l <= InstructionSize * (at - p)
  BY DEF InstructionSize
<1> QED BY <1>1, <1>2, <1>3, Zenon DEF InStep

\* A skipped word leaves a gap, and parse's label behind.
LEMMA PairSkips ==
    ASSUME NEW method \in {"parse", "parseInstruction"}, NEW at \in Nat,
           NEW holes \in SUBSET (0..(at - 1)),
           NEW p \in 0..(at - 1), NEW l \in Int, NEW m \in Int,
           InStep(method, holes, p, l, at, m)
    PROVE  InStep(method, holes \cup {at}, p, l, at + 1,
                  IF method = "parse" THEN m ELSE m + InstructionSize)
<1>1. CASE method = "parse"
  <2>1. GapBetween(holes \cup {at}, p, at + 1)
    BY DEF GapBetween
  <2>2. m - l <= InstructionSize * (at - p)
    BY <1>1, Zenon DEF InStep
  <2>3. m - l <= InstructionSize * ((at + 1) - p) /\ m - l # InstructionSize * ((at + 1) - p)
    BY <2>2 DEF InstructionSize
  <2>4. method # "parseInstruction"
    BY <1>1
  <2> QED BY <1>1, <2>1, <2>3, <2>4, Zenon DEF InStep
<1>2. CASE method = "parseInstruction"
  <2>1. method # "parse"
    BY <1>2
  <2>2. m - l = InstructionSize * (at - p)
    BY <1>2, Zenon DEF InStep
  <2>3. (m + InstructionSize) - l = InstructionSize * ((at + 1) - p)
    BY <2>2 DEF InstructionSize
  <2> QED BY <2>1, <2>3, Zenon DEF InStep
<1> QED BY <1>1, <1>2

\* A node and the loop that has just read it.
LEMMA PairStarts ==
    ASSUME NEW method, NEW at \in Nat, NEW holes \in SUBSET (0..(at - 1)), NEW m \in Int
    PROVE  InStep(method, holes, at, m, at + 1, m + InstructionSize)
<1>1. ~GapBetween(holes, at, at + 1)
  BY DEF GapBetween
<1>2. (m + InstructionSize) - m = InstructionSize * ((at + 1) - at)
  BY DEF InstructionSize
<1>3. (m + InstructionSize) - m <= InstructionSize * ((at + 1) - at)
  BY DEF InstructionSize
<1> QED BY <1>1, <1>2, <1>3, Zenon DEF InStep

-----------------------------------------------------------------------------
(***************************************************************************)
(* One word is read                                                        *)
(***************************************************************************)
\* A decoded word takes the position and the label of the loop.
LEMMA DecodeStep ==
    ASSUME ParserInv, position \in Positions,
           NEW w \in WordsAt[position], w # Undecodable, DecodeWord(w),
           position' = position + 1, UNCHANGED mode
    PROVE  ParserInv'
<1> DEFINE node == [label |-> label, name |-> takeApart(mnemonic(w)),
                    target |-> target(w), position |-> position, word |-> w]
           n == Len(nodes) + 1
<1>1. nodes' = Append(nodes, node) /\ label' = label + InstructionSize /\ gaps' = gaps
  BY Zenon DEF DecodeWord
<1>2. /\ node.label = label /\ node.position = position /\ node.word = w
      /\ node.target = label + InstructionSize * w.jump
  BY Zenon DEF target
<1>3. w.jump \in Int
  BY ParserAssumption
<1> HIDE DEF node
<1>4. PICK S : nodes \in Seq(S)
  BY DEF ParserInv, NodesRead
<1>5. /\ nodes' \in Seq(S \cup {node})
      /\ Len(nodes) \in Nat /\ DOMAIN nodes = 1..(n - 1) /\ DOMAIN nodes' = 1..n
      /\ nodes'[n] = node
      /\ \A k \in 1..(n - 1) : nodes'[k] = nodes[k]
  BY <1>1, <1>4
<1>6. n \in Nat
  BY <1>5
<1> HIDE DEF n
<1>7. /\ position \in Nat /\ label \in Int /\ gaps \in SUBSET (0..(position - 1))
      /\ position' \in Nat /\ label' \in Int /\ gaps' \subseteq 0..(position' - 1)
  BY <1>1 DEF ParserInv, InstructionSize
<1>8. \A k \in 1..(n - 1) : nodes[k].position \in 0..(position - 1) /\ nodes[k].label \in Int
  BY <1>5 DEF ParserInv, NodesRead
<1>9. NodesRead'
  <2>1. \E T : nodes' \in Seq(T)
    BY <1>5
  <2>2. ASSUME NEW k \in DOMAIN nodes'
        PROVE  /\ nodes'[k].position \in 0..(position' - 1)
               /\ nodes'[k].label \in Int /\ nodes'[k].word.jump \in Int
               /\ nodes'[k].target = nodes'[k].label + InstructionSize * nodes'[k].word.jump
    <3>1. CASE k = n
      BY <1>2, <1>3, <1>5, <1>7, <3>1
    <3>2. CASE k \in 1..(n - 1)
      <4>1. nodes'[k] = nodes[k] /\ k \in DOMAIN nodes
        BY <1>5, <3>2
      <4>2. nodes[k].position \in 0..(position' - 1)
        BY <1>7, <1>8, <3>2
      <4> QED BY <4>1, <4>2, Zenon DEF ParserInv, NodesRead
    <3> QED BY <1>5, <1>6, <3>1, <3>2
  <2> QED BY <2>1, <2>2 DEF NodesRead
<1>10. NodesInStep'
  <2> SUFFICES ASSUME NEW j \in DOMAIN nodes', NEW k \in DOMAIN nodes', j < k
               PROVE  /\ nodes'[j].position < nodes'[k].position
                      /\ InStep(mode', gaps', nodes'[j].position, nodes'[j].label,
                                nodes'[k].position, nodes'[k].label)
    BY Zenon DEF NodesInStep
  <2>1. j \in 1..(n - 1) /\ nodes'[j] = nodes[j] /\ j \in DOMAIN nodes
    BY <1>5, <1>6
  <2>2. CASE k = n
    <3>1. nodes'[k].position = position /\ nodes'[k].label = label
      BY <1>2, <1>5, <2>2
    <3>2. InStep(mode, gaps, nodes[j].position, nodes[j].label, position, label)
      BY <2>1, Zenon DEF ParserInv, LoopInStep
    <3>3. nodes[j].position < position
      BY <1>7, <1>8, <2>1
    <3> QED BY <1>1, <2>1, <3>1, <3>2, <3>3, Zenon
  <2>3. CASE k \in 1..(n - 1)
    <3>1. nodes'[k] = nodes[k] /\ k \in DOMAIN nodes
      BY <1>5, <2>3
    <3> QED BY <1>1, <2>1, <3>1, Zenon DEF ParserInv, NodesInStep
  <2> QED BY <1>5, <1>6, <2>2, <2>3
<1>11. LoopInStep'
  <2> SUFFICES ASSUME NEW j \in DOMAIN nodes'
               PROVE  InStep(mode', gaps', nodes'[j].position, nodes'[j].label,
                             position', label')
    BY Zenon DEF LoopInStep
  <2>1. CASE j = n
    <3>1. nodes'[j].position = position /\ nodes'[j].label = label
      BY <1>2, <1>5, <2>1
    <3>2. InStep(mode, gaps, position, label, position + 1, label + InstructionSize)
      BY <1>7, PairStarts, Zenon
    <3> QED BY <1>1, <3>1, <3>2, Zenon
  <2>2. CASE j \in 1..(n - 1)
    <3>1. nodes'[j] = nodes[j] /\ j \in DOMAIN nodes
      BY <1>5, <2>2
    <3>2. InStep(mode, gaps, nodes[j].position, nodes[j].label, position, label)
      BY <3>1, Zenon DEF ParserInv, LoopInStep
    <3>3. InStep(mode, gaps, nodes[j].position, nodes[j].label,
                 position + 1, label + InstructionSize)
      BY <1>7, <1>8, <2>2, <3>2, PairDecodes, Zenon
    <3> QED BY <1>1, <3>1, <3>3, Zenon
  <2> QED BY <1>5, <1>6, <2>1, <2>2
<1>12. mode' \in {"parse", "parseInstruction"}
  BY DEF ParserInv
<1> QED BY <1>7, <1>9, <1>10, <1>11, <1>12, Zenon DEF ParserInv

\* An undecodable word leaves a gap; the nodes read before it stay as they are.
LEMMA SkipStep ==
    ASSUME ParserInv, SkipWord, position' = position + 1, UNCHANGED mode
    PROVE  ParserInv'
<1>1. /\ label' = IF mode = "parse" THEN label ELSE label + InstructionSize
      /\ gaps' = gaps \cup {position} /\ nodes' = nodes
  BY Zenon DEF SkipWord
<1>2. /\ position \in Nat /\ label \in Int /\ gaps \in SUBSET (0..(position - 1))
      /\ mode \in {"parse", "parseInstruction"}
  BY DEF ParserInv
<1>3. position' \in Nat /\ label' \in Int /\ gaps' \subseteq 0..(position' - 1)
  BY <1>1, <1>2 DEF InstructionSize
<1>4. \A k \in DOMAIN nodes :
         nodes[k].position \in 0..(position - 1) /\ nodes[k].label \in Int
  BY Zenon DEF ParserInv, NodesRead
<1>5. \A x \in 0..(position - 1) : x \in 0..(position' - 1) /\ x \in 0..position
  BY <1>2
<1>6. NodesRead'
  BY <1>1, <1>5, Zenon DEF ParserInv, NodesRead
<1>7. NodesInStep'
  <2> SUFFICES ASSUME NEW j \in DOMAIN nodes, NEW k \in DOMAIN nodes, j < k
               PROVE  /\ nodes[j].position < nodes[k].position
                      /\ InStep(mode, gaps \cup {position}, nodes[j].position, nodes[j].label,
                                nodes[k].position, nodes[k].label)
    BY <1>1, Zenon DEF NodesInStep
  <2>1. /\ nodes[j].position < nodes[k].position
        /\ InStep(mode, gaps, nodes[j].position, nodes[j].label,
                  nodes[k].position, nodes[k].label)
    BY Zenon DEF ParserInv, NodesInStep
  <2> QED BY <1>2, <1>4, <1>5, <2>1, EarlierPair, Zenon
<1>8. LoopInStep'
  <2> SUFFICES ASSUME NEW j \in DOMAIN nodes
               PROVE  InStep(mode, gaps \cup {position}, nodes[j].position, nodes[j].label,
                             position + 1,
                             IF mode = "parse" THEN label ELSE label + InstructionSize)
    BY <1>1, Zenon DEF LoopInStep
  <2>1. InStep(mode, gaps, nodes[j].position, nodes[j].label, position, label)
    BY Zenon DEF ParserInv, LoopInStep
  <2> QED BY <1>2, <1>4, <2>1, PairSkips, Zenon
<1> QED BY <1>2, <1>3, <1>6, <1>7, <1>8, Zenon DEF ParserInv

-----------------------------------------------------------------------------
(***************************************************************************)
(* The theorems                                                            *)
(***************************************************************************)
\* Both loops of BinParser keep the distance of two labels equal to the distance of
\* the words, but parse falls behind by each undecodable word between them.
THEOREM ParserInvHolds == Spec => []ParserInv
<1>1. Init => ParserInv
  <2> SUFFICES ASSUME Init PROVE ParserInv
    OBVIOUS
  <2>1. nodes = << >> /\ position = 0 /\ label = 0 /\ gaps = {}
        /\ mode \in {"parse", "parseInstruction"}
    BY DEF Init
  <2>2. nodes \in Seq({}) /\ DOMAIN nodes = {}
    BY <2>1
  <2> QED BY <2>1, <2>2 DEF ParserInv, NodesRead, NodesInStep, LoopInStep
<1>2. ParserInv /\ [Next]_vars => ParserInv'
  <2> SUFFICES ASSUME ParserInv, [Next]_vars PROVE ParserInv'
    OBVIOUS
  <2>1. CASE ReadWord
    <3>1. position \in Positions /\ position' = position + 1 /\ UNCHANGED mode
      BY <2>1 DEF ReadWord
    <3>2. PICK w \in WordsAt[position] : \/ w # Undecodable /\ DecodeWord(w)
                                         \/ w = Undecodable /\ SkipWord
      BY <2>1, Zenon DEF ReadWord
    <3> QED BY <3>1, <3>2, DecodeStep, SkipStep, Zenon
  <2>2. CASE UNCHANGED vars
    BY <2>2, Zenon DEF vars, ParserInv, NodesRead, NodesInStep, LoopInStep
  <2> QED BY <2>1, <2>2 DEF Next
<1> QED BY <1>1, <1>2, PTL DEF Spec

\* A branch finds the instruction it names: always in parseInstruction, in parse
\* exactly if no word between the two was refused by capstone.
THEOREM BranchTargetsResolve == Spec => []TargetsResolve
<1>1. ParserInv => TargetsResolve
  <2> SUFFICES ASSUME ParserInv, NEW j \in DOMAIN nodes, NEW k \in DOMAIN nodes,
                      nodes[j].word.jump # 0,
                      nodes[k].position = nodes[j].position + nodes[j].word.jump
               PROVE  nodes[j].target = nodes[k].label
                        <=> mode = "parseInstruction"
                            \/ {p \in gaps : \/ nodes[j].position < p /\ p < nodes[k].position
                                             \/ nodes[k].position < p /\ p < nodes[j].position}
                               = {}
    BY Zenon DEF TargetsResolve
  <2> DEFINE from == nodes[j].position
             to == nodes[k].position
             jump == nodes[j].word.jump
             l == nodes[j].label
             m == nodes[k].label
             between == {p \in gaps : (from < p /\ p < to) \/ (to < p /\ p < from)}
  <2>1. PICK S : nodes \in Seq(S)
    BY DEF ParserInv, NodesRead
  <2>2. j \in Int /\ k \in Int
    BY <2>1
  <2>3. /\ from \in Nat /\ to \in Nat /\ jump \in Int /\ l \in Int /\ m \in Int
        /\ nodes[j].target = l + InstructionSize * jump
        /\ to = from + jump /\ jump # 0 /\ from # to
        /\ mode \in {"parse", "parseInstruction"}
        /\ \A g \in gaps : g \in Int
    <3>1. position \in Nat
      BY DEF ParserInv
    <3>2. from \in 0..(position - 1) /\ to \in 0..(position - 1)
      BY Zenon DEF ParserInv, NodesRead
    <3>3. /\ jump \in Int /\ l \in Int /\ m \in Int
          /\ nodes[j].target = l + InstructionSize * jump
      BY Zenon DEF ParserInv, NodesRead
    <3>4. \A g \in gaps : g \in Int
      BY <3>1 DEF ParserInv
    <3>5. from \in Nat /\ to \in Nat
      BY <3>1, <3>2
    <3>6. from # to
      BY <3>3, <3>5
    <3> QED BY <3>3, <3>4, <3>5, <3>6 DEF ParserInv
  <2>4. j # k
    BY <2>3
  <2>5. /\ j < k => from < to /\ InStep(mode, gaps, from, l, to, m)
        /\ k < j => to < from /\ InStep(mode, gaps, to, m, from, l)
    BY Zenon DEF ParserInv, NodesInStep
  <2> HIDE DEF from, to, jump, l, m
  <2>6. /\ m - l = InstructionSize * (to - from) <=> l + InstructionSize * jump = m
        /\ l - m = InstructionSize * (from - to) <=> l + InstructionSize * jump = m
    BY <2>3 DEF InstructionSize
  <2>7. CASE j < k
    <3>1. ~GapBetween(gaps, from, to) <=> between = {}
      BY <2>3, <2>5, <2>7 DEF GapBetween
    <3>2. InStep(mode, gaps, from, l, to, m)
      BY <2>5, <2>7
    <3> HIDE DEF between
    <3>3. CASE mode = "parseInstruction"
      BY <2>3, <2>6, <3>2, <3>3, Zenon DEF InStep, from, to, m, between
    <3>4. CASE mode = "parse"
      <4>1. mode # "parseInstruction"
        BY <3>4
      <4> QED BY <2>3, <2>6, <3>1, <3>2, <3>4, <4>1, Zenon DEF InStep, from, to, m, between
    <3> QED BY <2>3, <3>3, <3>4
  <2>8. CASE k < j
    <3>1. ~GapBetween(gaps, to, from) <=> between = {}
      BY <2>3, <2>5, <2>8 DEF GapBetween
    <3>2. InStep(mode, gaps, to, m, from, l)
      BY <2>5, <2>8
    <3> HIDE DEF between
    <3>3. CASE mode = "parseInstruction"
      BY <2>3, <2>6, <3>2, <3>3, Zenon DEF InStep, from, to, m, between
    <3>4. CASE mode = "parse"
      <4>1. mode # "parseInstruction"
        BY <3>4
      <4> QED BY <2>3, <2>6, <3>1, <3>2, <3>4, <4>1, Zenon DEF InStep, from, to, m, between
    <3> QED BY <2>3, <3>3, <3>4
  <2> QED BY <2>2, <2>4, <2>7, <2>8
<1> QED BY <1>1, ParserInvHolds, PTL

=============================================================================
