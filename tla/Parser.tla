-------------------------------- MODULE Parser --------------------------------
(***************************************************************************)
(* executor/BinParser.java: the loops of parse, which execute uses, and of *)
(* parseInstruction, which byteExecute uses.  Each reads a word, has       *)
(* capstone disassemble it at `label', and takes the mnemonic apart into   *)
(* opcode, condition and the suffix s.                                     *)
(*                                                                         *)
(* A word is an ARM instruction, given by what its mnemonic is made of and *)
(* the word it branches to, or one that capstone refuses.                  *)
(***************************************************************************)
EXTENDS Integers, Sequences

CONSTANTS
    Length,       \* the number of words
    WordsAt,      \* the words that may be at each position
    Undecodable   \* a word capstone refuses

InstructionSize == 4

Positions == 0..(Length - 1)

ASSUME ParserAssumption ==
    /\ Length \in Nat /\ DOMAIN WordsAt = Positions
    /\ \A p \in Positions : \A w \in WordsAt[p] \ {Undecodable} :
          w \in [base : STRING, s : BOOLEAN, cond : STRING, jump : Int]

\* enums/CondSuffix
CondSuffix == {"eq", "ne", "cs", "hs", "cc", "lo", "mi", "pl", "vs", "vc", "hi", "ls",
               "ge", "lt", "gt", "le", "al"}

\* The public methods of the class Emulator, without those of its subclasses.
EmulatorMethods == {"adc", "add", "and", "b", "bic", "bl", "bx", "cmn", "cmp", "eor", "ldr",
                    "ldrb", "ldrh", "mvn", "orr", "pop", "push", "rsb", "str", "strb",
                    "strh", "sub"}

\* The opcodes a singleExec has a handler for.
Handled == EmulatorMethods \cup
           {"asr", "blx", "lsl", "lsr", "mov", "movt", "movw", "mul", "nop", "smull", "stmib",
            "svc", "umull", "vpop", "vpush"}

VARIABLES
    mode,      \* the method at work
    position,  \* i, counted in words
    label,     \* the address given to capstone
    nodes,     \* asmNodes, each with the position and the word it was decoded from
    gaps       \* the positions of the words that were not decoded

vars == <<mode, position, label, nodes, gaps>>

Init ==
    /\ mode \in {"parse", "parseInstruction"}
    /\ position = 0 /\ label = 0
    /\ nodes = << >> /\ gaps = {}

-----------------------------------------------------------------------------
\* What capstone prints: the suffix s comes before the condition, and a branch
\* names an absolute address.
mnemonic(w) == w.base \o (IF w.s THEN "s" ELSE "") \o w.cond
target(w) == label + InstructionSize * w.jump

Last(str, n) == SubSeq(str, Len(str) - n + 1, Len(str))
But(str, n) == SubSeq(str, 1, Len(str) - n)

\* Mutant: parseInstruction treats "ls" like any other condition.
TakesCondPlainly(m) == Len(m) >= 3 /\ Last(m, 2) \in CondSuffix

\* Is the end of the mnemonic taken for its condition?  parseInstruction leaves "ls"
\* alone unless what precedes it is a method of Emulator.
TakesCond(m) ==
    /\ Len(m) >= 3 /\ Last(m, 2) \in CondSuffix
    /\ mode = "parseInstruction" /\ Last(m, 2) = "ls" => But(m, 2) \in EmulatorMethods

\* Mutant: the suffix s is cut off first.
takeApartFlagFirst(m) ==
    LET flag == Last(m, 1) = "s"
        rest == IF flag THEN But(m, 1) ELSE m
        cut == TakesCond(rest)
    IN  [opcode |-> IF cut THEN But(rest, 2) ELSE rest,
         condSuffix |-> IF cut THEN Last(rest, 2) ELSE "",
         updateFlag |-> flag]

takeApart(m) ==
    LET cut == TakesCond(m)
        rest == IF cut THEN But(m, 2) ELSE m
        flag == Last(rest, 1) = "s"
    IN  [opcode |-> IF flag THEN But(rest, 1) ELSE rest,
         condSuffix |-> IF cut THEN Last(m, 2) ELSE "",
         updateFlag |-> flag]

DecodeWord(w) ==
    /\ nodes' = Append(nodes, [label |-> label, name |-> takeApart(mnemonic(w)),
                               target |-> target(w), position |-> position, word |-> w])
    /\ label' = label + InstructionSize
    /\ gaps' = gaps

\* Mutant: parseInstruction does not count the word either.
SkipWordUncounted ==
    /\ label' = label
    /\ gaps' = gaps \cup {position}
    /\ nodes' = nodes

\* An empty answer of capstone: only parseInstruction counts the word.
SkipWord ==
    /\ label' = IF mode = "parse" THEN label ELSE label + InstructionSize
    /\ gaps' = gaps \cup {position}
    /\ nodes' = nodes

ReadWord ==
    /\ position \in Positions
    /\ \E w \in WordsAt[position] :
         \/ w # Undecodable /\ DecodeWord(w)
         \/ w = Undecodable /\ SkipWord
    /\ position' = position + 1
    /\ UNCHANGED mode

Next == ReadWord

Spec == Init /\ [][Next]_vars

-----------------------------------------------------------------------------
(***************************************************************************)
(* Properties                                                              *)
(***************************************************************************)
ReadAs(n) == n.name = [opcode |-> n.word.base, condSuffix |-> n.word.cond,
                       updateFlag |-> n.word.s]

\* A mnemonic is never read as an instruction that singleExec would execute in its
\* place: what takeApart gets wrong has no handler, and is ignored.
NeverMistaken ==
    \A k \in DOMAIN nodes : nodes[k].name.opcode \in Handled => ReadAs(nodes[k])

\* The instructions that have a handler and do not reach it are these: svc; adcs,
\* bics and movs; the s forms on l, and in byteExecute instead the condition ls after
\* s or on an instruction that only the subclasses of Emulator implement.
Lost(w) ==
    \/ w.cond = "" /\ w.base = "svc"
    \/ w.cond = "" /\ w.s /\ w.base \in {"adc", "bic", "mov"}
    \/ mode = "parse" /\ w.cond = "" /\ w.s /\ w.base \in {"lsl", "mul", "smull", "umull"}
    \/ mode = "parseInstruction" /\ w.cond = "ls" /\ (w.s \/ w.base \notin EmulatorMethods)

ReadUnlessLost ==
    \A k \in DOMAIN nodes :
        nodes[k].word.base \in Handled => (ReadAs(nodes[k]) <=> ~Lost(nodes[k].word))

\* The address a branch names is the label of the instruction it branches to, in
\* parseInstruction always, in parse exactly if every word between the two was
\* decoded: after an undecodable word the labels have fallen behind the addresses.
TargetsResolve ==
    \A j, k \in DOMAIN nodes :
        LET from == nodes[j].position
            to == nodes[k].position
            between == {p \in gaps : (from < p /\ p < to) \/ (to < p /\ p < from)}
        IN  nodes[j].word.jump # 0 /\ to = from + nodes[j].word.jump =>
              (nodes[j].target = nodes[k].label
                 <=> mode = "parseInstruction" \/ between = {})

=============================================================================
