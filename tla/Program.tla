------------------------------- MODULE Program -------------------------------
(***************************************************************************)
(* The program Corana explores: labels, instructions (pojos/AsmNode) and   *)
(* the expansion of conditional instructions (BinParser.expand).           *)
(*                                                                         *)
(* The code names an instruction by a string: the decimal address ("8"),   *)
(* or, for the two nodes that `expand' invents around a conditional        *)
(* instruction, "8-2" and "8+2".  A label is kept as the pair of address   *)
(* and suffix, which is all that the string functions below look at.       *)
(***************************************************************************)
EXTENDS Integers, Sequences

InstructionSize == 4

Suffixes == {"", "-2", "+2", "name"}

Labels == [at : Nat, suffix : Suffixes]

\* What z3 prints for a register that its model leaves open: the register's name,
\* a string that is the label of no instruction.
Unevaluated == [at |-> 0, suffix |-> "name"]

\* The null String of a model whose destination was not found.
NoLabel == [at |-> 0, suffix |-> "null"]

Plain(a) == [at |-> a, suffix |-> ""]
Minus2(a) == [at |-> a, suffix |-> "-2"]
Plus2(a) == [at |-> a, suffix |-> "+2"]

(***************************************************************************)
(* nextInst and prevInst call Integer.parseInt, which throws on "8+2" and  *)
(* "8-2": HasNext and HasPrev say when they return.  prevInst replaces "+" *)
(* by "-" without parsing; its only caller then parses the result, so it   *)
(* is the caller's parse that fails on a label with a suffix.              *)
(***************************************************************************)
HasNext(l) == l.suffix \in {"", "-2"}

nextInst(l) == IF l.suffix = "-2" THEN Plus2(l.at)
                                  ELSE Plain(l.at + InstructionSize)

HasPrev(l) == l.suffix = ""

prevAddress(l) == l.at - InstructionSize

(***************************************************************************)
(* Instructions.  `target' is the label of a direct branch and NoLabel     *)
(* otherwise; `regs' lists the registers named; `num' is an immediate.     *)
(***************************************************************************)
BranchOps == {"b", "bl", "bx", "blx"}
Ops == BranchOps \cup {"mov", "cmp", "ldr", "ldrb", "push", "pop", "nop"}
Conds == {"", "eq", "ne"}
Regs == {"r0", "lr"}

Instructions == [op : Ops, cond : Conds, target : (Labels \ {Unevaluated}) \cup {NoLabel},
                 regs : Seq(Regs \cup {"pc"}), num : Nat]

Unconditional(n) == [n EXCEPT !.cond = ""]

Branch(cond, target) == [op |-> "b", cond |-> cond, target |-> target,
                         regs |-> << >>, num |-> 0]

(***************************************************************************)
(* BinParser.expand: a conditional instruction that is not a branch, at L, *)
(* becomes  L-2: the instruction without its condition;  L: b<cond> L-2;   *)
(* L+2: b L+4.  The list keeps that order, so the first node of a code     *)
(* that begins with a conditional instruction is "0-2".                    *)
(***************************************************************************)
Guarded(n) == n.cond # "" /\ n.op \notin BranchOps

GuardedAt(code) == {a \in DOMAIN code : Guarded(code[a])}

\* Mutant: the jump over a guarded instruction skips the next one too.
expandSkipsTwo(code) ==
    [l \in {Plain(a) : a \in DOMAIN code}
              \cup {Minus2(a) : a \in GuardedAt(code)}
              \cup {Plus2(a) : a \in GuardedAt(code)} |->
        CASE l.suffix = "-2" -> Unconditional(code[l.at])
          [] l.suffix = "+2" -> Branch("", Plain(l.at + 2 * InstructionSize))
          [] OTHER -> IF Guarded(code[l.at])
                        THEN Branch(code[l.at].cond, Minus2(l.at))
                        ELSE code[l.at]]

expand(code) ==
    [l \in {Plain(a) : a \in DOMAIN code}
              \cup {Minus2(a) : a \in GuardedAt(code)}
              \cup {Plus2(a) : a \in GuardedAt(code)} |->
        CASE l.suffix = "-2" -> Unconditional(code[l.at])
          [] l.suffix = "+2" -> Branch("", Plain(l.at + InstructionSize))
          [] OTHER -> IF Guarded(code[l.at])
                        THEN Branch(code[l.at].cond, Minus2(l.at))
                        ELSE code[l.at]]

\* Does the operand of a direct branch read as an address?  The branches that expand
\* invents hold "0x4" and "8-2"; capstone prints an address with 0x only above its
\* threshold.
isConcreteLabel(l, target, threshold) ==
    l.suffix = "+2" \/ target.suffix # "" \/ target.at > threshold

\* asmNodes.get(0).getLabel(), where both execute and byteExecute start.
firstLabel(code) == IF Guarded(code[0]) THEN Minus2(0) ELSE Plain(0)

=============================================================================
