--------------------------------- MODULE Alu ---------------------------------
(***************************************************************************)
(* Data processing in the variations M3, M4, M7 and M33: the handlers of   *)
(* singleExec from bic to cmn, the instruction methods of the cortex       *)
(* classes they call, and the bit-vector operators of Emulator, run beside *)
(* an ARM core for every input.                                            *)
(*                                                                         *)
(* A BitVec has a formula, kept as a function on Inputs, and a concrete    *)
(* half.  Its kind says what its text is: "literal" (#x...), "formula", or *)
(* "ill", a formula over a 64-bit literal, which z3 rejects.  The words    *)
(* are W bits wide, where the code has 32.                                 *)
(*                                                                         *)
(* The operators depart from ARM in known cases, and only there.  `doubt'  *)
(* is the set of inputs on which a value went through one of these cases,  *)
(* `split' says that its halves did; these, `flagged', `compared' and      *)
(* `executed' are history, not code.                                       *)
(***************************************************************************)
EXTENDS Integers, FiniteSetsExt

CONSTANTS
    W,             \* Configs.architecture
    Inputs,        \* assignments to the registers and to the carry flag on entry
    Zero,          \* the assignment the concrete halves start from
    Instructions,  \* the instructions that may be executed
    MaxSteps       \* bound on the instructions executed

M == 2 ^ W
Word == 0..(M - 1)
Regs == {"r0", "r1"}

Ops == {"mov", "mvn", "add", "adc", "sub", "rsb", "and", "bic", "orr", "eor", "mul",
        "lsl", "lsr", "asr", "cmp", "cmn"}

\* An immediate shift is by at most W: ARM has no encoding for more.
ASSUME AluAssumption ==
    /\ W \in {n \in Nat : n >= 4 /\ n % 4 = 0}
    /\ Inputs \subseteq [r0 : Word, r1 : Word, c : BOOLEAN]
    /\ Zero = [r0 |-> 0, r1 |-> 0, c |-> FALSE] /\ Zero \in Inputs
    /\ Instructions \subseteq
         [op : Ops, rd : Regs, rn : Regs, src : Regs \cup {"imm"}, imm : Word,
          extra : {"", "lsl", "lsr", "asr", "ror", "rrx"}, amount : 0..(W - 1), s : BOOLEAN]
    /\ \A n \in Instructions : n.op \in {"lsl", "lsr", "asr"} => n.imm <= W
    /\ MaxSteps \in Nat

(***************************************************************************)
(* Words                                                                   *)
(***************************************************************************)
Bit(x, k) == (x \div 2 ^ k) % 2
AndTable == [x, y \in Word |->
               MapThenSumSet(LAMBDA k : Bit(x, k) * Bit(y, k) * 2 ^ k, 0..(W - 1))]
And(x, y) == AndTable[x, y]
Not(x) == M - 1 - x
Or(x, y) == Not(And(Not(x), Not(y)))
Xor(x, y) == And(Or(x, y), Not(And(x, y)))
Add(x, y) == (x + y) % M
Sub(x, y) == (x - y) % M
Negative(x) == x >= M \div 2
Signed(x) == IF Negative(x) THEN x - M ELSE x
MinWord == M \div 2
Shl(x, n) == (x * 2 ^ n) % M
Lshr(x, n) == x \div 2 ^ n
Ashr(x, n) == (Signed(x) \div 2 ^ n) % M

VARIABLES
    regs,     \* env.register
    flags,    \* env.flags: for each flag its formula and its concrete value
    machine,  \* for each input, the ARM core that runs on it
    compared, \* for each input, the operands of the cmp that left the flags, or None
    flagged,  \* the doubt and the split of the result that left N and Z
    status,   \* "running", or "thrown" by an exception
    steps,    \* how many instructions were executed
    executed  \* and which

vars == <<regs, flags, machine, compared, flagged, status, steps, executed>>

None == << >>

Init ==
    /\ regs = [r \in Regs |-> [kind |-> "formula", sym |-> [i \in Inputs |-> i[r]], val |-> 0,
                               doubt |-> {}, split |-> FALSE]]
    /\ flags = [f \in {"N", "Z", "C", "V"} |->
                  [set |-> IF f = "C" THEN {i \in Inputs : i.c} ELSE {}, val |-> FALSE]]
    /\ machine = [i \in Inputs |-> [r0 |-> i.r0, r1 |-> i.r1, N |-> FALSE, Z |-> FALSE,
                                    C |-> i.c, V |-> FALSE]]
    /\ compared = [i \in Inputs |-> None]
    /\ flagged = [doubt |-> {}, split |-> FALSE]
    /\ status = "running"
    /\ steps = 0
    /\ executed = {}

-----------------------------------------------------------------------------
(***************************************************************************)
(* BitVec and the operators of Emulator                                    *)
(***************************************************************************)
Literal(n) == [kind |-> "literal", sym |-> [i \in Inputs |-> n], val |-> n,
               doubt |-> {}, split |-> FALSE]

\* new BitVec(symVal, conVal): z3 folds a formula on literals to a literal, and
\* getVal then reads the concrete half off the text.
BitVec(sym, val, operands, doubt, split) ==
    LET kinds == {v.kind : v \in operands}
        folded == kinds = {"literal"}
    IN  [kind |-> IF folded THEN "literal" ELSE IF "ill" \in kinds THEN "ill" ELSE "formula",
         sym |-> sym,
         val |-> IF folded THEN sym[Zero] ELSE val,
         doubt |-> doubt \cup UNION {v.doubt : v \in operands},
         split |-> ~folded /\ (split \/ \E v \in operands : v.split)]

add(a, b) == BitVec([i \in Inputs |-> Add(a.sym[i], b.sym[i])], Add(a.val, b.val),
                    {a, b}, {}, FALSE)
\* Mutant: the concrete half is the difference the other way round.
subReversed(a, b) == BitVec([i \in Inputs |-> Sub(a.sym[i], b.sym[i])], Sub(b.val, a.val),
                            {a, b}, {}, FALSE)
sub(a, b) == BitVec([i \in Inputs |-> Sub(a.sym[i], b.sym[i])], Sub(a.val, b.val),
                    {a, b}, {}, FALSE)
and(a, b) == BitVec([i \in Inputs |-> And(a.sym[i], b.sym[i])], And(a.val, b.val),
                    {a, b}, {}, FALSE)
or(a, b) == BitVec([i \in Inputs |-> Or(a.sym[i], b.sym[i])], Or(a.val, b.val),
                   {a, b}, {}, FALSE)
not(a) == BitVec([i \in Inputs |-> Not(a.sym[i])], Not(a.val), {a}, {}, FALSE)

\* xor: the formula is bvxnor.
xor(a, b) == BitVec([i \in Inputs |-> Not(Xor(a.sym[i], b.sym[i]))], Xor(a.val, b.val),
                    {a, b}, Inputs, TRUE)

shiftLeft(a, n) == BitVec([i \in Inputs |-> Shl(a.sym[i], n)], Shl(a.val, n), {a}, {}, FALSE)

\* Modes RIGHT and ASR: the formula is bvlshr, the concrete half int's >>.
shiftRight(a, n) == BitVec([i \in Inputs |-> Lshr(a.sym[i], n)], Ashr(a.val, n), {a}, {},
                           n > 0 /\ Negative(a.val))

\* mul: what it multiplies, and what the instruction then writes: shifted by W to
\* the left and to the right the formula is 0, and the concrete half the last W/4
\* binary digits of the product, its leading zeros cut off, read as hex digits.
mul(a, b) == BitVec([i \in Inputs |-> (a.sym[i] * b.sym[i]) % M], (a.val * b.val) % M,
                    {a, b}, {}, FALSE)

Justified(p) == IF p = 0 THEN 0 ELSE Shl(p, CHOOSE n \in 0..(W - 1) : Negative(Shl(p, n)))

DigitsAsHex(p) == MapThenSumSet(LAMBDA k : Bit(Justified(p), k) * 16 ^ k, 0..((W \div 4) - 1))

\* Facts of arithmetic, of powers and of sums of bits, for which TLAPS has no theory.
ASSUME WordsAssumption ==
    /\ 2 ^ 0 = 1 /\ 2 ^ 1 = 2
    /\ \A k \in 0..W : 2 ^ k \in Nat \ {0} /\ 2 ^ k * 2 ^ (W - k) = M
    /\ \A x, y \in Word : And(x, y) \in Word
    /\ \A p \in Word : DigitsAsHex(p) \in Word

shiftedOut(p) == BitVec([i \in Inputs |-> 0], DigitsAsHex(p.val), {p},
                        {i \in Inputs : p.sym[i] # 0}, DigitsAsHex(p.val) # 0)

-----------------------------------------------------------------------------
(***************************************************************************)
(* The flexible second operand                                             *)
(***************************************************************************)
\* new BitVec(Integer): a negative number has a text of 16 digits, and the first
\* getVal throws.  val(Integer) cuts the text to 8 digits.
TooWide(n) == n.src = "imm" /\ Negative(n.imm)

WideImmediateOps == {"and", "orr", "eor", "adc", "rsb", "mvn", "cmp", "cmn"}

Throws(n) == n.op \in WideImmediateOps /\ TooWide(n)

\* The handlers of these do not read a fourth parameter.
ExtraIgnored(n) == n.op \in {"bic", "adc", "mvn"}

Source(n) == IF n.src = "imm" THEN Literal(n.imm) ELSE regs[n.src]

InDoubt(v, inputs) == [v EXCEPT !.doubt = @ \cup inputs]

\* Mutant: the shift of the operand goes to the right whatever its type.
handleExtraRight(v, n) == IF n.extra = "" THEN v ELSE shiftRight(v, n.amount)

\* handleExtra: every shift that is not lsl goes to the right, and the bits that
\* asr, ror and rrx bring in are zeros.
handleExtra(v, n) ==
    CASE n.extra = "" -> v
      [] n.extra = "lsl" -> shiftLeft(v, n.amount)
      [] n.extra = "lsr" -> shiftRight(v, n.amount)
      [] n.extra = "asr" ->
           InDoubt(shiftRight(v, n.amount), {i \in Inputs : Negative(v.sym[i])})
      [] n.extra = "ror" ->
           InDoubt(shiftRight(v, n.amount), {i \in Inputs : v.sym[i] % 2 ^ n.amount # 0})
      [] n.extra = "rrx" -> InDoubt(shiftRight(v, 1), {i \in Inputs : machine[i].C})

Operand2(n) ==
    IF ExtraIgnored(n)
      THEN InDoubt(Source(n), IF n.extra = "" THEN {} ELSE Inputs)
      ELSE handleExtra(Source(n), n)

(***************************************************************************)
(* The instruction methods: the result from which the flags are taken.     *)
(***************************************************************************)
CarryIn == {i \in Inputs : machine[i].C}

\* bic's operand is complemented as text first, so a wide immediate stays in it.
comp(n) == LET v == not(Operand2(n))
           IN  IF TooWide(n) THEN [v EXCEPT !.kind = "ill", !.split = FALSE] ELSE v

\* rsb of a shifted register subtracts it from rn.
rsb(a, b, n) ==
    IF n.extra = "" THEN sub(b, a)
    ELSE InDoubt(sub(a, b), {i \in Inputs : a.sym[i] # b.sym[i]})

Result(n) ==
    LET a == regs[n.rn]
        b == Operand2(n)
    IN  CASE n.op = "mov" -> b
          [] n.op = "mvn" -> not(b)
          [] n.op \in {"add", "cmn"} -> add(a, b)
          [] n.op = "adc" -> InDoubt(add(a, b), CarryIn)
          [] n.op \in {"sub", "cmp"} -> sub(a, b)
          [] n.op = "rsb" -> rsb(a, b, n)
          [] n.op = "and" -> and(a, b)
          [] n.op = "bic" -> and(a, comp(n))
          [] n.op = "orr" -> or(a, b)
          [] n.op = "eor" -> xor(a, b)
          [] n.op = "mul" -> mul(a, b)
          [] n.op = "lsl" -> shiftLeft(a, n.imm)
          [] n.op = "lsr" -> shiftRight(a, n.imm)
          [] n.op = "asr" -> InDoubt(shiftRight(a, n.imm),
                                     {i \in Inputs : Negative(a.sym[i])})

Compares(n) == n.op \in {"cmp", "cmn"}

Written(n, result) == IF n.op = "mul" THEN shiftedOut(result) ELSE result

\* Mutant: N is read off the unsigned value.
updateFlagsUnsigned(n, v) ==
    [f \in {"N", "Z", "C", "V"} |->
        CASE f = "N" -> [set |-> {}, val |-> FALSE]
          [] f = "Z" -> [set |-> {i \in Inputs : v.sym[i] = 0}, val |-> v.val = 0]
          [] OTHER -> flags[f]]

\* updateFlags: C compares the result with the greatest word, V with the least
\* (and, as an int, with values it cannot have).  A shift leaves V alone.
updateFlags(n, v) ==
    [f \in {"N", "Z", "C", "V"} |->
        CASE f = "N" -> [set |-> {i \in Inputs : Negative(v.sym[i])}, val |-> Negative(v.val)]
          [] f = "Z" -> [set |-> {i \in Inputs : v.sym[i] = 0}, val |-> v.val = 0]
          [] f = "C" -> [set |-> {i \in Inputs : v.sym[i] > M - 1}, val |-> FALSE]
          [] f = "V" -> IF n.op \in {"lsl", "lsr", "asr"} THEN flags["V"]
                        ELSE [set |-> {i \in Inputs : \/ Signed(v.sym[i]) > MinWord - 1
                                                      \/ Signed(v.sym[i]) < 1 - MinWord},
                              val |-> FALSE]]

\* adc sets C before the flags are updated, if they are.
CarrySet == [flags EXCEPT !["C"] = [set |-> Inputs, val |-> TRUE]]

-----------------------------------------------------------------------------
(***************************************************************************)
(* The ARM core                                                            *)
(***************************************************************************)
ArmShift(type, x, k, m) ==
    CASE type = "" -> [val |-> x, carry |-> m.C]
      [] type = "lsl" -> [val |-> Shl(x, k), carry |-> IF k = 0 THEN m.C ELSE Bit(x, W - k) = 1]
      [] type = "lsr" -> [val |-> Lshr(x, k), carry |-> Bit(x, k - 1) = 1]
      [] type = "asr" -> [val |-> Ashr(x, k), carry |-> Bit(Ashr(x, k - 1), 0) = 1]
      [] type = "ror" -> [val |-> Lshr(x, k) + Shl(x, W - k), carry |-> Bit(x, k - 1) = 1]
      [] type = "rrx" -> [val |-> Lshr(x, 1) + (IF m.C THEN MinWord ELSE 0),
                          carry |-> Bit(x, 0) = 1]

ArmAdd(x, y, carry) ==
    LET in == IF carry THEN 1 ELSE 0
        sum == (x + y + in) % M
    IN  [val |-> sum, C |-> x + y + in >= M, V |-> Signed(x) + Signed(y) + in # Signed(sum)]

\* The value and the flags C and V of an instruction.
ArmResult(n, m) ==
    LET x == m[n.rn]
        source == IF n.src = "imm" THEN n.imm ELSE m[n.src]
        y == ArmShift(n.extra, source, n.amount, m)
        moved(shifted) == [val |-> shifted.val, C |-> shifted.carry, V |-> m.V]
        logical(z) == moved([y EXCEPT !.val = z])
    IN  CASE n.op = "mov" -> logical(y.val)
          [] n.op = "mvn" -> logical(Not(y.val))
          [] n.op = "and" -> logical(And(x, y.val))
          [] n.op = "bic" -> logical(And(x, Not(y.val)))
          [] n.op = "orr" -> logical(Or(x, y.val))
          [] n.op = "eor" -> logical(Xor(x, y.val))
          [] n.op \in {"add", "cmn"} -> ArmAdd(x, y.val, FALSE)
          [] n.op = "adc" -> ArmAdd(x, y.val, m.C)
          [] n.op \in {"sub", "cmp"} -> ArmAdd(x, Not(y.val), TRUE)
          [] n.op = "rsb" -> ArmAdd(y.val, Not(x), TRUE)
          [] n.op = "mul" -> [val |-> (x * y.val) % M, C |-> m.C, V |-> m.V]
          [] n.op \in {"lsl", "lsr", "asr"} -> moved(ArmShift(n.op, x, n.imm, m))

ArmExec(n, m) ==
    LET res == ArmResult(n, m)
        written == IF Compares(n) THEN m ELSE [m EXCEPT ![n.rd] = res.val]
    IN  IF n.s \/ Compares(n)
          THEN [written EXCEPT !.N = Negative(res.val), !.Z = res.val = 0,
                               !.C = res.C, !.V = res.V]
          ELSE written

-----------------------------------------------------------------------------
(***************************************************************************)
(* Steps                                                                   *)
(***************************************************************************)
\* A data-processing handler of singleExec.
Execute(n) ==
    /\ status = "running" /\ steps < MaxSteps
    /\ ~Throws(n)
    /\ LET result == Result(n)
       IN  /\ regs' = IF Compares(n) THEN regs
                      ELSE [regs EXCEPT ![n.rd] = Written(n, result)]
           /\ flags' = IF n.s \/ Compares(n) THEN updateFlags(n, result)
                       ELSE IF n.op = "adc" THEN CarrySet ELSE flags
           /\ IF n.s \/ Compares(n)
                THEN /\ flagged' = [doubt |-> IF result.kind = "ill" THEN Inputs
                                              ELSE result.doubt,
                                    split |-> result.split]
                     /\ compared' = [i \in Inputs |->
                          IF n.op = "cmp" THEN
                             LET m == machine[i]
                                 y == IF n.src = "imm" THEN n.imm ELSE m[n.src]
                             IN  <<m[n.rn], ArmShift(n.extra, y, n.amount, m).val>>
                          ELSE None]
                ELSE UNCHANGED <<flagged, compared>>
    /\ machine' = [i \in Inputs |-> ArmExec(n, machine[i])]
    /\ steps' = steps + 1
    /\ executed' = executed \cup {n}
    /\ UNCHANGED status

\* NumberFormatException before anything is written; execFrom catches it and ends.
ExecuteThrows(n) ==
    /\ status = "running" /\ steps < MaxSteps
    /\ Throws(n)
    /\ status' = "thrown"
    /\ steps' = steps + 1
    /\ UNCHANGED <<regs, flags, machine, compared, flagged, executed>>

Next == \E n \in Instructions : Execute(n) \/ ExecuteThrows(n)

Spec == Init /\ [][Next]_vars

-----------------------------------------------------------------------------
(***************************************************************************)
(* getCondSuffixSMT, for the conditions on signed order                    *)
(***************************************************************************)
\* Mutant: lt and ge are taken for the sign alone, gt and le for its opposite.
HoldsBySign(cond) ==
    CASE cond = "ge" -> Inputs \ flags["N"].set
      [] cond = "lt" -> flags["N"].set
      [] cond = "gt" -> Inputs \ flags["N"].set
      [] cond = "le" -> flags["N"].set

Holds(cond) ==
    LET same == {i \in Inputs : i \in flags["N"].set <=> i \in flags["V"].set}
        zero == flags["Z"].set
    IN  CASE cond = "ge" -> same
          [] cond = "lt" -> Inputs \ same
          [] cond = "gt" -> same \ zero
          [] cond = "le" -> zero \cup (Inputs \ same)

-----------------------------------------------------------------------------
(***************************************************************************)
(* Properties                                                              *)
(***************************************************************************)
\* After any sequence of instructions, the formula of a register gives on each
\* input what the ARM core holds, unless the value went through eor, a product, a
\* right shift that is not lsr, a carry, a reversed subtraction or a lost shift.
FormulaExact ==
    \A r \in Regs : regs[r].kind # "ill" =>
        \A i \in Inputs \ regs[r].doubt : regs[r].sym[i] = machine[i][r]

\* The concrete half of a register, from which M0 takes destinations and every
\* variation those of bx lr, is its formula on the all-zero input, unless eor or a
\* right shift of a negative number split the two.
HalvesAgree ==
    \A r \in Regs : regs[r].kind # "ill" /\ ~regs[r].split => regs[r].val = regs[r].sym[Zero]

\* N and Z, formula and concrete half, are those of the ARM core, whichever of the
\* instructions before left them.
FlagsExact ==
    /\ \A f \in {"N", "Z"} : \A i \in Inputs \ flagged.doubt :
          i \in flags[f].set <=> machine[i][f]
    /\ ~flagged.split /\ flagged.doubt # Inputs =>
          \A f \in {"N", "Z"} : flags[f].val <=> Zero \in flags[f].set

\* A branch on ge, lt, gt or le takes the inputs whose operands of the last cmp are
\* in that signed order, if their difference is a word above the least.
SignedOrder ==
    \A i \in Inputs \ flagged.doubt : compared[i] # None =>
        LET a == Signed(compared[i][1])
            b == Signed(compared[i][2])
        IN  a - b \in (1 - MinWord)..(MinWord - 1) =>
              /\ i \in Holds("ge") <=> a >= b
              /\ i \in Holds("lt") <=> a < b
              /\ i \in Holds("gt") <=> a > b
              /\ i \in Holds("le") <=> a <= b

\* The instructions whose handlers and operators do what ARM does.
Faithful(n) ==
    /\ n.op \notin {"eor", "mul", "adc", "asr"}
    /\ n.extra \in {"", "lsl", "lsr"}
    /\ n.op \in {"rsb", "bic", "mvn"} => n.extra = ""
    /\ n.op = "bic" => ~TooWide(n)

ShiftsRight(n) == n.op = "lsr" \/ n.extra = "lsr"

\* As long as only such instructions were executed, in whatever order, the formulas of
\* the registers and of N and Z are those of the ARM core on every input, and none is
\* one that z3 rejects: no departure from ARM is left but the ones Faithful names.
FaithfulFormulas ==
    (\A n \in executed : Faithful(n)) =>
        \A i \in Inputs :
            /\ \A r \in Regs : regs[r].kind # "ill" /\ regs[r].sym[i] = machine[i][r]
            /\ \A f \in {"N", "Z"} : i \in flags[f].set <=> machine[i][f]

\* Without right shifts as well, the concrete halves of the registers, of N and of Z
\* are those of the ARM core that starts from zeros: the concrete run that M0's
\* destinations and every bx lr rely on is a run of the program.
FaithfulHalves ==
    (\A n \in executed : Faithful(n) /\ ~ShiftsRight(n)) =>
        /\ \A r \in Regs : regs[r].val = machine[Zero][r]
        /\ \A f \in {"N", "Z"} : flags[f].val <=> machine[Zero][f]

\* What the documentation of Emulator.xor says it returns: "XOR of a and b".
XorIsXor ==
    [][\A n \in Instructions : n.op = "eor" /\ Execute(n) =>
          \A i \in Inputs : regs'[n.rd].sym[i] = Xor(regs[n.rn].sym[i], Operand2(n).sym[i])]_vars

=============================================================================
