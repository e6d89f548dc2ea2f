------------------------------ MODULE AluProofs ------------------------------
(***************************************************************************)
(* For every word width, every set of inputs and every set of              *)
(* data-processing instructions: the formulas, the concrete halves, N and  *)
(* Z and the signed conditions are those of the ARM core outside the cases *)
(* that `doubt' and `split' record.                                        *)
(***************************************************************************)
EXTENDS Alu, TLAPS

(***************************************************************************)
(* Words                                                                   *)
(***************************************************************************)
\* The width and the modulus are positive, and the modulus is twice MinWord.
LEMMA Modulus ==
    /\ W \in Nat /\ W >= 4
    /\ M \in Nat \ {0} /\ MinWord \in Nat \ {0} /\ M = 2 * MinWord
<1>1. W \in Nat /\ W >= 4
  BY AluAssumption
<1>2. 0 \in 0..W /\ 1 \in 0..W /\ W \in 0..W /\ (W - 1) \in 0..W
  BY <1>1
<1>3. M \in Nat \ {0}
  BY <1>2, WordsAssumption DEF M
<1>4. 2 ^ (W - 1) \in Nat \ {0} /\ 2 ^ 1 * 2 ^ (W - 1) = M
  BY <1>2, WordsAssumption
<1>5. \A h \in Nat \ {0}, m \in Nat : m = 2 * h => m \div 2 = h
  OBVIOUS
<1>6. M = 2 * 2 ^ (W - 1)
  BY <1>4, WordsAssumption
<1>7. MinWord = 2 ^ (W - 1)
  BY <1>3, <1>4, <1>5, <1>6 DEF MinWord
<1> QED
  BY <1>1, <1>3, <1>4, <1>6, <1>7

\* The powers of two up to the modulus.
LEMMA Power ==
    ASSUME NEW k \in 0..W
    PROVE  2 ^ k \in Nat \ {0} /\ 2 ^ (W - k) \in Nat \ {0} /\ 2 ^ k * 2 ^ (W - k) = M
<1>1. (W - k) \in 0..W
  BY Modulus
<1> QED
  BY <1>1, WordsAssumption

\* A word is an integer between 0 and M - 1.
LEMMA WordRange == \A x : x \in Word <=> x \in Int /\ 0 <= x /\ x < M
  BY Modulus DEF Word

\* The remainder by M is a word, and the identity on words.
LEMMA Reduced ==
    /\ \A x \in Int : x % M \in Word
    /\ \A x \in Word : x % M = x
<1>1. \A m \in Nat \ {0} : \A x \in Int : x % m \in 0..(m - 1)
  OBVIOUS
<1>2. \A m \in Nat \ {0} : \A x \in 0..(m - 1) : x % m = x
  OBVIOUS
<1> QED
  BY <1>1, <1>2, Modulus DEF Word

\* The remainder by M of an integer less than M away from a word.
LEMMA Remainder ==
    ASSUME NEW a \in Int
    PROVE  /\ 0 <= a /\ a < M => a % M = a
           /\ -M <= a /\ a < 0 => a % M = a + M
           /\ M <= a /\ a < 2 * M => a % M = a - M
<1>1. \A m \in Nat \ {0} : 0 <= a /\ a < m => a % m = a
  OBVIOUS
<1>2. \A m \in Nat \ {0} : -m <= a /\ a < 0 => a % m = a + m
  OBVIOUS
<1>3. \A m \in Nat \ {0} : m <= a /\ a < 2 * m => a % m = a - m
  OBVIOUS
<1> QED
  BY <1>1, <1>2, <1>3, Modulus

\* Division with remainder.
LEMMA Division ==
    ASSUME NEW d \in Nat \ {0}, NEW a \in Nat
    PROVE  a \div d \in Nat /\ a % d \in Nat /\ a % d < d /\ a = d * (a \div d) + (a % d)
  OBVIOUS

\* The logical and arithmetic operators take words to words.
LEMMA Closed ==
    ASSUME NEW x \in Word, NEW y \in Word
    PROVE  /\ Not(x) \in Word /\ And(x, y) \in Word /\ Or(x, y) \in Word /\ Xor(x, y) \in Word
           /\ Add(x, y) \in Word /\ Sub(x, y) \in Word /\ (x * y) % M \in Word
<1>1. \A z \in Word : Not(z) \in Word
  BY WordRange, Modulus DEF Not
<1>2. \A u, z \in Word : And(u, z) \in Word
  BY WordsAssumption
<1>3. \A u, z \in Word : Or(u, z) \in Word
  BY <1>1, <1>2 DEF Or
<1>4. Xor(x, y) \in Word
  BY <1>1, <1>2, <1>3 DEF Xor
<1>5. x \in Int /\ y \in Int /\ x + y \in Int /\ x - y \in Int /\ x * y \in Int
  BY WordRange
<1>6. Add(x, y) \in Word /\ Sub(x, y) \in Word /\ (x * y) % M \in Word
  BY <1>5, Reduced DEF Add, Sub
<1> QED
  BY <1>1, <1>2, <1>3, <1>4, <1>6

\* A word and its signed reading determine each other.
LEMMA SignedRange ==
    ASSUME NEW x \in Word
    PROVE  /\ Signed(x) \in Int /\ -MinWord <= Signed(x) /\ Signed(x) < MinWord
           /\ Signed(x) % M = x
           /\ Negative(x) <=> Signed(x) < 0
           /\ x = 0 <=> Signed(x) = 0
<1>1. x \in Int /\ 0 <= x /\ x < M
  BY WordRange
<1>2. M \div 2 = MinWord
  BY DEF MinWord
<1>3. CASE Negative(x)
  <2>1. x >= MinWord /\ Signed(x) = x - M
    BY <1>2, <1>3 DEF Negative, Signed
  <2>2. \A m \in Nat \ {0} : \A a \in Int : 0 <= a /\ a < m => (a - m) % m = a
    OBVIOUS
  <2> QED
    BY <1>1, <1>3, <2>1, <2>2, Modulus
<1>4. CASE ~Negative(x)
  <2>1. x < MinWord /\ Signed(x) = x
    BY <1>1, <1>2, <1>4, Modulus DEF Negative, Signed
  <2> QED
    BY <1>1, <1>4, <2>1, Reduced, Modulus
<1> QED
  BY <1>3, <1>4

\* The shifts take words to words.
LEMMA ShiftsClosed ==
    ASSUME NEW x \in Word, NEW k \in 0..W
    PROVE  Shl(x, k) \in Word /\ Lshr(x, k) \in Word /\ Ashr(x, k) \in Word
<1>1. x \in Int /\ 0 <= x /\ x < M /\ Signed(x) \in Int
  BY WordRange, SignedRange
<1>2. 2 ^ k \in Nat \ {0}
  BY Power
<1>3. x * 2 ^ k \in Int /\ Signed(x) \div 2 ^ k \in Int
  BY <1>1, <1>2
<1>4. \A d \in Nat \ {0} : \A a \in Nat : a \div d \in Nat /\ a \div d <= a
  OBVIOUS
<1>5. Lshr(x, k) \in Nat /\ Lshr(x, k) <= x
  BY <1>1, <1>2, <1>4 DEF Lshr
<1>6. Lshr(x, k) \in Word
  BY <1>1, <1>5, WordRange, Modulus
<1>7. Shl(x, k) \in Word /\ Ashr(x, k) \in Word
  BY <1>3, Reduced DEF Shl, Ashr
<1> QED
  BY <1>6, <1>7

\* The arithmetic and the logical right shift differ on negative words alone.
LEMMA SameRightShift ==
    ASSUME NEW x \in Word, NEW k \in 0..W, k = 0 \/ ~Negative(x)
    PROVE  Ashr(x, k) = Lshr(x, k)
<1>1. CASE ~Negative(x)
  <2>1. Signed(x) = x
    BY <1>1 DEF Signed
  <2> QED
    BY <2>1, ShiftsClosed, Reduced DEF Ashr, Lshr
<1>2. CASE k = 0
  <2>1. \A a \in Int : a \div 1 = a
    OBVIOUS
  <2>2. Signed(x) \div 2 ^ k = Signed(x) /\ x \div 2 ^ k = x
    BY <1>2, <2>1, WordsAssumption, SignedRange, WordRange
  <2> QED
    BY <2>2, SignedRange DEF Ashr, Lshr
<1> QED
  BY <1>1, <1>2

\* Rotating right by k is shifting right by k when no bit is shifted out.
LEMMA RotateLosesNothing ==
    ASSUME NEW x \in Word, NEW k \in 0..W, x % 2 ^ k = 0
    PROVE  Lshr(x, k) + Shl(x, W - k) = Lshr(x, k)
<1> DEFINE p == 2 ^ k
           r == 2 ^ (W - k)
           q == x \div 2 ^ k
<1>1. x \in Nat /\ p \in Nat \ {0} /\ r \in Nat \ {0} /\ p * r = M /\ x % p = 0
  BY Power, WordRange
<1>2. q \in Nat /\ x = p * q
  <2>1. \A d \in Nat \ {0} : \A a \in Nat : a % d = 0 => a \div d \in Nat /\ a = d * (a \div d)
    OBVIOUS
  <2> QED
    BY <1>1, <2>1
<1>3. x * r = q * M
  <2>1. \A a, b, c \in Nat : (a * b) * c = b * (a * c)
    OBVIOUS
  <2> QED
    BY <1>1, <1>2, <2>1
<1>4. (q * M) % M = 0
  <2>1. \A d \in Nat \ {0} : \A a \in Nat : (a * d) % d = 0
    OBVIOUS
  <2> QED
    BY <1>2, <2>1, Modulus
<1>5. Shl(x, W - k) = 0
  BY <1>3, <1>4 DEF Shl
<1>6. Lshr(x, k) \in Int
  BY ShiftsClosed, WordRange
<1> QED
  BY <1>5, <1>6

\* A rotated word is a word: the bits that go right and those that come in on the
\* left do not overlap.
LEMMA RotateClosed ==
    ASSUME NEW x \in Word, NEW k \in 0..W
    PROVE  Lshr(x, k) + Shl(x, W - k) \in Word
<1> DEFINE p == 2 ^ k
           r == 2 ^ (W - k)
           q == x \div 2 ^ k
           l == x % 2 ^ k
<1>1. x \in Nat /\ x < M /\ p \in Nat \ {0} /\ r \in Nat \ {0} /\ p * r = M
  BY Power, WordRange
<1>2. q \in Nat /\ l \in Nat /\ l < p /\ x = p * q + l
  BY <1>1, Division
<1> HIDE DEF p, r, q, l
<1>3. q < r
  <2>1. \A a, b, c \in Nat : a >= b => c * a >= c * b
    OBVIOUS
  <2>2. p * q \in Nat /\ p * q <= x
    BY <1>1, <1>2
  <2>3. q >= r => p * q >= p * r
    BY <1>1, <1>2, <2>1
  <2> QED
    BY <1>1, <1>2, <2>2, <2>3
<1>4. x * r = q * M + l * r
  <2>1. \A a, b, c, d \in Nat : (a * b + d) * c = b * (a * c) + d * c
    OBVIOUS
  <2> QED
    BY <1>1, <1>2, <2>1
<1>5. l * r \in Nat /\ l * r <= M - r
  <2>1. \A a, b, c \in Nat : a < b => a * c \in Nat /\ a * c <= b * c - c
    <3>1. \A a, b, c \in Nat : a < b => (a + 1) * c <= b * c
      OBVIOUS
    <3>2. \A a, c \in Nat : (a + 1) * c = a * c + c /\ a * c \in Nat
      OBVIOUS
    <3> QED
      BY <3>1, <3>2
  <2> QED
    BY <1>1, <1>2, <2>1
<1>6. (q * M + l * r) % M = l * r
  <2>1. \A d \in Nat \ {0} : \A a, b \in Nat : b < d => (a * d + b) % d = b
    OBVIOUS
  <2>2. l * r < M
    BY <1>1, <1>5, Modulus
  <2> QED
    BY <1>2, <1>5, <2>1, <2>2, Modulus
<1>7. Shl(x, W - k) = l * r
  BY <1>4, <1>6 DEF Shl, r
<1>8. q + l * r \in Int /\ 0 <= q + l * r /\ q + l * r < M
  BY <1>1, <1>2, <1>3, <1>5, Modulus
<1>9. Lshr(x, k) = q
  BY DEF Lshr, q
<1> QED
  BY <1>7, <1>8, <1>9, WordRange

\* A word shifted right through the carry is a word.
LEMMA RrxClosed ==
    ASSUME NEW x \in Word, NEW c \in {0, MinWord}
    PROVE  Lshr(x, 1) + c \in Word
<1>1. x \in Nat /\ x < 2 * MinWord
  BY WordRange, Modulus
<1>2. \A h \in Nat \ {0} : \A a \in Nat : a < 2 * h => a \div 2 \in Nat /\ a \div 2 < h
  OBVIOUS
<1>3. Lshr(x, 1) \in Nat /\ Lshr(x, 1) < MinWord
  BY <1>1, <1>2, Modulus, WordsAssumption DEF Lshr
<1> QED
  BY <1>3, WordRange, Modulus

\* The adder of the ARM core subtracts by adding the complement and a carry.
LEMMA SubtractByAdding ==
    ASSUME NEW x \in Word, NEW y \in Word
    PROVE  ArmAdd(x, Not(y), TRUE).val = Sub(x, y)
<1>1. x \in Int /\ 0 <= x /\ x < M /\ y \in Int /\ 0 <= y /\ y < M
  BY WordRange
<1>2. x + Not(y) + 1 = (x - y) + M
  BY <1>1, Modulus DEF Not
<1>3. ArmAdd(x, Not(y), TRUE).val = (x + Not(y) + 1) % M
  BY DEF ArmAdd
<1>4. x - y \in Int /\ (x - y) + M \in Int /\ -M <= x - y /\ x - y < M
  BY <1>1, Modulus
<1>5. ((x - y) + M) % M = (x - y) % M
  <2> DEFINE a == x - y
             b == a + M
  <2>1. a \in Int /\ b \in Int /\ b = a + M /\ -M <= a /\ a < M
    BY <1>4, Modulus
  <2> HIDE DEF a, b
  <2>2. a >= 0 => a % M = a /\ b % M = b - M
    BY <2>1, Remainder, Modulus
  <2>3. a < 0 => a % M = a + M /\ b % M = b
    BY <2>1, Remainder, Modulus
  <2>4. b % M = a % M
    BY <2>1, <2>2, <2>3, Modulus
  <2> QED
    BY <2>4 DEF a, b
<1> QED
  BY <1>2, <1>3, <1>5 DEF Sub

\* The adder without a carry is Add.
LEMMA AddPlain ==
    ASSUME NEW x \in Word, NEW y \in Word
    PROVE  ArmAdd(x, y, FALSE).val = Add(x, y)
<1>1. x \in Int /\ y \in Int
  BY WordRange
<1>2. ArmAdd(x, y, FALSE).val = (x + y + 0) % M
  BY DEF ArmAdd
<1>3. x + y + 0 = x + y
  BY <1>1
<1> QED
  BY <1>2, <1>3 DEF Add

\* The adder gives a word.
LEMMA AddClosed ==
    ASSUME NEW x \in Word, NEW y \in Word, NEW c \in BOOLEAN
    PROVE  ArmAdd(x, y, c).val \in Word
<1>1. x \in Int /\ y \in Int
  BY WordRange
<1>2. \A i \in {0, 1} : x + y + i \in Int
  BY <1>1
<1>3. ArmAdd(x, y, c).val = (x + y + (IF c THEN 1 ELSE 0)) % M
  BY DEF ArmAdd
<1> QED
  BY <1>2, <1>3, Reduced

\* The signed reading of a difference is the difference of the signed readings, if
\* that one is a word above the least.
LEMMA SignedDifference ==
    ASSUME NEW x \in Word, NEW y \in Word,
           Signed(x) - Signed(y) \in (1 - MinWord)..(MinWord - 1)
    PROVE  Signed(Sub(x, y)) = Signed(x) - Signed(y)
<1> DEFINE d == Signed(x) - Signed(y)
           z == Sub(x, y)
<1>1. x \in Int /\ y \in Int /\ Signed(x) \in Int /\ Signed(y) \in Int
  BY WordRange, SignedRange
<1>2. d \in Int /\ 1 - MinWord <= d /\ d <= MinWord - 1
  BY <1>1, Modulus
<1>3. x - y \in Int /\ -M <= x - y /\ x - y < M
  BY WordRange, Modulus
<1>4. /\ Signed(x) = x \/ Signed(x) = x - M
      /\ Signed(y) = y \/ Signed(y) = y - M
  BY DEF Signed
<1>5. d = x - y \/ d = (x - y) + M \/ d = (x - y) - M
  BY <1>1, <1>4, Modulus
<1>6. x - y >= 0 => z = x - y
  BY <1>3, Remainder, Modulus DEF Sub
<1>7. x - y < 0 => z = (x - y) + M
  BY <1>3, Remainder, Modulus DEF Sub
<1>8. Signed(z) = IF z >= MinWord THEN z - M ELSE z
  BY DEF Signed, Negative, MinWord
<1> HIDE DEF d, z
<1>9. Signed(z) = d
  BY <1>2, <1>3, <1>5, <1>6, <1>7, <1>8, Modulus
<1> QED
  BY <1>9 DEF d, z

(***************************************************************************)
(* Bit vectors                                                             *)
(***************************************************************************)
Record == [kind : {"literal", "formula", "ill"}, sym : [Inputs -> Word], val : Word,
           doubt : SUBSET Inputs, split : BOOLEAN]

Agree(v) == v.kind # "ill" /\ ~v.split => v.val = v.sym[Zero]

\* The bit vectors whose halves agree unless they are marked as split.
Vectors == {v \in Record : Agree(v)}

\* v is well-formed and i is not in doubt: then the formula of v is x on input i.
Clear(v, i) == v.kind # "ill" /\ i \notin v.doubt
Exact(v, i, x) == Clear(v, i) => v.sym[i] = x

\* The concrete halves start from an assignment that is an input.
LEMMA ZeroIsInput == Zero \in Inputs
  BY AluAssumption

\* v is made of the operands a and b.
Made(v, a, b, sym, val, doubt, split) ==
    /\ v \in Record /\ v.sym = sym
    /\ v.doubt = doubt \cup a.doubt \cup b.doubt
    /\ v.kind # "ill" => a.kind # "ill" /\ b.kind # "ill"
    /\ v.kind # "ill" /\ ~v.split /\ v.val # sym[Zero] =>
         v.val = val /\ ~split /\ ~a.split /\ ~b.split

\* What the constructor makes of two operands.
LEMMA BitVec2 ==
    ASSUME NEW a \in Record, NEW b \in Record, NEW sym \in [Inputs -> Word], NEW val \in Word,
           NEW doubt \in SUBSET Inputs, NEW split \in BOOLEAN
    PROVE  Made(BitVec(sym, val, {a, b}, doubt, split), a, b, sym, val, doubt, split)
<1> DEFINE v == BitVec(sym, val, {a, b}, doubt, split)
           kinds == {u.kind : u \in {a, b}}
<1>1. kinds = {a.kind, b.kind}
  OBVIOUS
<1>2. UNION {u.doubt : u \in {a, b}} = a.doubt \cup b.doubt
  OBVIOUS
<1>3. (\E u \in {a, b} : u.split) <=> a.split \/ b.split
  OBVIOUS
<1>4. /\ a.kind \in {"literal", "formula", "ill"} /\ b.kind \in {"literal", "formula", "ill"}
      /\ a.doubt \subseteq Inputs /\ b.doubt \subseteq Inputs
      /\ a.split \in BOOLEAN /\ b.split \in BOOLEAN
  BY DEF Record
<1>5. sym[Zero] \in Word
  BY ZeroIsInput
<1>6. v = [kind |-> IF kinds = {"literal"} THEN "literal"
                    ELSE IF "ill" \in kinds THEN "ill" ELSE "formula",
           sym |-> sym,
           val |-> IF kinds = {"literal"} THEN sym[Zero] ELSE val,
           doubt |-> doubt \cup UNION {u.doubt : u \in {a, b}},
           split |-> ~(kinds = {"literal"}) /\ (split \/ \E u \in {a, b} : u.split)]
  BY DEF BitVec
<1> HIDE DEF v, kinds
<1>7. v = [kind |-> IF kinds = {"literal"} THEN "literal"
                    ELSE IF "ill" \in kinds THEN "ill" ELSE "formula",
           sym |-> sym,
           val |-> IF kinds = {"literal"} THEN sym[Zero] ELSE val,
           doubt |-> doubt \cup (a.doubt \cup b.doubt),
           split |-> ~(kinds = {"literal"}) /\ (split \/ a.split \/ b.split)]
  BY <1>2, <1>3, <1>6, Zenon
<1>8. v \in Record
  BY <1>4, <1>5, <1>7 DEF Record
<1>9. v.sym = sym /\ v.doubt = doubt \cup a.doubt \cup b.doubt
  BY <1>7
<1>10. v.kind # "ill" => a.kind # "ill" /\ b.kind # "ill"
  BY <1>1, <1>4, <1>7
<1>11. v.kind # "ill" /\ ~v.split /\ v.val # sym[Zero] =>
          v.val = val /\ ~split /\ ~a.split /\ ~b.split
  BY <1>1, <1>4, <1>7
<1> QED
  BY <1>8, <1>9, <1>10, <1>11, Zenon DEF v, Made

\* The same for one operand.
LEMMA BitVec1 ==
    ASSUME NEW a \in Record, NEW sym \in [Inputs -> Word], NEW val \in Word,
           NEW doubt \in SUBSET Inputs, NEW split \in BOOLEAN
    PROVE  Made(BitVec(sym, val, {a}, doubt, split), a, a, sym, val, doubt, split)
<1>1. {a} = {a, a}
  OBVIOUS
<1>2. Made(BitVec(sym, val, {a, a}, doubt, split), a, a, sym, val, doubt, split)
  BY BitVec2, Zenon
<1> QED
  BY <1>1, <1>2, Zenon

\* The parts of a bit vector.
LEMMA Parts ==
    ASSUME NEW v \in Vectors
    PROVE  /\ v \in Record /\ v.sym \in [Inputs -> Word] /\ v.val \in Word
           /\ v.doubt \in SUBSET Inputs /\ v.split \in BOOLEAN
           /\ \A i \in Inputs : v.sym[i] \in Word
           /\ v.sym[Zero] \in Word
           /\ v.kind # "ill" /\ ~v.split => v.val = v.sym[Zero]
  BY ZeroIsInput DEF Vectors, Record, Agree

\* A constant has both halves.
LEMMA LiteralExact ==
    ASSUME NEW x \in Word
    PROVE  Literal(x) \in Vectors /\ \A i \in Inputs : Exact(Literal(x), i, x)
  BY ZeroIsInput DEF Literal, Vectors, Record, Agree, Exact, Clear

\* Marking inputs as doubtful leaves the rest of a bit vector alone.
LEMMA DoubtExact ==
    ASSUME NEW v \in Vectors, NEW inputs \in SUBSET Inputs
    PROVE  /\ InDoubt(v, inputs) \in Vectors
           /\ \A i \in Inputs : Clear(InDoubt(v, inputs), i) <=> Clear(v, i) /\ i \notin inputs
           /\ \A i \in Inputs : \A x : (i \notin inputs => Exact(v, i, x)) =>
                Exact(InDoubt(v, inputs), i, x)
<1>1. v \in Record
  BY Parts
<1>2. /\ InDoubt(v, inputs) \in Record
      /\ InDoubt(v, inputs).kind = v.kind /\ InDoubt(v, inputs).sym = v.sym
      /\ InDoubt(v, inputs).val = v.val /\ InDoubt(v, inputs).split = v.split
      /\ InDoubt(v, inputs).doubt = v.doubt \cup inputs
  BY <1>1 DEF InDoubt, Record
<1>3. InDoubt(v, inputs) \in Vectors
  BY <1>2 DEF Vectors, Agree
<1> QED
  BY <1>2, <1>3 DEF Exact, Clear

\* The formula of v is sym outside doubt, if those of a and b are exact.
Carries(v, a, b, sym, doubt) ==
    /\ \A i \in Inputs : Clear(v, i) => Clear(a, i) /\ Clear(b, i)
    /\ \A i \in Inputs : \A x, y, z :
         /\ Exact(a, i, x) /\ Exact(b, i, y)
         /\ i \notin doubt /\ a.sym[i] = x /\ b.sym[i] = y => sym[i] = z
         => Exact(v, i, z)

\* The constructor keeps the halves together and the formula exact, if the operator
\* it is called for does.
LEMMA Combined ==
    ASSUME NEW a \in Vectors, NEW b \in Vectors, NEW v,
           NEW sym, NEW val, NEW doubt, NEW split \in BOOLEAN,
           Made(v, a, b, sym, val, doubt, split),
           a.val = a.sym[Zero] /\ b.val = b.sym[Zero] /\ ~split => val = sym[Zero]
    PROVE  /\ v \in Vectors
           /\ Carries(v, a, b, sym, doubt)
<1>1. /\ a.kind # "ill" /\ ~a.split => a.val = a.sym[Zero]
      /\ b.kind # "ill" /\ ~b.split => b.val = b.sym[Zero]
  BY Parts, Zenon
<1>2. v \in Record /\ v.sym = sym /\ v.doubt = doubt \cup a.doubt \cup b.doubt
  BY Zenon DEF Made
<1>3. v.kind # "ill" => a.kind # "ill" /\ b.kind # "ill"
  BY Zenon DEF Made
<1>4. v.kind # "ill" /\ ~v.split /\ v.val # sym[Zero] =>
         v.val = val /\ ~split /\ ~a.split /\ ~b.split
  BY Zenon DEF Made
<1>5. Agree(v)
  BY <1>1, <1>2, <1>3, <1>4, Zenon DEF Agree
<1>6. v \in Vectors
  BY <1>2, <1>5, Zenon DEF Vectors
<1>7. ASSUME NEW i \in Inputs, NEW x, NEW y, NEW z,
             Exact(a, i, x), Exact(b, i, y),
             i \notin doubt /\ a.sym[i] = x /\ b.sym[i] = y => sym[i] = z
      PROVE  Exact(v, i, z)
  BY <1>2, <1>3, <1>7, Zenon DEF Exact, Clear
<1>8. \A i \in Inputs : Clear(v, i) => Clear(a, i) /\ Clear(b, i)
  BY <1>2, <1>3, Zenon DEF Clear
<1> QED
  BY <1>6, <1>7, <1>8, Zenon DEF Carries

\* add adds.
LEMMA AddExact ==
    ASSUME NEW a \in Vectors, NEW b \in Vectors
    PROVE  /\ add(a, b) \in Vectors
           /\ \A i \in Inputs : \A x, y : Exact(a, i, x) /\ Exact(b, i, y) =>
                Exact(add(a, b), i, Add(x, y))
           /\ \A i \in Inputs : Clear(add(a, b), i) => Clear(a, i) /\ Clear(b, i)
<1> DEFINE sym == [i \in Inputs |-> Add(a.sym[i], b.sym[i])]
           val == Add(a.val, b.val)
<1>1. /\ a \in Record /\ b \in Record /\ a.val \in Word /\ b.val \in Word
      /\ \A i \in Inputs : a.sym[i] \in Word /\ b.sym[i] \in Word
  BY Parts, Zenon
<1>2. sym \in [Inputs -> Word] /\ val \in Word
  BY <1>1, Closed
<1>3. \A i \in Inputs : sym[i] = Add(a.sym[i], b.sym[i])
  OBVIOUS
<1>4. add(a, b) = BitVec(sym, val, {a, b}, {}, FALSE)
  BY Zenon DEF add
<1> HIDE DEF sym
<1>5. Made(add(a, b), a, b, sym, val, {}, FALSE)
  BY <1>1, <1>2, <1>4, BitVec2
<1>6. a.val = a.sym[Zero] /\ b.val = b.sym[Zero] /\ ~FALSE => val = sym[Zero]
  BY <1>3, ZeroIsInput, Zenon
<1>7. /\ add(a, b) \in Vectors
      /\ Carries(add(a, b), a, b, sym, {})
  BY <1>5, <1>6, Combined
<1> QED
  BY <1>3, <1>7, Zenon DEF Carries

\* sub subtracts.
LEMMA SubExact ==
    ASSUME NEW a \in Vectors, NEW b \in Vectors
    PROVE  /\ sub(a, b) \in Vectors
           /\ \A i \in Inputs : \A x, y : Exact(a, i, x) /\ Exact(b, i, y) =>
                Exact(sub(a, b), i, Sub(x, y))
           /\ \A i \in Inputs : Clear(sub(a, b), i) => Clear(a, i) /\ Clear(b, i)
<1> DEFINE sym == [i \in Inputs |-> Sub(a.sym[i], b.sym[i])]
           val == Sub(a.val, b.val)
<1>1. /\ a \in Record /\ b \in Record /\ a.val \in Word /\ b.val \in Word
      /\ \A i \in Inputs : a.sym[i] \in Word /\ b.sym[i] \in Word
  BY Parts, Zenon
<1>2. sym \in [Inputs -> Word] /\ val \in Word
  BY <1>1, Closed
<1>3. \A i \in Inputs : sym[i] = Sub(a.sym[i], b.sym[i])
  OBVIOUS
<1>4. sub(a, b) = BitVec(sym, val, {a, b}, {}, FALSE)
  BY Zenon DEF sub
<1> HIDE DEF sym
<1>5. Made(sub(a, b), a, b, sym, val, {}, FALSE)
  BY <1>1, <1>2, <1>4, BitVec2
<1>6. a.val = a.sym[Zero] /\ b.val = b.sym[Zero] /\ ~FALSE => val = sym[Zero]
  BY <1>3, ZeroIsInput, Zenon
<1>7. /\ sub(a, b) \in Vectors
      /\ Carries(sub(a, b), a, b, sym, {})
  BY <1>5, <1>6, Combined
<1> QED
  BY <1>3, <1>7, Zenon DEF Carries

\* and is the bitwise conjunction.
LEMMA AndExact ==
    ASSUME NEW a \in Vectors, NEW b \in Vectors
    PROVE  /\ and(a, b) \in Vectors
           /\ \A i \in Inputs : \A x, y : Exact(a, i, x) /\ Exact(b, i, y) =>
                Exact(and(a, b), i, And(x, y))
           /\ \A i \in Inputs : Clear(and(a, b), i) => Clear(a, i) /\ Clear(b, i)
<1> DEFINE sym == [i \in Inputs |-> And(a.sym[i], b.sym[i])]
           val == And(a.val, b.val)
<1>1. /\ a \in Record /\ b \in Record /\ a.val \in Word /\ b.val \in Word
      /\ \A i \in Inputs : a.sym[i] \in Word /\ b.sym[i] \in Word
  BY Parts, Zenon
<1>2. sym \in [Inputs -> Word] /\ val \in Word
  BY <1>1, Closed
<1>3. \A i \in Inputs : sym[i] = And(a.sym[i], b.sym[i])
  OBVIOUS
<1>4. and(a, b) = BitVec(sym, val, {a, b}, {}, FALSE)
  BY Zenon DEF and
<1> HIDE DEF sym
<1>5. Made(and(a, b), a, b, sym, val, {}, FALSE)
  BY <1>1, <1>2, <1>4, BitVec2
<1>6. a.val = a.sym[Zero] /\ b.val = b.sym[Zero] /\ ~FALSE => val = sym[Zero]
  BY <1>3, ZeroIsInput, Zenon
<1>7. /\ and(a, b) \in Vectors
      /\ Carries(and(a, b), a, b, sym, {})
  BY <1>5, <1>6, Combined
<1> QED
  BY <1>3, <1>7, Zenon DEF Carries

\* or is the bitwise disjunction.
LEMMA OrExact ==
    ASSUME NEW a \in Vectors, NEW b \in Vectors
    PROVE  /\ or(a, b) \in Vectors
           /\ \A i \in Inputs : \A x, y : Exact(a, i, x) /\ Exact(b, i, y) =>
                Exact(or(a, b), i, Or(x, y))
           /\ \A i \in Inputs : Clear(or(a, b), i) => Clear(a, i) /\ Clear(b, i)
<1> DEFINE sym == [i \in Inputs |-> Or(a.sym[i], b.sym[i])]
           val == Or(a.val, b.val)
<1>1. /\ a \in Record /\ b \in Record /\ a.val \in Word /\ b.val \in Word
      /\ \A i \in Inputs : a.sym[i] \in Word /\ b.sym[i] \in Word
  BY Parts, Zenon
<1>2. sym \in [Inputs -> Word] /\ val \in Word
  BY <1>1, Closed
<1>3. \A i \in Inputs : sym[i] = Or(a.sym[i], b.sym[i])
  OBVIOUS
<1>4. or(a, b) = BitVec(sym, val, {a, b}, {}, FALSE)
  BY Zenon DEF or
<1> HIDE DEF sym
<1>5. Made(or(a, b), a, b, sym, val, {}, FALSE)
  BY <1>1, <1>2, <1>4, BitVec2
<1>6. a.val = a.sym[Zero] /\ b.val = b.sym[Zero] /\ ~FALSE => val = sym[Zero]
  BY <1>3, ZeroIsInput, Zenon
<1>7. /\ or(a, b) \in Vectors
      /\ Carries(or(a, b), a, b, sym, {})
  BY <1>5, <1>6, Combined
<1> QED
  BY <1>3, <1>7, Zenon DEF Carries

\* mul multiplies.
LEMMA MulExact ==
    ASSUME NEW a \in Vectors, NEW b \in Vectors
    PROVE  /\ mul(a, b) \in Vectors
           /\ \A i \in Inputs : \A x, y : Exact(a, i, x) /\ Exact(b, i, y) =>
                Exact(mul(a, b), i, (x * y) % M)
           /\ \A i \in Inputs : Clear(mul(a, b), i) => Clear(a, i) /\ Clear(b, i)
<1> DEFINE sym == [i \in Inputs |-> (a.sym[i] * b.sym[i]) % M]
           val == (a.val * b.val) % M
<1>1. /\ a \in Record /\ b \in Record /\ a.val \in Word /\ b.val \in Word
      /\ \A i \in Inputs : a.sym[i] \in Word /\ b.sym[i] \in Word
  BY Parts, Zenon
<1>2. sym \in [Inputs -> Word] /\ val \in Word
  BY <1>1, Closed
<1>3. \A i \in Inputs : sym[i] = (a.sym[i] * b.sym[i]) % M
  OBVIOUS
<1>4. mul(a, b) = BitVec(sym, val, {a, b}, {}, FALSE)
  BY Zenon DEF mul
<1> HIDE DEF sym
<1>5. Made(mul(a, b), a, b, sym, val, {}, FALSE)
  BY <1>1, <1>2, <1>4, BitVec2
<1>6. a.val = a.sym[Zero] /\ b.val = b.sym[Zero] /\ ~FALSE => val = sym[Zero]
  BY <1>3, ZeroIsInput, Zenon
<1>7. /\ mul(a, b) \in Vectors
      /\ Carries(mul(a, b), a, b, sym, {})
  BY <1>5, <1>6, Combined
<1> QED
  BY <1>3, <1>7, Zenon DEF Carries

\* xor is doubtful everywhere, and split.
LEMMA XorExact ==
    ASSUME NEW a \in Vectors, NEW b \in Vectors
    PROVE  /\ xor(a, b) \in Vectors
           /\ \A i \in Inputs : \A x, y : Exact(a, i, x) /\ Exact(b, i, y) =>
                Exact(xor(a, b), i, Xor(x, y))
           /\ \A i \in Inputs : Clear(xor(a, b), i) => Clear(a, i) /\ Clear(b, i)
<1> DEFINE sym == [i \in Inputs |-> Not(Xor(a.sym[i], b.sym[i]))]
           val == Xor(a.val, b.val)
<1>1. /\ a \in Record /\ b \in Record /\ a.val \in Word /\ b.val \in Word
      /\ \A i \in Inputs : a.sym[i] \in Word /\ b.sym[i] \in Word
  BY Parts, Zenon
<1>2. sym \in [Inputs -> Word] /\ val \in Word
  BY <1>1, Closed
<1>3. \A i \in Inputs : sym[i] = Not(Xor(a.sym[i], b.sym[i]))
  OBVIOUS
<1>4. xor(a, b) = BitVec(sym, val, {a, b}, Inputs, TRUE)
  BY Zenon DEF xor
<1> HIDE DEF sym
<1>5. Made(xor(a, b), a, b, sym, val, Inputs, TRUE)
  BY <1>1, <1>2, <1>4, BitVec2
<1>6. a.val = a.sym[Zero] /\ b.val = b.sym[Zero] /\ ~TRUE => val = sym[Zero]
  BY <1>3, ZeroIsInput, Zenon
<1>7. /\ xor(a, b) \in Vectors
      /\ Carries(xor(a, b), a, b, sym, Inputs)
  BY <1>5, <1>6, Combined
<1> QED
  BY <1>3, <1>7, Zenon DEF Carries

\* not is the complement.
LEMMA NotExact ==
    ASSUME NEW a \in Vectors
    PROVE  /\ not(a) \in Vectors
           /\ \A i \in Inputs : \A x : Exact(a, i, x) => Exact(not(a), i, Not(x))
           /\ \A i \in Inputs : Clear(not(a), i) => Clear(a, i)
<1> DEFINE sym == [i \in Inputs |-> Not(a.sym[i])]
           val == Not(a.val)
           split == FALSE
           doubt == {}
<1>1. /\ a \in Record /\ a.val \in Word
      /\ \A i \in Inputs : a.sym[i] \in Word
  BY Parts, Zenon
<1>2. sym \in [Inputs -> Word] /\ val \in Word
  BY <1>1, Closed
<1>3. \A i \in Inputs : sym[i] = Not(a.sym[i])
  OBVIOUS
<1>4. not(a) = BitVec(sym, val, {a}, doubt, split)
  BY Zenon DEF not
<1>5. split \in BOOLEAN /\ doubt \in SUBSET Inputs
  OBVIOUS
<1>6. a.val = a.sym[Zero] /\ a.val = a.sym[Zero] /\ ~split => val = sym[Zero]
  BY <1>3, ZeroIsInput, Zenon
<1> HIDE DEF sym, val, split, doubt
<1>7. /\ not(a) \in Vectors
      /\ Carries(not(a), a, a, sym, doubt)
  <2>1. Made(not(a), a, a, sym, val, doubt, split)
    BY <1>1, <1>2, <1>4, <1>5, BitVec1
  <2> QED
    BY <1>5, <1>6, <2>1, Combined
<1> QED
  BY <1>3, <1>7, Zenon DEF Carries

\* shiftLeft shifts to the left.
LEMMA ShiftLeftExact ==
    ASSUME NEW a \in Vectors, NEW k \in 0..W
    PROVE  /\ shiftLeft(a, k) \in Vectors
           /\ \A i \in Inputs : \A x : Exact(a, i, x) => Exact(shiftLeft(a, k), i, Shl(x, k))
           /\ \A i \in Inputs : Clear(shiftLeft(a, k), i) => Clear(a, i)
<1> DEFINE sym == [i \in Inputs |-> Shl(a.sym[i], k)]
           val == Shl(a.val, k)
           split == FALSE
           doubt == {}
<1>1. /\ a \in Record /\ a.val \in Word
      /\ \A i \in Inputs : a.sym[i] \in Word
  BY Parts, Zenon
<1>2. sym \in [Inputs -> Word] /\ val \in Word
  BY <1>1, ShiftsClosed
<1>3. \A i \in Inputs : sym[i] = Shl(a.sym[i], k)
  OBVIOUS
<1>4. shiftLeft(a, k) = BitVec(sym, val, {a}, doubt, split)
  BY Zenon DEF shiftLeft
<1>5. split \in BOOLEAN /\ doubt \in SUBSET Inputs
  OBVIOUS
<1>6. a.val = a.sym[Zero] /\ a.val = a.sym[Zero] /\ ~split => val = sym[Zero]
  BY <1>3, ZeroIsInput, Zenon
<1> HIDE DEF sym, val, split, doubt
<1>7. /\ shiftLeft(a, k) \in Vectors
      /\ Carries(shiftLeft(a, k), a, a, sym, doubt)
  <2>1. Made(shiftLeft(a, k), a, a, sym, val, doubt, split)
    BY <1>1, <1>2, <1>4, <1>5, BitVec1
  <2> QED
    BY <1>5, <1>6, <2>1, Combined
<1> QED
  BY <1>3, <1>7, Zenon DEF Carries

\* shiftRight is the logical shift; its halves differ on a negative value alone.
LEMMA ShiftRightExact ==
    ASSUME NEW a \in Vectors, NEW k \in 0..W
    PROVE  /\ shiftRight(a, k) \in Vectors
           /\ \A i \in Inputs : \A x : Exact(a, i, x) => Exact(shiftRight(a, k), i, Lshr(x, k))
           /\ \A i \in Inputs : Clear(shiftRight(a, k), i) => Clear(a, i)
<1> DEFINE sym == [i \in Inputs |-> Lshr(a.sym[i], k)]
           val == Ashr(a.val, k)
           split == k > 0 /\ Negative(a.val)
           doubt == {}
<1>1. /\ a \in Record /\ a.val \in Word
      /\ \A i \in Inputs : a.sym[i] \in Word
  BY Parts, Zenon
<1>2. sym \in [Inputs -> Word] /\ val \in Word
  BY <1>1, ShiftsClosed
<1>3. \A i \in Inputs : sym[i] = Lshr(a.sym[i], k)
  OBVIOUS
<1>4. shiftRight(a, k) = BitVec(sym, val, {a}, doubt, split)
  BY Zenon DEF shiftRight
<1>5. split \in BOOLEAN /\ doubt \in SUBSET Inputs
  OBVIOUS
<1>6. a.val = a.sym[Zero] /\ a.val = a.sym[Zero] /\ ~split => val = sym[Zero]
  BY <1>1, <1>3, ZeroIsInput, SameRightShift
<1> HIDE DEF sym, val, split, doubt
<1>7. /\ shiftRight(a, k) \in Vectors
      /\ Carries(shiftRight(a, k), a, a, sym, doubt)
  <2>1. Made(shiftRight(a, k), a, a, sym, val, doubt, split)
    BY <1>1, <1>2, <1>4, <1>5, BitVec1
  <2> QED
    BY <1>5, <1>6, <2>1, Combined
<1> QED
  BY <1>3, <1>7, Zenon DEF Carries

\* What mul writes is exact where the product is 0.
LEMMA ShiftedOutExact ==
    ASSUME NEW a \in Vectors
    PROVE  /\ shiftedOut(a) \in Vectors
           /\ \A i \in Inputs : \A x : Exact(a, i, x) => Exact(shiftedOut(a), i, x)
           /\ \A i \in Inputs : Clear(shiftedOut(a), i) => Clear(a, i)
<1> DEFINE sym == [i \in Inputs |-> 0]
           val == DigitsAsHex(a.val)
           split == DigitsAsHex(a.val) # 0
           doubt == {i \in Inputs : a.sym[i] # 0}
<1>1. /\ a \in Record /\ a.val \in Word
      /\ \A i \in Inputs : a.sym[i] \in Word
  BY Parts, Zenon
<1>2. sym \in [Inputs -> Word] /\ val \in Word
  BY <1>1, WordsAssumption, WordRange, Modulus
<1>3. \A i \in Inputs : sym[i] = 0
  OBVIOUS
<1>4. shiftedOut(a) = BitVec(sym, val, {a}, doubt, split)
  BY Zenon DEF shiftedOut
<1>5. split \in BOOLEAN /\ doubt \in SUBSET Inputs
  OBVIOUS
<1>6. a.val = a.sym[Zero] /\ a.val = a.sym[Zero] /\ ~split => val = sym[Zero]
  BY <1>3, ZeroIsInput, Zenon
<1> HIDE DEF sym, val, split
<1>7. /\ shiftedOut(a) \in Vectors
      /\ Carries(shiftedOut(a), a, a, sym, doubt)
  <2>1. Made(shiftedOut(a), a, a, sym, val, doubt, split)
    BY <1>1, <1>2, <1>4, <1>5, BitVec1
  <2> QED
    BY <1>5, <1>6, <2>1, Combined
<1> QED
  BY <1>3, <1>7, Zenon DEF Carries

(***************************************************************************)
(* The flexible second operand                                             *)
(***************************************************************************)
Core == [r0 : Word, r1 : Word, N : BOOLEAN, Z : BOOLEAN, C : BOOLEAN, V : BOOLEAN]

Shifts == {"", "lsl", "lsr", "asr", "ror", "rrx"}

\* The fields of an instruction.
LEMMA Fields ==
    ASSUME NEW n \in Instructions
    PROVE  /\ n.op \in Ops /\ n.rd \in Regs /\ n.rn \in Regs /\ n.src \in Regs \cup {"imm"}
           /\ n.imm \in Word /\ n.extra \in Shifts /\ n.amount \in 0..W
           /\ n.op \in {"lsl", "lsr", "asr"} => n.imm \in 0..W
           /\ n.s \in BOOLEAN
<1>1. n \in [op : Ops, rd : Regs, rn : Regs, src : Regs \cup {"imm"}, imm : Word,
             extra : Shifts, amount : 0..(W - 1), s : BOOLEAN]
  BY AluAssumption DEF Shifts
<1>2. /\ n.op \in Ops /\ n.rd \in Regs /\ n.rn \in Regs /\ n.src \in Regs \cup {"imm"}
      /\ n.imm \in Word /\ n.extra \in Shifts /\ n.amount \in 0..(W - 1)
      /\ n.s \in BOOLEAN
  BY <1>1
<1>3. n.amount \in 0..W
  BY <1>2, Modulus
<1>4. n.op \in {"lsl", "lsr", "asr"} => n.imm <= W
  BY AluAssumption
<1>5. n.op \in {"lsl", "lsr", "asr"} => n.imm \in 0..W
  BY <1>2, <1>4, WordRange, Modulus
<1> QED
  BY <1>2, <1>3, <1>5

\* The registers of a core hold words.
LEMMA Reads ==
    ASSUME NEW m \in Core, NEW r \in Regs
    PROVE  m[r] \in Word
<1>1. m.r0 \in Word /\ m.r1 \in Word
  BY DEF Core
<1> QED
  BY <1>1 DEF Regs

\* An operand without a shift goes through the ARM core unchanged.
LEMMA ArmShiftNone ==
    ASSUME NEW type, NEW x, NEW k, NEW m, type = ""
    PROVE  ArmShift(type, x, k, m).val = x
  BY DEF ArmShift

\* What the ARM core shifts to, by the type of the shift.
LEMMA ArmShiftVal ==
    ASSUME NEW type, NEW x, NEW k, NEW m
    PROVE  /\ type = "lsl" => ArmShift(type, x, k, m).val = Shl(x, k)
           /\ type = "lsr" => ArmShift(type, x, k, m).val = Lshr(x, k)
           /\ type = "asr" => ArmShift(type, x, k, m).val = Ashr(x, k)
           /\ type = "ror" => ArmShift(type, x, k, m).val = Lshr(x, k) + Shl(x, W - k)
           /\ type = "rrx" => ArmShift(type, x, k, m).val = Lshr(x, 1) + (IF m.C THEN MinWord ELSE 0)
<1>1. type = "lsl" => ArmShift(type, x, k, m).val = Shl(x, k)
  BY DEF ArmShift
<1>2. type = "lsr" => ArmShift(type, x, k, m).val = Lshr(x, k)
  BY DEF ArmShift
<1>3. type = "asr" => ArmShift(type, x, k, m).val = Ashr(x, k)
  BY DEF ArmShift
<1>4. type = "ror" => ArmShift(type, x, k, m).val = Lshr(x, k) + Shl(x, W - k)
  BY DEF ArmShift
<1>5. type = "rrx" => ArmShift(type, x, k, m).val = Lshr(x, 1) + (IF m.C THEN MinWord ELSE 0)
  BY DEF ArmShift
<1> QED
  BY <1>1, <1>2, <1>3, <1>4, <1>5

\* The ARM core shifts words to words.
LEMMA ArmShiftClosed ==
    ASSUME NEW type \in Shifts, NEW x \in Word, NEW k \in 0..W, NEW m
    PROVE  ArmShift(type, x, k, m).val \in Word
<1>1. CASE type = ""
  BY <1>1, ArmShiftNone, Zenon
<1>2. CASE type = "lsl"
  <2>1. ArmShift(type, x, k, m).val = Shl(x, k)
    BY <1>2, ArmShiftVal
  <2> QED
    BY <2>1, ShiftsClosed
<1>3. CASE type = "lsr"
  <2>1. ArmShift(type, x, k, m).val = Lshr(x, k)
    BY <1>3, ArmShiftVal
  <2> QED
    BY <2>1, ShiftsClosed
<1>4. CASE type = "asr"
  <2>1. ArmShift(type, x, k, m).val = Ashr(x, k)
    BY <1>4, ArmShiftVal
  <2> QED
    BY <2>1, ShiftsClosed
<1>5. CASE type = "ror"
  <2>1. ArmShift(type, x, k, m).val = Lshr(x, k) + Shl(x, W - k)
    BY <1>5, ArmShiftVal
  <2> QED
    BY <2>1, RotateClosed
<1>6. CASE type = "rrx"
  <2> DEFINE c == IF m.C THEN MinWord ELSE 0
  <2>1. ArmShift(type, x, k, m).val = Lshr(x, 1) + c
    BY <1>6, ArmShiftVal
  <2>2. c \in {0, MinWord}
    OBVIOUS
  <2> HIDE DEF c
  <2> QED
    BY <2>1, <2>2, RrxClosed
<1> QED
  BY <1>1, <1>2, <1>3, <1>4, <1>5, <1>6, Zenon DEF Shifts

\* handleExtra shifts as the ARM core does outside the inputs it marks.
LEMMA HandleExtraExact ==
    ASSUME NEW v \in Vectors, NEW n \in Instructions
    PROVE  /\ handleExtra(v, n) \in Vectors
           /\ \A i \in Inputs : \A x \in Word : Exact(v, i, x) =>
                Exact(handleExtra(v, n), i, ArmShift(n.extra, x, n.amount, machine[i]).val)
<1> DEFINE k == n.amount
           right == shiftRight(v, k)
<1>1. k \in 0..W /\ n.extra \in Shifts /\ 1 \in 0..W
  BY Fields, Modulus
<1>2. /\ right \in Vectors
      /\ \A i \in Inputs : \A x : Exact(v, i, x) => Exact(right, i, Lshr(x, k))
      /\ \A i \in Inputs : Clear(right, i) => Clear(v, i)
  BY <1>1, ShiftRightExact
<1>3. CASE n.extra = ""
  <2>1. handleExtra(v, n) = v
    BY <1>3 DEF handleExtra
  <2>2. \A i \in Inputs : \A x \in Word :
          ArmShift(n.extra, x, n.amount, machine[i]).val = x
    BY <1>3 DEF ArmShift
  <2> QED
    BY <2>1, <2>2, Zenon
<1>4. CASE n.extra = "lsl"
  <2>1. handleExtra(v, n) = shiftLeft(v, k)
    BY <1>4 DEF handleExtra
  <2>2. \A i \in Inputs : \A x \in Word :
          ArmShift(n.extra, x, n.amount, machine[i]).val = Shl(x, k)
    BY <1>4, ArmShiftVal
  <2> QED
    BY <1>1, <2>1, ShiftLeftExact, <2>2, Zenon
<1>5. CASE n.extra = "lsr"
  <2>1. handleExtra(v, n) = right
    BY <1>5 DEF handleExtra
  <2>2. \A i \in Inputs : \A x \in Word :
          ArmShift(n.extra, x, n.amount, machine[i]).val = Lshr(x, k)
    BY <1>5, ArmShiftVal
  <2> QED
    BY <1>2, <2>1, <2>2, Zenon
<1>6. CASE n.extra = "asr"
  <2> DEFINE lost == {i \in Inputs : Negative(v.sym[i])}
  <2>1. handleExtra(v, n) = InDoubt(right, lost)
    BY <1>6 DEF handleExtra
  <2>2. \A i \in Inputs : i \notin lost => ~Negative(v.sym[i])
    OBVIOUS
  <2> HIDE DEF right, lost
  <2>3. lost \in SUBSET Inputs
    BY DEF lost
  <2>4. ASSUME NEW i \in Inputs, NEW x \in Word, Exact(v, i, x), i \notin lost
        PROVE  Exact(right, i, Ashr(x, k))
    <3>1. Clear(v, i) => v.sym[i] = x /\ Ashr(x, k) = Lshr(x, k)
      BY <1>1, <2>2, <2>4, SameRightShift DEF Exact
    <3>2. Exact(right, i, Lshr(x, k)) /\ (Clear(right, i) => Clear(v, i))
      BY <1>2, <2>4, Zenon
    <3> QED
      BY <3>1, <3>2, Zenon DEF Exact
  <2>5. /\ InDoubt(right, lost) \in Vectors
        /\ \A i \in Inputs : \A x \in Word : Exact(v, i, x) =>
             Exact(InDoubt(right, lost), i, Ashr(x, k))
    BY <1>2, <2>3, <2>4, DoubtExact
  <2>6. \A i \in Inputs : \A x \in Word :
          ArmShift(n.extra, x, n.amount, machine[i]).val = Ashr(x, k)
    BY <1>6, ArmShiftVal
  <2> QED
    BY <2>1, <2>5, <2>6, Zenon
<1>7. CASE n.extra = "ror"
  <2> DEFINE lost == {i \in Inputs : v.sym[i] % 2 ^ n.amount # 0}
  <2>1. handleExtra(v, n) = InDoubt(right, lost)
    BY <1>7 DEF handleExtra
  <2>2. \A i \in Inputs : i \notin lost => v.sym[i] % 2 ^ k = 0
    OBVIOUS
  <2> HIDE DEF right, lost
  <2>3. lost \in SUBSET Inputs
    BY DEF lost
  <2>4. ASSUME NEW i \in Inputs, NEW x \in Word, Exact(v, i, x), i \notin lost
        PROVE  Exact(right, i, Lshr(x, k) + Shl(x, W - k))
    <3>1. Clear(v, i) => v.sym[i] = x /\ x % 2 ^ k = 0
      BY <2>2, <2>4, Zenon DEF Exact
    <3>2. x % 2 ^ k = 0 => Lshr(x, k) + Shl(x, W - k) = Lshr(x, k)
      BY <1>1, RotateLosesNothing
    <3>3. Exact(right, i, Lshr(x, k)) /\ (Clear(right, i) => Clear(v, i))
      BY <1>2, <2>4, Zenon
    <3> QED
      BY <3>1, <3>2, <3>3, Zenon DEF Exact
  <2>5. /\ InDoubt(right, lost) \in Vectors
        /\ \A i \in Inputs : \A x \in Word : Exact(v, i, x) =>
             Exact(InDoubt(right, lost), i, Lshr(x, k) + Shl(x, W - k))
    BY <1>2, <2>3, <2>4, DoubtExact
  <2>6. \A i \in Inputs : \A x \in Word :
          ArmShift(n.extra, x, n.amount, machine[i]).val = Lshr(x, k) + Shl(x, W - k)
    BY <1>7, ArmShiftVal
  <2> QED
    BY <2>1, <2>5, <2>6, Zenon
<1>8. CASE n.extra = "rrx"
  <2> DEFINE lost == {i \in Inputs : machine[i].C}
             once == shiftRight(v, 1)
  <2>1. handleExtra(v, n) = InDoubt(once, lost)
    BY <1>8 DEF handleExtra
  <2>2. \A i \in Inputs : i \notin lost => ~machine[i].C
    OBVIOUS
  <2>3. lost \in SUBSET Inputs
    OBVIOUS
  <2>4. once \in Vectors /\ \A i \in Inputs : \A x : Exact(v, i, x) => Exact(once, i, Lshr(x, 1))
    BY <1>1, ShiftRightExact
  <2> HIDE DEF lost, once
  <2>5. ASSUME NEW i \in Inputs, NEW x \in Word, Exact(v, i, x), i \notin lost
        PROVE  Exact(once, i, Lshr(x, 1) + (IF machine[i].C THEN MinWord ELSE 0))
    <3>1. Lshr(x, 1) \in Int
      BY <1>1, ShiftsClosed, WordRange
    <3>2. Lshr(x, 1) + (IF machine[i].C THEN MinWord ELSE 0) = Lshr(x, 1)
      BY <2>2, <2>5, <3>1
    <3> QED
      BY <2>4, <2>5, <3>2, Zenon
  <2>6. /\ InDoubt(once, lost) \in Vectors
        /\ \A i \in Inputs : \A x \in Word : Exact(v, i, x) =>
             Exact(InDoubt(once, lost), i, Lshr(x, 1) + (IF machine[i].C THEN MinWord ELSE 0))
    BY <2>3, <2>4, <2>5, DoubtExact
  <2>7. \A i \in Inputs : \A x \in Word :
          ArmShift(n.extra, x, n.amount, machine[i]).val = Lshr(x, 1) + (IF machine[i].C THEN MinWord ELSE 0)
    BY <1>8, ArmShiftVal
  <2> QED
    BY <2>1, <2>6, <2>7, Zenon
<1> QED
  BY <1>1, <1>3, <1>4, <1>5, <1>6, <1>7, <1>8 DEF Shifts

\* The registers of Corana beside those of the ARM cores.
Related ==
    /\ regs \in [Regs -> Vectors] /\ machine \in [Inputs -> Core]
    /\ \A r \in Regs, i \in Inputs : Exact(regs[r], i, machine[i][r])

ArmSource(n, m) == IF n.src = "imm" THEN n.imm ELSE m[n.src]
ArmOperand(n, m) == ArmShift(n.extra, ArmSource(n, m), n.amount, m).val

\* The operand of the ARM core is a word.
LEMMA ArmOperandWord ==
    ASSUME NEW n \in Instructions, NEW m \in Core
    PROVE  ArmSource(n, m) \in Word /\ ArmOperand(n, m) \in Word
<1>1. ArmSource(n, m) \in Word
  BY Fields, Reads DEF ArmSource
<1> QED
  BY <1>1, Fields, ArmShiftClosed DEF ArmOperand

\* The second operand is that of the ARM core.
LEMMA OperandExact ==
    ASSUME Related, NEW n \in Instructions
    PROVE  /\ Operand2(n) \in Vectors
           /\ \A i \in Inputs : Exact(Operand2(n), i, ArmOperand(n, machine[i]))
<1>1. /\ n.src \in Regs \cup {"imm"} /\ n.imm \in Word /\ n.extra \in Shifts
      /\ \A i \in Inputs : machine[i] \in Core
  BY Fields DEF Related
<1>2. Source(n) \in Vectors /\ \A i \in Inputs : Exact(Source(n), i, ArmSource(n, machine[i]))
  <2>1. CASE n.src = "imm"
    <3>1. Source(n) = Literal(n.imm) /\ \A i \in Inputs : ArmSource(n, machine[i]) = n.imm
      BY <2>1 DEF Source, ArmSource
    <3> QED
      BY <1>1, <3>1, LiteralExact
  <2>2. CASE n.src # "imm"
    <3>1. /\ n.src \in Regs /\ Source(n) = regs[n.src]
          /\ \A i \in Inputs : ArmSource(n, machine[i]) = machine[i][n.src]
      BY <1>1, <2>2 DEF Source, ArmSource
    <3> QED
      BY <3>1 DEF Related
  <2> QED
    BY <2>1, <2>2
<1>3. \A i \in Inputs : ArmSource(n, machine[i]) \in Word
  BY <1>1, ArmOperandWord
<1>4. CASE ~ExtraIgnored(n)
  <2>1. Operand2(n) = handleExtra(Source(n), n)
    BY <1>4 DEF Operand2
  <2>2. \A v \in Vectors :
          /\ handleExtra(v, n) \in Vectors
          /\ \A i \in Inputs : \A x \in Word : Exact(v, i, x) =>
               Exact(handleExtra(v, n), i, ArmShift(n.extra, x, n.amount, machine[i]).val)
    BY HandleExtraExact, Zenon
  <2> QED
    BY <1>2, <1>3, <2>1, <2>2, Zenon DEF ArmOperand
<1>5. CASE ExtraIgnored(n) /\ n.extra = ""
  <2>1. Operand2(n) = InDoubt(Source(n), {})
    BY <1>5 DEF Operand2
  <2>2. \A i \in Inputs :
          ArmShift(n.extra, ArmSource(n, machine[i]), n.amount, machine[i]).val
            = ArmSource(n, machine[i])
    BY <1>5 DEF ArmShift
  <2>3. \A v \in Vectors : \A inputs \in SUBSET Inputs :
          /\ InDoubt(v, inputs) \in Vectors
          /\ \A i \in Inputs : \A x : (i \notin inputs => Exact(v, i, x)) =>
                Exact(InDoubt(v, inputs), i, x)
    BY DoubtExact, Zenon
  <2>4. {} \in SUBSET Inputs
    OBVIOUS
  <2> QED
    BY <1>2, <2>1, <2>2, <2>3, <2>4, Zenon DEF ArmOperand
<1>6. CASE ExtraIgnored(n) /\ n.extra # ""
  <2>1. Operand2(n) = InDoubt(Source(n), Inputs)
    BY <1>6, Zenon DEF Operand2
  <2>2. \A v \in Vectors : \A inputs \in SUBSET Inputs :
          /\ InDoubt(v, inputs) \in Vectors
          /\ \A i \in Inputs : \A x : (i \notin inputs => Exact(v, i, x)) =>
                Exact(InDoubt(v, inputs), i, x)
    BY DoubtExact, Zenon
  <2>3. Inputs \in SUBSET Inputs
    OBVIOUS
  <2> QED
    BY <1>2, <2>1, <2>2, <2>3, Zenon
<1> QED
  BY <1>4, <1>5, <1>6

(***************************************************************************)
(* The instructions                                                        *)
(***************************************************************************)
\* A shifted operand is a record with a value.
LEMMA ShiftedRecord ==
    ASSUME NEW type \in Shifts, NEW x, NEW k, NEW m, NEW z
    PROVE  [ArmShift(type, x, k, m) EXCEPT !.val = z].val = z
<1> DEFINE y == ArmShift(type, x, k, m)
<1>1. \A v, c : [[val |-> v, carry |-> c] EXCEPT !.val = z].val = z
  OBVIOUS
<1>2. \E v, c : y = [val |-> v, carry |-> c]
  <2>1. CASE type = ""
    BY <2>1, Zenon DEF ArmShift
  <2>2. CASE type = "lsl"
    BY <2>2, Zenon DEF ArmShift
  <2>3. CASE type = "lsr"
    BY <2>3, Zenon DEF ArmShift
  <2>4. CASE type = "asr"
    BY <2>4, Zenon DEF ArmShift
  <2>5. CASE type = "ror"
    BY <2>5, Zenon DEF ArmShift
  <2>6. CASE type = "rrx"
    BY <2>6, Zenon DEF ArmShift
  <2> QED
    BY <2>1, <2>2, <2>3, <2>4, <2>5, <2>6, Zenon DEF Shifts
<1> HIDE DEF y
<1>3. [y EXCEPT !.val = z].val = z
  BY <1>1, <1>2, Zenon
<1> QED
  BY <1>3 DEF y

\* The value that an instruction of the ARM core gives.
LEMMA ArmResultVal ==
    ASSUME NEW n \in Instructions, NEW m
    PROVE  LET x == m[n.rn]
               y == ArmOperand(n, m)
           IN  /\ n.op = "mov" => ArmResult(n, m).val = y
               /\ n.op = "mvn" => ArmResult(n, m).val = Not(y)
               /\ n.op = "and" => ArmResult(n, m).val = And(x, y)
               /\ n.op = "bic" => ArmResult(n, m).val = And(x, Not(y))
               /\ n.op = "orr" => ArmResult(n, m).val = Or(x, y)
               /\ n.op = "eor" => ArmResult(n, m).val = Xor(x, y)
               /\ n.op \in {"add", "cmn"} => ArmResult(n, m).val = ArmAdd(x, y, FALSE).val
               /\ n.op = "adc" => ArmResult(n, m).val = ArmAdd(x, y, m.C).val
               /\ n.op \in {"sub", "cmp"} => ArmResult(n, m).val = ArmAdd(x, Not(y), TRUE).val
               /\ n.op = "rsb" => ArmResult(n, m).val = ArmAdd(y, Not(x), TRUE).val
               /\ n.op = "mul" => ArmResult(n, m).val = (x * y) % M
               /\ n.op \in {"lsl", "lsr", "asr"} =>
                    ArmResult(n, m).val = ArmShift(n.op, x, n.imm, m).val
<1> DEFINE x == m[n.rn]
           shifted == ArmShift(n.extra, ArmSource(n, m), n.amount, m)
           y == ArmOperand(n, m)
<1>1. \A z : [shifted EXCEPT !.val = z].val = z
  BY Fields, ShiftedRecord
<1>2. n.op = "mov" => ArmResult(n, m).val = y
  <2>1. n.op = "mov" => ArmResult(n, m).val = [shifted EXCEPT !.val = y].val
    BY DEF ArmResult, ArmOperand, ArmSource
  <2> QED
    BY <1>1, <2>1, Zenon
<1>3. n.op = "mvn" => ArmResult(n, m).val = Not(y)
  <2>1. n.op = "mvn" => ArmResult(n, m).val = [shifted EXCEPT !.val = Not(y)].val
    BY DEF ArmResult, ArmOperand, ArmSource
  <2> QED
    BY <1>1, <2>1, Zenon
<1>4. n.op = "and" => ArmResult(n, m).val = And(x, y)
  <2>1. n.op = "and" => ArmResult(n, m).val = [shifted EXCEPT !.val = And(x, y)].val
    BY DEF ArmResult, ArmOperand, ArmSource
  <2> QED
    BY <1>1, <2>1, Zenon
<1>5. n.op = "bic" => ArmResult(n, m).val = And(x, Not(y))
  <2>1. n.op = "bic" => ArmResult(n, m).val = [shifted EXCEPT !.val = And(x, Not(y))].val
    BY DEF ArmResult, ArmOperand, ArmSource
  <2> QED
    BY <1>1, <2>1, Zenon
<1>6. n.op = "orr" => ArmResult(n, m).val = Or(x, y)
  <2>1. n.op = "orr" => ArmResult(n, m).val = [shifted EXCEPT !.val = Or(x, y)].val
    BY DEF ArmResult, ArmOperand, ArmSource
  <2> QED
    BY <1>1, <2>1, Zenon
<1>7. n.op = "eor" => ArmResult(n, m).val = Xor(x, y)
  <2>1. n.op = "eor" => ArmResult(n, m).val = [shifted EXCEPT !.val = Xor(x, y)].val
    BY DEF ArmResult, ArmOperand, ArmSource
  <2> QED
    BY <1>1, <2>1, Zenon
<1>8. n.op \in {"add", "cmn"} => ArmResult(n, m).val = ArmAdd(x, y, FALSE).val
  BY DEF ArmResult, ArmOperand, ArmSource
<1>9. n.op = "adc" => ArmResult(n, m).val = ArmAdd(x, y, m.C).val
  BY DEF ArmResult, ArmOperand, ArmSource
<1>10. n.op \in {"sub", "cmp"} => ArmResult(n, m).val = ArmAdd(x, Not(y), TRUE).val
  BY DEF ArmResult, ArmOperand, ArmSource
<1>11. n.op = "rsb" => ArmResult(n, m).val = ArmAdd(y, Not(x), TRUE).val
  BY DEF ArmResult, ArmOperand, ArmSource
<1>12. n.op = "mul" => ArmResult(n, m).val = (x * y) % M
  BY DEF ArmResult, ArmOperand, ArmSource
<1>13. n.op \in {"lsl", "lsr", "asr"} => ArmResult(n, m).val = ArmShift(n.op, x, n.imm, m).val
  BY DEF ArmResult, ArmOperand, ArmSource
<1> HIDE DEF x, y
<1> QED
  BY <1>2, <1>3, <1>4, <1>5, <1>6, <1>7, <1>8, <1>9, <1>10, <1>11, <1>12, <1>13, Zenon DEF x, y

\* An instruction of the ARM core gives a word.
LEMMA ArmResultWord ==
    ASSUME NEW n \in Instructions, NEW m \in Core
    PROVE  ArmResult(n, m).val \in Word
<1> DEFINE x == m[n.rn]
           y == ArmOperand(n, m)
           r == ArmResult(n, m).val
<1>1. x \in Word /\ y \in Word /\ n.op \in Ops
  BY Fields, Reads, ArmOperandWord
<1>2. Not(x) \in Word /\ Not(y) \in Word /\ m.C \in BOOLEAN
  BY <1>1, Closed DEF Core
<1> HIDE DEF x, y
<1>3. n.op \in {"mov", "mvn"} => r \in Word
  BY <1>1, <1>2, ArmResultVal DEF y
<1>4. n.op \in {"and", "bic", "orr", "eor"} => r \in Word
  <2>1. r \in {And(x, y), And(x, Not(y)), Or(x, y), Xor(x, y)} \/ n.op \notin {"and", "bic", "orr", "eor"}
    BY ArmResultVal DEF x, y
  <2>2. And(x, y) \in Word /\ And(x, Not(y)) \in Word /\ Or(x, y) \in Word /\ Xor(x, y) \in Word
    BY <1>1, <1>2, Closed
  <2> QED
    BY <2>1, <2>2
<1>5. n.op \in {"add", "cmn", "adc", "sub", "cmp", "rsb"} => r \in Word
  <2>1. \/ n.op \notin {"add", "cmn", "adc", "sub", "cmp", "rsb"}
        \/ r \in {ArmAdd(x, y, FALSE).val, ArmAdd(x, y, m.C).val, ArmAdd(x, Not(y), TRUE).val,
                   ArmAdd(y, Not(x), TRUE).val}
    BY ArmResultVal DEF x, y
  <2>2. /\ ArmAdd(x, y, FALSE).val \in Word /\ ArmAdd(x, y, m.C).val \in Word
        /\ ArmAdd(x, Not(y), TRUE).val \in Word /\ ArmAdd(y, Not(x), TRUE).val \in Word
    BY <1>1, <1>2, AddClosed
  <2> QED
    BY <2>1, <2>2
<1>6. n.op = "mul" => r \in Word
  <2>1. n.op = "mul" => r = (x * y) % M
    BY ArmResultVal DEF x, y
  <2> QED
    BY <1>1, <2>1, Closed
<1>7. n.op \in {"lsl", "lsr", "asr"} => r \in Word
  <2>1. n.op \in {"lsl", "lsr", "asr"} => r = ArmShift(n.op, x, n.imm, m).val
    BY ArmResultVal DEF x
  <2>2. n.op \in {"lsl", "lsr", "asr"} => n.op \in Shifts /\ n.imm \in 0..W
    BY Fields DEF Shifts
  <2> QED
    BY <1>1, <2>1, <2>2, ArmShiftClosed
<1> QED
  BY <1>1, <1>3, <1>4, <1>5, <1>6, <1>7 DEF Ops

\* bic's complemented operand is exact, or ill-formed.
LEMMA CompExact ==
    ASSUME Related, NEW n \in Instructions
    PROVE  /\ comp(n) \in Vectors
           /\ \A i \in Inputs : Exact(comp(n), i, Not(ArmOperand(n, machine[i])))
<1> DEFINE b == Operand2(n)
           v == not(b)
<1>1. b \in Vectors /\ \A i \in Inputs : Exact(b, i, ArmOperand(n, machine[i]))
  BY OperandExact
<1> HIDE DEF b
<1>2. v \in Vectors /\ \A i \in Inputs : Exact(v, i, Not(ArmOperand(n, machine[i])))
  BY <1>1, NotExact
<1>3. CASE ~TooWide(n)
  BY <1>2, <1>3 DEF comp, b
<1>4. CASE TooWide(n)
  <2>1. comp(n) = [v EXCEPT !.kind = "ill", !.split = FALSE]
    BY <1>4 DEF comp, b
  <2>2. v \in Record
    BY <1>2, Parts
  <2> HIDE DEF v
  <2>3. comp(n) \in Record /\ comp(n).kind = "ill"
    BY <2>1, <2>2 DEF Record
  <2> QED
    BY <2>3 DEF Vectors, Agree, Exact, Clear
<1> QED
  BY <1>3, <1>4

\* The result from which Corana takes the flags is that of the ARM core.
LEMMA ResultExact ==
    ASSUME Related, NEW n \in Instructions
    PROVE  /\ Result(n) \in Vectors
           /\ \A i \in Inputs : Exact(Result(n), i, ArmResult(n, machine[i]).val)
<1> DEFINE a == regs[n.rn]
           b == Operand2(n)
           x(i) == machine[i][n.rn]
           y(i) == ArmOperand(n, machine[i])
           r(i) == ArmResult(n, machine[i]).val
<1>1. a \in Vectors /\ \A i \in Inputs : Exact(a, i, x(i)) /\ x(i) \in Word
  BY Fields, Reads DEF Related
<1>2. b \in Vectors /\ \A i \in Inputs : Exact(b, i, y(i)) /\ y(i) \in Word
  BY OperandExact, ArmOperandWord DEF Related
<1>3. n.op \in Ops /\ (n.op \in {"lsl", "lsr", "asr"} => n.imm \in 0..W)
  BY Fields
<1> HIDE DEF a, b
<1>4. CASE n.op = "mov"
  <2>1. Result(n) = b
    BY <1>4 DEF Result, a, b
  <2>2. \A i \in Inputs : r(i) = y(i)
    BY <1>4, ArmResultVal
  <2> HIDE DEF r, y
  <2> QED
    BY <1>2, <2>1, <2>2, Zenon DEF r
<1>5. CASE n.op = "mvn"
  <2>1. Result(n) = not(b)
    BY <1>5 DEF Result, a, b
  <2>2. \A i \in Inputs : r(i) = Not(y(i))
    BY <1>5, ArmResultVal
  <2>3. \A i \in Inputs : Exact(not(b), i, Not(y(i))) /\ not(b) \in Vectors
    BY <1>1, <1>2, NotExact
  <2> HIDE DEF r, x, y
  <2> QED
    BY <2>1, <2>2, <2>3, ZeroIsInput, Zenon DEF r
<1>6. CASE n.op = "and"
  <2>1. Result(n) = and(a, b)
    BY <1>6 DEF Result, a, b
  <2>2. \A i \in Inputs : r(i) = And(x(i), y(i))
    BY <1>6, ArmResultVal
  <2>3. \A i \in Inputs : Exact(and(a, b), i, And(x(i), y(i))) /\ and(a, b) \in Vectors
    BY <1>1, <1>2, AndExact
  <2> HIDE DEF r, x, y
  <2> QED
    BY <2>1, <2>2, <2>3, ZeroIsInput, Zenon DEF r
<1>7. CASE n.op = "orr"
  <2>1. Result(n) = or(a, b)
    BY <1>7 DEF Result, a, b
  <2>2. \A i \in Inputs : r(i) = Or(x(i), y(i))
    BY <1>7, ArmResultVal
  <2>3. \A i \in Inputs : Exact(or(a, b), i, Or(x(i), y(i))) /\ or(a, b) \in Vectors
    BY <1>1, <1>2, OrExact
  <2> HIDE DEF r, x, y
  <2> QED
    BY <2>1, <2>2, <2>3, ZeroIsInput, Zenon DEF r
<1>8. CASE n.op = "eor"
  <2>1. Result(n) = xor(a, b)
    BY <1>8 DEF Result, a, b
  <2>2. \A i \in Inputs : r(i) = Xor(x(i), y(i))
    BY <1>8, ArmResultVal
  <2>3. \A i \in Inputs : Exact(xor(a, b), i, Xor(x(i), y(i))) /\ xor(a, b) \in Vectors
    BY <1>1, <1>2, XorExact
  <2> HIDE DEF r, x, y
  <2> QED
    BY <2>1, <2>2, <2>3, ZeroIsInput, Zenon DEF r
<1>9. CASE n.op = "mul"
  <2>1. Result(n) = mul(a, b)
    BY <1>9 DEF Result, a, b
  <2>2. \A i \in Inputs : r(i) = (x(i) * y(i)) % M
    BY <1>9, ArmResultVal
  <2>3. \A i \in Inputs : Exact(mul(a, b), i, (x(i) * y(i)) % M) /\ mul(a, b) \in Vectors
    BY <1>1, <1>2, MulExact
  <2> HIDE DEF r, x, y
  <2> QED
    BY <2>1, <2>2, <2>3, ZeroIsInput, Zenon DEF r
<1>10. CASE n.op = "bic"
  <2>1. Result(n) = and(a, comp(n))
    BY <1>10 DEF Result, a
  <2>2. \A i \in Inputs : r(i) = And(x(i), Not(y(i)))
    BY <1>10, ArmResultVal
  <2>3. comp(n) \in Vectors /\ \A i \in Inputs : Exact(comp(n), i, Not(y(i)))
    BY CompExact
  <2> HIDE DEF r, x, y
  <2>4. \A i \in Inputs : Exact(and(a, comp(n)), i, And(x(i), Not(y(i)))) /\ and(a, comp(n)) \in Vectors
    BY <1>1, <2>3, AndExact
  <2> QED
    BY <2>1, <2>2, <2>4, ZeroIsInput, Zenon DEF r
<1>11. CASE n.op \in {"add", "cmn"}
  <2>1. Result(n) = add(a, b)
    BY <1>11 DEF Result, a, b
  <2>2. \A i \in Inputs : r(i) = ArmAdd(x(i), y(i), FALSE).val
    BY <1>11, ArmResultVal
  <2>3. \A i \in Inputs : ArmAdd(x(i), y(i), FALSE).val = Add(x(i), y(i))
    BY <1>1, <1>2, AddPlain
  <2>4. \A i \in Inputs : Exact(add(a, b), i, Add(x(i), y(i))) /\ add(a, b) \in Vectors
    BY <1>1, <1>2, AddExact
  <2> HIDE DEF r, x, y
  <2> QED
    BY <2>1, <2>2, <2>3, <2>4, ZeroIsInput, Zenon DEF r
<1>12. CASE n.op \in {"sub", "cmp"}
  <2>1. Result(n) = sub(a, b)
    BY <1>12 DEF Result, a, b
  <2>2. \A i \in Inputs : r(i) = ArmAdd(x(i), Not(y(i)), TRUE).val
    BY <1>12, ArmResultVal
  <2>3. \A i \in Inputs : ArmAdd(x(i), Not(y(i)), TRUE).val = Sub(x(i), y(i))
    BY <1>1, <1>2, SubtractByAdding
  <2>4. \A i \in Inputs : Exact(sub(a, b), i, Sub(x(i), y(i))) /\ sub(a, b) \in Vectors
    BY <1>1, <1>2, SubExact
  <2> HIDE DEF r, x, y
  <2> QED
    BY <2>1, <2>2, <2>3, <2>4, ZeroIsInput, Zenon DEF r
<1>13. CASE n.op = "adc"
  <2>1. Result(n) = InDoubt(add(a, b), CarryIn)
    BY <1>13 DEF Result, a, b
  <2>2. \A i \in Inputs : r(i) = ArmAdd(x(i), y(i), machine[i].C).val
    BY <1>13, ArmResultVal
  <2>3. \A i \in Inputs : i \notin CarryIn => machine[i].C = FALSE
    BY DEF CarryIn, Related, Core
  <2>4. \A i \in Inputs : i \notin CarryIn => r(i) = Add(x(i), y(i))
    BY <1>1, <1>2, <2>2, <2>3, AddPlain
  <2>5. add(a, b) \in Vectors /\ \A i \in Inputs : Exact(add(a, b), i, Add(x(i), y(i)))
    BY <1>1, <1>2, AddExact
  <2>6. CarryIn \in SUBSET Inputs
    BY DEF CarryIn
  <2> HIDE DEF r, x, y
  <2>7. /\ InDoubt(add(a, b), CarryIn) \in Vectors
        /\ \A i \in Inputs : Exact(InDoubt(add(a, b), CarryIn), i, r(i))
    BY <2>4, <2>5, <2>6, DoubtExact
  <2> QED
    BY <2>1, <2>7, Zenon DEF r
<1>14. CASE n.op = "rsb"
  <2>1. Result(n) = rsb(a, b, n)
    BY <1>14 DEF Result, a, b
  <2>2. \A i \in Inputs : r(i) = ArmAdd(y(i), Not(x(i)), TRUE).val
    BY <1>14, ArmResultVal
  <2>3. \A i \in Inputs : r(i) = Sub(y(i), x(i))
    BY <1>1, <1>2, <2>2, SubtractByAdding
  <2>4. CASE n.extra = ""
    <3>1. Result(n) = sub(b, a)
      BY <2>1, <2>4 DEF rsb
    <3>2. sub(b, a) \in Vectors /\ \A i \in Inputs : Exact(sub(b, a), i, Sub(y(i), x(i)))
      BY <1>1, <1>2, SubExact
    <3> HIDE DEF r, x, y
    <3> QED
      BY <2>3, <3>1, <3>2, Zenon DEF r
  <2>5. CASE n.extra # ""
    <3> DEFINE lost == {i \in Inputs : a.sym[i] # b.sym[i]}
    <3>1. Result(n) = InDoubt(sub(a, b), lost)
      BY <2>1, <2>5, Zenon DEF rsb
    <3>2. /\ sub(a, b) \in Vectors
          /\ \A i \in Inputs : Exact(sub(a, b), i, Sub(x(i), y(i)))
          /\ \A i \in Inputs : Clear(sub(a, b), i) => Clear(a, i) /\ Clear(b, i)
      BY <1>1, <1>2, SubExact
    <3>3. \A i \in Inputs : i \notin lost => a.sym[i] = b.sym[i]
      OBVIOUS
    <3>4. lost \in SUBSET Inputs
      OBVIOUS
    <3> HIDE DEF r, x, y, lost
    <3>5. \A i \in Inputs : i \notin lost => Exact(sub(a, b), i, r(i))
      BY <1>1, <1>2, <2>3, <3>2, <3>3, Zenon DEF Exact
    <3>6. /\ InDoubt(sub(a, b), lost) \in Vectors
          /\ \A i \in Inputs : Exact(InDoubt(sub(a, b), lost), i, r(i))
      BY <3>2, <3>4, <3>5, DoubtExact
    <3> QED
      BY <3>1, <3>6, Zenon DEF r
  <2> QED
    BY <2>4, <2>5
<1>15. CASE n.op = "lsl"
  <2>1. Result(n) = shiftLeft(a, n.imm)
    BY <1>15 DEF Result, a, b
  <2>2. \A i \in Inputs : r(i) = ArmShift(n.op, x(i), n.imm, machine[i]).val
    BY <1>15, ArmResultVal
  <2>3. \A i \in Inputs : r(i) = Shl(x(i), n.imm)
    BY <1>15, <2>2, ArmShiftVal
  <2>4. /\ shiftLeft(a, n.imm) \in Vectors
        /\ \A i \in Inputs : Exact(shiftLeft(a, n.imm), i, Shl(x(i), n.imm))
    BY <1>1, <1>3, <1>15, ShiftLeftExact
  <2> HIDE DEF r, x, y
  <2> QED
    BY <2>1, <2>3, <2>4, Zenon DEF r
<1>16. CASE n.op = "lsr"
  <2>1. Result(n) = shiftRight(a, n.imm)
    BY <1>16 DEF Result, a, b
  <2>2. \A i \in Inputs : r(i) = ArmShift(n.op, x(i), n.imm, machine[i]).val
    BY <1>16, ArmResultVal
  <2>3. \A i \in Inputs : r(i) = Lshr(x(i), n.imm)
    BY <1>16, <2>2, ArmShiftVal
  <2>4. /\ shiftRight(a, n.imm) \in Vectors
        /\ \A i \in Inputs : Exact(shiftRight(a, n.imm), i, Lshr(x(i), n.imm))
    BY <1>1, <1>3, <1>16, ShiftRightExact
  <2> HIDE DEF r, x, y
  <2> QED
    BY <2>1, <2>3, <2>4, Zenon DEF r
<1>17. CASE n.op = "asr"
  <2>1. Result(n) = InDoubt(shiftRight(a, n.imm), {i \in Inputs : Negative(a.sym[i])})
    BY <1>17 DEF Result, a, b
  <2>2. \A i \in Inputs : r(i) = ArmShift(n.op, x(i), n.imm, machine[i]).val
    BY <1>17, ArmResultVal
  <2> DEFINE lost == {i \in Inputs : Negative(a.sym[i])}
             right == shiftRight(a, n.imm)
  <2>3. \A i \in Inputs : r(i) = Ashr(x(i), n.imm)
    BY <1>17, <2>2, ArmShiftVal
  <2>4. /\ right \in Vectors
        /\ \A i \in Inputs : Exact(right, i, Lshr(x(i), n.imm))
        /\ \A i \in Inputs : Clear(right, i) => Clear(a, i)
    BY <1>1, <1>3, <1>17, ShiftRightExact
  <2>5. \A i \in Inputs : i \notin lost => ~Negative(a.sym[i])
    OBVIOUS
  <2>6. lost \in SUBSET Inputs
    OBVIOUS
  <2>7. \A i \in Inputs : ~Negative(x(i)) => Ashr(x(i), n.imm) = Lshr(x(i), n.imm)
    BY <1>1, <1>3, <1>17, SameRightShift
  <2>8. Result(n) = InDoubt(right, lost)
    BY <2>1, Zenon
  <2> HIDE DEF r, x, y, lost, right
  <2>9. \A i \in Inputs : i \notin lost => Exact(right, i, r(i))
    BY <1>1, <2>3, <2>4, <2>5, <2>7, Zenon DEF Exact
  <2>10. /\ InDoubt(right, lost) \in Vectors
         /\ \A i \in Inputs : Exact(InDoubt(right, lost), i, r(i))
    BY <2>4, <2>6, <2>9, DoubtExact
  <2> QED
    BY <2>8, <2>10, Zenon DEF r
<1> QED
  BY <1>3, <1>4, <1>5, <1>6, <1>7, <1>8, <1>9, <1>10, <1>11, <1>12, <1>13, <1>14, <1>15, <1>16, <1>17 DEF Ops

\* What an instruction writes is what the ARM core writes.
LEMMA WrittenExact ==
    ASSUME Related, NEW n \in Instructions
    PROVE  /\ Written(n, Result(n)) \in Vectors
           /\ \A i \in Inputs : Exact(Written(n, Result(n)), i, ArmResult(n, machine[i]).val)
<1> DEFINE v == Result(n)
           r(i) == ArmResult(n, machine[i]).val
<1>1. v \in Vectors /\ \A i \in Inputs : Exact(v, i, r(i))
  BY ResultExact
<1> HIDE DEF v, r
<1>2. shiftedOut(v) \in Vectors /\ \A i \in Inputs : Exact(shiftedOut(v), i, r(i))
  BY <1>1, ShiftedOutExact
<1>3. Written(n, v) = v \/ Written(n, v) = shiftedOut(v)
  BY DEF Written
<1>4. Written(n, v) \in Vectors /\ \A i \in Inputs : Exact(Written(n, v), i, r(i))
  BY <1>1, <1>2, <1>3, Zenon
<1> QED
  BY <1>4 DEF v, r

\* The carry out of the shifter is a Boolean.
LEMMA ShifterCarry ==
    ASSUME NEW type \in Shifts, NEW x, NEW k, NEW m \in Core
    PROVE  /\ ArmShift(type, x, k, m).carry \in BOOLEAN
           /\ \A z : [ArmShift(type, x, k, m) EXCEPT !.val = z].carry \in BOOLEAN
<1> DEFINE y == ArmShift(type, x, k, m)
<1>1. \A v, c, z : [[val |-> v, carry |-> c] EXCEPT !.val = z].carry = c
  OBVIOUS
<1>2. m.C \in BOOLEAN
  BY DEF Core
<1>3. \E v : \E c \in BOOLEAN : y = [val |-> v, carry |-> c]
  <2>1. CASE type = ""
    BY <1>2, <2>1, Zenon DEF ArmShift
  <2>2. CASE type = "lsl"
    <3>1. (IF k = 0 THEN m.C ELSE Bit(x, W - k) = 1) \in BOOLEAN
      BY <1>2
    <3> QED
      BY <2>2, <3>1, Zenon DEF ArmShift
  <2>3. CASE type = "lsr"
    <3>1. (Bit(x, k - 1) = 1) \in BOOLEAN
      OBVIOUS
    <3> QED
      BY <2>3, <3>1, Zenon DEF ArmShift
  <2>4. CASE type = "asr"
    <3>1. (Bit(Ashr(x, k - 1), 0) = 1) \in BOOLEAN
      OBVIOUS
    <3> QED
      BY <2>4, <3>1, Zenon DEF ArmShift
  <2>5. CASE type = "ror"
    <3>1. (Bit(x, k - 1) = 1) \in BOOLEAN
      OBVIOUS
    <3> QED
      BY <2>5, <3>1, Zenon DEF ArmShift
  <2>6. CASE type = "rrx"
    <3>1. (Bit(x, 0) = 1) \in BOOLEAN
      OBVIOUS
    <3> QED
      BY <2>6, <3>1, Zenon DEF ArmShift
  <2> QED
    BY <2>1, <2>2, <2>3, <2>4, <2>5, <2>6, Zenon DEF Shifts
<1> HIDE DEF y
<1>4. PICK v : \E c \in BOOLEAN : y = [val |-> v, carry |-> c]
  BY <1>3
<1>5. PICK c \in BOOLEAN : y = [val |-> v, carry |-> c]
  BY <1>4
<1>6. y.carry = c /\ \A z : [y EXCEPT !.val = z].carry = c
  BY <1>1, <1>5
<1> QED
  BY <1>6 DEF y

\* The flags C and V of an instruction are Booleans.
LEMMA ArmResultFlags ==
    ASSUME NEW n \in Instructions, NEW m \in Core
    PROVE  ArmResult(n, m).C \in BOOLEAN /\ ArmResult(n, m).V \in BOOLEAN
<1> DEFINE shifted == ArmShift(n.extra, ArmSource(n, m), n.amount, m)
           res == ArmResult(n, m)
<1>1. m.C \in BOOLEAN /\ m.V \in BOOLEAN /\ n.op \in Ops
  BY Fields DEF Core
<1>2. shifted.carry \in BOOLEAN /\ \A z : [shifted EXCEPT !.val = z].carry \in BOOLEAN
  BY Fields, ShifterCarry
<1>3. CASE n.op \in {"mov", "mvn", "and", "bic", "orr", "eor"}
  <2>1. \E z : res.C = [shifted EXCEPT !.val = z].carry
    <3>1. CASE n.op = "mov"
      BY <3>1, Zenon DEF ArmResult, ArmSource
    <3>2. CASE n.op = "mvn"
      BY <3>2, Zenon DEF ArmResult, ArmSource
    <3>3. CASE n.op = "and"
      BY <3>3, Zenon DEF ArmResult, ArmSource
    <3>4. CASE n.op = "bic"
      BY <3>4, Zenon DEF ArmResult, ArmSource
    <3>5. CASE n.op = "orr"
      BY <3>5, Zenon DEF ArmResult, ArmSource
    <3>6. CASE n.op = "eor"
      BY <3>6, Zenon DEF ArmResult, ArmSource
    <3> QED
      BY <1>3, <3>1, <3>2, <3>3, <3>4, <3>5, <3>6
  <2>2. res.V = m.V
    BY <1>3 DEF ArmResult
  <2> QED
    BY <1>1, <1>2, <2>1, <2>2, Zenon
<1>4. \A x, y, c : ArmAdd(x, y, c).C \in BOOLEAN /\ ArmAdd(x, y, c).V \in BOOLEAN
  BY DEF ArmAdd
<1>5. CASE n.op \in {"add", "cmn", "adc", "sub", "cmp", "rsb"}
  <2>1. \E x, y, c : res = ArmAdd(x, y, c)
    <3>1. CASE n.op \in {"add", "cmn"}
      BY <3>1 DEF ArmResult
    <3>2. CASE n.op = "adc"
      BY <3>2 DEF ArmResult
    <3>3. CASE n.op \in {"sub", "cmp"}
      BY <3>3 DEF ArmResult
    <3>4. CASE n.op = "rsb"
      BY <3>4 DEF ArmResult
    <3> QED
      BY <1>5, <3>1, <3>2, <3>3, <3>4
  <2> QED
    BY <1>4, <2>1, Zenon
<1>6. CASE n.op = "mul"
  <2>1. res.C = m.C /\ res.V = m.V
    BY <1>6 DEF ArmResult
  <2> QED
    BY <1>1, <2>1
<1>7. CASE n.op \in {"lsl", "lsr", "asr"}
  <2>1. res.C = ArmShift(n.op, m[n.rn], n.imm, m).carry /\ res.V = m.V
    BY <1>7 DEF ArmResult
  <2>2. n.op \in Shifts
    BY <1>7 DEF Shifts
  <2> QED
    BY <1>1, <2>1, <2>2, ShifterCarry
<1> QED
  BY <1>1, <1>3, <1>5, <1>6, <1>7 DEF Ops

\* What an instruction does to the ARM core.
LEMMA ArmExecStep ==
    ASSUME NEW n \in Instructions, NEW m \in Core
    PROVE  /\ ArmExec(n, m) \in Core
           /\ \A r \in Regs : ArmExec(n, m)[r] =
                IF ~Compares(n) /\ r = n.rd THEN ArmResult(n, m).val ELSE m[r]
           /\ n.s \/ Compares(n) =>
                /\ ArmExec(n, m).N = Negative(ArmResult(n, m).val)
                /\ ArmExec(n, m).Z = (ArmResult(n, m).val = 0)
           /\ ~(n.s \/ Compares(n)) => ArmExec(n, m).N = m.N /\ ArmExec(n, m).Z = m.Z
<1> DEFINE res == ArmResult(n, m)
           written == IF Compares(n) THEN m ELSE [m EXCEPT ![n.rd] = res.val]
           after == [written EXCEPT !.N = Negative(res.val), !.Z = res.val = 0,
                                    !.C = res.C, !.V = res.V]
<1>1. res.val \in Word /\ res.C \in BOOLEAN /\ res.V \in BOOLEAN /\ n.rd \in {"r0", "r1"}
  BY Fields, ArmResultWord, ArmResultFlags DEF Regs
<1>2. ArmExec(n, m) = IF n.s \/ Compares(n) THEN after ELSE written
  BY DEF ArmExec
<1>3. Negative(res.val) \in BOOLEAN /\ (res.val = 0) \in BOOLEAN
  BY DEF Negative
<1> HIDE DEF res
<1>4. /\ written \in Core /\ written.N = m.N /\ written.Z = m.Z
      /\ \A r \in Regs : written[r] = IF ~Compares(n) /\ r = n.rd THEN res.val ELSE m[r]
  <2>1. CASE Compares(n)
    BY <2>1
  <2>2. CASE ~Compares(n) /\ n.rd = "r0"
    <3>1. written = [m EXCEPT !.r0 = res.val]
      BY <2>2
    <3> QED
      BY <1>1, <2>2, <3>1 DEF Core, Regs
  <2>3. CASE ~Compares(n) /\ n.rd = "r1"
    <3>1. written = [m EXCEPT !.r1 = res.val]
      BY <2>3
    <3> QED
      BY <1>1, <2>3, <3>1 DEF Core, Regs
  <2> QED
    BY <1>1, <2>1, <2>2, <2>3
<1> HIDE DEF written
<1>5. /\ after \in Core /\ after.N = Negative(res.val) /\ after.Z = (res.val = 0)
      /\ \A r \in Regs : after[r] = written[r]
  BY <1>1, <1>3, <1>4 DEF Core, Regs
<1> HIDE DEF after
<1> QED
  BY <1>2, <1>4, <1>5 DEF res

(***************************************************************************)
(* The invariant                                                           *)
(***************************************************************************)
FlagNames == {"N", "Z", "C", "V"}

\* FormulaExact and HalvesAgree follow from Related; it also keeps the words in range,
\* on which the right shifts, the rotation and the signed order depend.
AluInv ==
    /\ Related
    /\ flags = [f \in FlagNames |-> flags[f]]
    /\ FlagsExact
    /\ SignedOrder

\* The initial registers are the inputs, and nothing is compared.
LEMMA AluInit == Init => AluInv
<1> SUFFICES ASSUME Init
             PROVE  AluInv
  OBVIOUS
<1>1. \A i \in Inputs : i \in [r0 : Word, r1 : Word, c : BOOLEAN]
  BY AluAssumption
<1>2. Zero = [r0 |-> 0, r1 |-> 0, c |-> FALSE] /\ Zero \in Inputs
  BY AluAssumption
<1>3. machine \in [Inputs -> Core]
  BY <1>1 DEF Init, Core
<1>4. ASSUME NEW r \in Regs
      PROVE  /\ regs[r] \in Vectors
             /\ \A i \in Inputs : regs[r].sym[i] = machine[i][r]
  <2>1. regs[r] = [kind |-> "formula", sym |-> [i \in Inputs |-> i[r]], val |-> 0,
                   doubt |-> {}, split |-> FALSE]
    BY DEF Init
  <2>2. \A i \in Inputs : i[r] \in Word
    BY <1>1 DEF Regs
  <2>3. Zero[r] = 0 /\ 0 \in Word
    BY <1>2, WordRange, Modulus DEF Regs
  <2>4. \A i \in Inputs : machine[i][r] = i[r]
    BY <1>1 DEF Init, Regs
  <2> QED
    BY <1>2, <2>1, <2>2, <2>3, <2>4 DEF Vectors, Record, Agree
<1>5. regs \in [Regs -> Vectors]
  BY <1>4 DEF Init
<1>6. Related
  BY <1>3, <1>4, <1>5 DEF Related, Exact
<1>7. flags = [f \in FlagNames |-> flags[f]]
  BY DEF Init, FlagNames
<1>8. flags["N"].set = {} /\ flags["Z"].set = {} /\ flags["N"].val = FALSE /\ flags["Z"].val = FALSE
  BY DEF Init
<1>9. \A i \in Inputs : machine[i].N = FALSE /\ machine[i].Z = FALSE
  BY DEF Init
<1>10. FlagsExact
  BY <1>8, <1>9 DEF FlagsExact
<1>11. \A i \in Inputs : compared[i] = None
  BY DEF Init
<1>12. SignedOrder
  BY <1>11 DEF SignedOrder
<1> QED
  BY <1>6, <1>7, <1>10, <1>12 DEF AluInv

\* An instruction keeps the registers beside those of the ARM cores.
LEMMA RelatedStep ==
    ASSUME Related, NEW n \in Instructions, Execute(n)
    PROVE  Related'
<1> DEFINE w == Written(n, Result(n))
           r(i) == ArmResult(n, machine[i]).val
<1>1. w \in Vectors /\ \A i \in Inputs : Exact(w, i, r(i))
  BY WrittenExact
<1>2. n.rd \in Regs /\ \A i \in Inputs : machine[i] \in Core
  BY Fields DEF Related
<1>3. \A i \in Inputs : machine'[i] = ArmExec(n, machine[i])
  BY DEF Execute
<1>4. machine' \in [Inputs -> Core]
  BY <1>2, ArmExecStep DEF Execute
<1>5. \A i \in Inputs : \A q \in Regs : machine'[i][q] =
        IF ~Compares(n) /\ q = n.rd THEN r(i) ELSE machine[i][q]
  BY <1>2, <1>3, ArmExecStep
<1>6. regs' = IF Compares(n) THEN regs ELSE [regs EXCEPT ![n.rd] = w]
  BY DEF Execute
<1> HIDE DEF w, r
<1>7. /\ regs' \in [Regs -> Vectors]
      /\ \A q \in Regs : regs'[q] = IF ~Compares(n) /\ q = n.rd THEN w ELSE regs[q]
  BY <1>1, <1>2, <1>6 DEF Related
<1>8. \A q \in Regs, i \in Inputs : Exact(regs'[q], i, machine'[i][q])
  <2> SUFFICES ASSUME NEW q \in Regs, NEW i \in Inputs
               PROVE  Exact(regs'[q], i, machine'[i][q])
    OBVIOUS
  <2>1. CASE ~Compares(n) /\ q = n.rd
    <3>1. regs'[q] = w /\ machine'[i][q] = r(i)
      BY <1>5, <1>7, <2>1
    <3> QED
      BY <1>1, <3>1, Zenon
  <2>2. CASE ~(~Compares(n) /\ q = n.rd)
    <3>1. regs'[q] = regs[q] /\ machine'[i][q] = machine[i][q]
      BY <1>5, <1>7, <2>2
    <3>2. Exact(regs[q], i, machine[i][q])
      BY DEF Related
    <3> QED
      BY <3>1, <3>2, Zenon
  <2> QED
    BY <2>1, <2>2
<1> QED
  BY <1>4, <1>7, <1>8 DEF Related

\* N and Z after an instruction that sets them.
LEMMA FlagsSet ==
    ASSUME Related, NEW n \in Instructions, Execute(n), n.s \/ Compares(n)
    PROVE  LET v == Result(n)
           IN  /\ flags' = [f \in FlagNames |-> flags'[f]]
               /\ flags'["N"].set = {i \in Inputs : Negative(v.sym[i])}
               /\ flags'["N"].val = Negative(v.val)
               /\ flags'["Z"].set = {i \in Inputs : v.sym[i] = 0}
               /\ flags'["Z"].val = (v.val = 0)
               /\ n.op \notin {"lsl", "lsr", "asr"} =>
                    flags'["V"].set = {i \in Inputs : \/ Signed(v.sym[i]) > MinWord - 1
                                                      \/ Signed(v.sym[i]) < 1 - MinWord}
               /\ flagged' = [doubt |-> IF v.kind = "ill" THEN Inputs ELSE v.doubt,
                              split |-> v.split]
<1> DEFINE v == Result(n)
<1>1. flags' = updateFlags(n, v)
  BY Zenon DEF Execute
<1>2. flagged' = [doubt |-> IF v.kind = "ill" THEN Inputs ELSE v.doubt, split |-> v.split]
  BY Zenon DEF Execute
<1> HIDE DEF v
<1>3. flags' = [f \in FlagNames |-> flags'[f]]
  BY <1>1 DEF updateFlags, FlagNames
<1>4. /\ flags'["N"].set = {i \in Inputs : Negative(v.sym[i])}
      /\ flags'["N"].val = Negative(v.val)
  BY <1>1 DEF updateFlags
<1>5. /\ flags'["Z"].set = {i \in Inputs : v.sym[i] = 0}
      /\ flags'["Z"].val = (v.val = 0)
  BY <1>1 DEF updateFlags
<1>6. n.op \notin {"lsl", "lsr", "asr"} =>
        flags'["V"].set = {i \in Inputs : \/ Signed(v.sym[i]) > MinWord - 1
                                          \/ Signed(v.sym[i]) < 1 - MinWord}
  BY <1>1 DEF updateFlags
<1> QED
  BY <1>2, <1>3, <1>4, <1>5, <1>6, Zenon DEF v

\* N, Z and V, and what they and the last cmp say, after an instruction that sets no
\* flag but C.
LEMMA FlagsKept ==
    ASSUME NEW n, Execute(n), ~(n.s \/ Compares(n)), flags = [f \in FlagNames |-> flags[f]]
    PROVE  /\ flags' = [f \in FlagNames |-> flags'[f]]
           /\ \A f \in {"N", "Z", "V"} : flags'[f] = flags[f]
           /\ flagged' = flagged /\ compared' = compared
<1>1. flags' = flags \/ flags' = CarrySet
  BY DEF Execute
<1>2. flagged' = flagged /\ compared' = compared
  BY DEF Execute
<1>3. /\ CarrySet = [f \in FlagNames |-> CarrySet[f]]
      /\ \A f \in {"N", "Z", "V"} : CarrySet[f] = flags[f]
  BY DEF CarrySet, FlagNames
<1> QED
  BY <1>1, <1>2, <1>3

\* An instruction keeps N and Z those of the ARM cores.
LEMMA FlagsExactStep ==
    ASSUME AluInv, NEW n \in Instructions, Execute(n)
    PROVE  FlagsExact' /\ flags' = [f \in FlagNames |-> flags'[f]]
<1> DEFINE v == Result(n)
           r(i) == ArmResult(n, machine[i]).val
<1>1. Related /\ flags = [f \in FlagNames |-> flags[f]] /\ FlagsExact
  BY DEF AluInv
<1>2. \A i \in Inputs : machine[i] \in Core /\ machine'[i] = ArmExec(n, machine[i])
  BY <1>1 DEF Related, Execute
<1>3. CASE n.s \/ Compares(n)
  <2>1. v \in Vectors /\ \A i \in Inputs : Exact(v, i, r(i))
    BY <1>1, ResultExact
  <2>2. \A i \in Inputs : machine'[i].N = Negative(r(i)) /\ machine'[i].Z = (r(i) = 0)
    BY <1>2, <1>3, ArmExecStep
  <2>3. /\ flags' = [f \in FlagNames |-> flags'[f]]
        /\ flags'["N"].set = {i \in Inputs : Negative(v.sym[i])}
        /\ flags'["N"].val = Negative(v.val)
        /\ flags'["Z"].set = {i \in Inputs : v.sym[i] = 0}
        /\ flags'["Z"].val = (v.val = 0)
    BY <1>1, <1>3, FlagsSet, Zenon
  <2>4. flagged' = [doubt |-> IF v.kind = "ill" THEN Inputs ELSE v.doubt, split |-> v.split]
    BY <1>1, <1>3, FlagsSet, Zenon
  <2> HIDE DEF v, r
  <2>5. flagged'.doubt = (IF v.kind = "ill" THEN Inputs ELSE v.doubt) /\ flagged'.split = v.split
    BY <2>4
  <2>6. \A i \in Inputs \ flagged'.doubt : v.sym[i] = r(i)
    BY <2>1, <2>5 DEF Exact, Clear
  <2>7. \A i \in Inputs \ flagged'.doubt :
          /\ i \in flags'["N"].set <=> machine'[i].N
          /\ i \in flags'["Z"].set <=> machine'[i].Z
    BY <2>2, <2>3, <2>6
  <2>8. ~flagged'.split /\ flagged'.doubt # Inputs =>
          /\ flags'["N"].val <=> Zero \in flags'["N"].set
          /\ flags'["Z"].val <=> Zero \in flags'["Z"].set
    <3>1. ~flagged'.split /\ flagged'.doubt # Inputs => v.val = v.sym[Zero]
      BY <2>1, <2>5, Parts
    <3> QED
      BY <2>3, <3>1, ZeroIsInput
  <2> QED
    BY <2>3, <2>7, <2>8 DEF FlagsExact
<1>4. CASE ~(n.s \/ Compares(n))
  <2>1. /\ flags' = [f \in FlagNames |-> flags'[f]]
        /\ \A f \in {"N", "Z"} : flags'[f] = flags[f]
        /\ flagged' = flagged
    BY <1>1, <1>4, FlagsKept
  <2>2. \A i \in Inputs : machine'[i].N = machine[i].N /\ machine'[i].Z = machine[i].Z
    BY <1>2, <1>4, ArmExecStep
  <2> QED
    BY <1>1, <2>1, <2>2 DEF FlagsExact
<1> QED
  BY <1>3, <1>4

\* What N, Z and V of a difference say about the order of its operands.
LEMMA DifferenceFlags ==
    ASSUME NEW x \in Word, NEW y \in Word,
           Signed(x) - Signed(y) \in (1 - MinWord)..(MinWord - 1)
    PROVE  /\ ~(Signed(Sub(x, y)) > MinWord - 1 \/ Signed(Sub(x, y)) < 1 - MinWord)
           /\ Negative(Sub(x, y)) <=> Signed(x) < Signed(y)
           /\ Sub(x, y) = 0 <=> Signed(x) = Signed(y)
           /\ Signed(x) \in Int /\ Signed(y) \in Int
<1>1. Signed(x) \in Int /\ Signed(y) \in Int
  BY SignedRange
<1>2. Sub(x, y) \in Word
  BY Closed
<1>3. Signed(Sub(x, y)) = Signed(x) - Signed(y)
  BY SignedDifference
<1>4. /\ Negative(Sub(x, y)) <=> Signed(Sub(x, y)) < 0
      /\ Sub(x, y) = 0 <=> Signed(Sub(x, y)) = 0
  BY <1>2, SignedRange
<1>5. \A a, b, h \in Int : a - b \in (1 - h)..(h - 1) =>
        /\ ~(a - b > h - 1 \/ a - b < 1 - h)
        /\ a - b < 0 <=> a < b
        /\ a - b = 0 <=> a = b
  OBVIOUS
<1> QED
  BY <1>1, <1>3, <1>4, <1>5, Modulus

\* An instruction keeps the conditions those of the signed order.
LEMMA SignedOrderStep ==
    ASSUME AluInv, NEW n \in Instructions, Execute(n)
    PROVE  SignedOrder'
<1>1. Related /\ flags = [f \in FlagNames |-> flags[f]] /\ SignedOrder
  BY DEF AluInv
<1>2. CASE ~(n.s \/ Compares(n))
  <2>1. /\ \A f \in {"N", "Z", "V"} : flags'[f] = flags[f]
        /\ flagged' = flagged /\ compared' = compared
    BY <1>1, <1>2, FlagsKept
  <2>2. flags'["N"] = flags["N"] /\ flags'["Z"] = flags["Z"] /\ flags'["V"] = flags["V"]
    BY <2>1
  <2>3. \A cond : Holds(cond)' = Holds(cond)
    BY <2>2, Zenon DEF Holds
  <2> QED
    BY <1>1, <2>1, <2>3 DEF SignedOrder
<1>3. CASE (n.s \/ Compares(n)) /\ n.op # "cmp"
  <2>1. \A i \in Inputs : compared'[i] = None
    BY <1>3 DEF Execute
  <2> QED
    BY <2>1 DEF SignedOrder
<1>4. CASE n.op = "cmp"
  <2> DEFINE v == Result(n)
             x(i) == machine[i][n.rn]
             y(i) == ArmOperand(n, machine[i])
             z(i) == Sub(x(i), y(i))
  <2>1. Compares(n)
    BY <1>4 DEF Compares
  <2>2. \A i \in Inputs : x(i) \in Word /\ y(i) \in Word
    BY <1>1, Fields, Reads, ArmOperandWord DEF Related
  <2>3. v \in Vectors /\ \A i \in Inputs : Exact(v, i, z(i))
    <3>1. v \in Vectors /\ \A i \in Inputs : Exact(v, i, ArmResult(n, machine[i]).val)
      BY <1>1, ResultExact
    <3>2. \A i \in Inputs : ArmResult(n, machine[i]).val = ArmAdd(x(i), Not(y(i)), TRUE).val
      BY <1>4, ArmResultVal
    <3>3. \A i \in Inputs : ArmAdd(x(i), Not(y(i)), TRUE).val = z(i)
      BY <2>2, SubtractByAdding
    <3> HIDE DEF v, x, y, z
    <3> QED
      BY <3>1, <3>2, <3>3, Zenon
  <2>4. compared' = [i \in Inputs |-> <<x(i), y(i)>>]
    <3>1. compared' = [i \in Inputs |->
                          IF n.op = "cmp" THEN
                             LET m == machine[i]
                                 u == IF n.src = "imm" THEN n.imm ELSE m[n.src]
                             IN  <<m[n.rn], ArmShift(n.extra, u, n.amount, m).val>>
                          ELSE None]
      BY <2>1, Zenon DEF Execute
    <3> QED
      BY <1>4, <3>1 DEF ArmOperand, ArmSource
  <2>5. /\ flags'["N"].set = {i \in Inputs : Negative(v.sym[i])}
        /\ flags'["Z"].set = {i \in Inputs : v.sym[i] = 0}
        /\ flags'["V"].set = {i \in Inputs : \/ Signed(v.sym[i]) > MinWord - 1
                                             \/ Signed(v.sym[i]) < 1 - MinWord}
    <3>1. n.op \notin {"lsl", "lsr", "asr"}
      BY <1>4
    <3> QED
      BY <1>1, <2>1, <3>1, FlagsSet, Zenon
  <2>6. flagged'.doubt = IF v.kind = "ill" THEN Inputs ELSE v.doubt
    <3>1. flagged' = [doubt |-> IF v.kind = "ill" THEN Inputs ELSE v.doubt, split |-> v.split]
      BY <1>1, <2>1, FlagsSet, Zenon
    <3> HIDE DEF v
    <3> QED
      BY <3>1
  <2> HIDE DEF v
  <2> SUFFICES ASSUME NEW i \in Inputs \ flagged'.doubt,
                      Signed(x(i)) - Signed(y(i)) \in (1 - MinWord)..(MinWord - 1)
               PROVE  /\ i \in Holds("ge")' <=> Signed(x(i)) >= Signed(y(i))
                      /\ i \in Holds("lt")' <=> Signed(x(i)) < Signed(y(i))
                      /\ i \in Holds("gt")' <=> Signed(x(i)) > Signed(y(i))
                      /\ i \in Holds("le")' <=> Signed(x(i)) <= Signed(y(i))
    <3>1. \A i \in Inputs : compared'[i][1] = x(i) /\ compared'[i][2] = y(i)
      BY <2>4
    <3> HIDE DEF x, y
    <3> QED
      BY <3>1 DEF SignedOrder
  <2>7. v.sym[i] = z(i)
    BY <2>3, <2>6 DEF Exact, Clear
  <2>8. /\ ~(Signed(z(i)) > MinWord - 1 \/ Signed(z(i)) < 1 - MinWord)
        /\ Negative(z(i)) <=> Signed(x(i)) < Signed(y(i))
        /\ z(i) = 0 <=> Signed(x(i)) = Signed(y(i))
        /\ Signed(x(i)) \in Int /\ Signed(y(i)) \in Int
    BY <2>2, DifferenceFlags
  <2> HIDE DEF x, y, z
  <2>9. /\ i \in flags'["N"].set <=> Signed(x(i)) < Signed(y(i))
        /\ i \in flags'["Z"].set <=> Signed(x(i)) = Signed(y(i))
        /\ i \notin flags'["V"].set
    BY <2>5, <2>7, <2>8
  <2>10. /\ i \in Holds("ge")' <=> i \notin flags'["N"].set
         /\ i \in Holds("lt")' <=> i \in flags'["N"].set
         /\ i \in Holds("gt")' <=> i \notin flags'["N"].set /\ i \notin flags'["Z"].set
         /\ i \in Holds("le")' <=> i \in flags'["Z"].set \/ i \in flags'["N"].set
    BY <2>9 DEF Holds
  <2> QED
    BY <2>8, <2>9, <2>10
<1> QED
  BY <1>2, <1>3, <1>4

\* Every step keeps the invariant.
LEMMA AluStep == AluInv /\ [Next]_vars => AluInv'
<1> SUFFICES ASSUME AluInv, [Next]_vars
             PROVE  AluInv'
  OBVIOUS
<1>1. ASSUME NEW n \in Instructions, Execute(n)
      PROVE  AluInv'
  <2>1. Related'
    BY <1>1, RelatedStep DEF AluInv
  <2>2. FlagsExact' /\ flags' = [f \in FlagNames |-> flags'[f]]
    BY <1>1, FlagsExactStep
  <2>3. SignedOrder'
    BY <1>1, SignedOrderStep
  <2> QED
    BY <2>1, <2>2, <2>3 DEF AluInv
<1>2. ASSUME UNCHANGED <<regs, flags, machine, compared, flagged>>
      PROVE  AluInv'
  BY <1>2 DEF AluInv, Related, FlagsExact, SignedOrder, Holds
<1>3. ASSUME NEW n \in Instructions, ExecuteThrows(n)
      PROVE  AluInv'
  BY <1>2, <1>3 DEF ExecuteThrows
<1>4. CASE UNCHANGED vars
  BY <1>2, <1>4 DEF vars
<1> QED
  BY <1>1, <1>3, <1>4 DEF Next

\* For every word width, inputs and instructions: the invariant of data processing.
THEOREM AluInvHolds == Spec => []AluInv
<1>1. Init => AluInv
  BY AluInit
<1>2. AluInv /\ [Next]_vars => AluInv'
  BY AluStep
<1> QED
  BY <1>1, <1>2, PTL DEF Spec

\* The formula of a register is what the ARM core holds, on every input on which its
\* value went through none of the cases where the operators of Emulator, handleExtra
\* and the instruction methods depart from ARM.
THEOREM FormulasAreExact == Spec => []FormulaExact
<1>1. AluInv => FormulaExact
  BY DEF AluInv, Related, FormulaExact, Exact, Clear
<1> QED
  BY <1>1, AluInvHolds, PTL

\* The concrete half of a register is its formula on the all-zero input, unless eor, a
\* product or a right shift of a negative number split the two.
THEOREM HalvesDoAgree == Spec => []HalvesAgree
<1>1. AluInv => HalvesAgree
  BY Parts DEF AluInv, Related, HalvesAgree
<1> QED
  BY <1>1, AluInvHolds, PTL

\* N and Z, formula and concrete half, are those of the ARM core.
THEOREM FlagsAreExact == Spec => []FlagsExact
  BY AluInvHolds, PTL DEF AluInv

\* The formulas of getCondSuffixSMT for ge, lt, gt and le order the operands of the
\* last cmp.
THEOREM ConditionsOrder == Spec => []SignedOrder
  BY AluInvHolds, PTL DEF AluInv

(***************************************************************************)
(* Faithful instructions alone                                             *)
(***************************************************************************)
\* A bit vector that went through none of the cases that depart from ARM, and, if it
\* is to be whole, whose halves were not split.
Good(v, whole) == v.kind # "ill" /\ v.doubt = {} /\ (whole => v.split = FALSE)

\* The constructor makes good bit vectors of good ones.
LEMMA GoodBitVec2 ==
    ASSUME NEW whole, NEW a, NEW b, Good(a, whole), Good(b, whole),
           NEW sym, NEW val, NEW split, whole => ~split
    PROVE  Good(BitVec(sym, val, {a, b}, {}, split), whole)
<1> DEFINE v == BitVec(sym, val, {a, b}, {}, split)
           kinds == {u.kind : u \in {a, b}}
<1>1. kinds = {a.kind, b.kind} /\ "ill" \notin kinds
  BY DEF Good
<1>2. UNION {u.doubt : u \in {a, b}} = {}
  BY DEF Good
<1>3. whole => ~\E u \in {a, b} : u.split
  BY DEF Good
<1>4. v = [kind |-> IF kinds = {"literal"} THEN "literal"
                    ELSE IF "ill" \in kinds THEN "ill" ELSE "formula",
           sym |-> sym,
           val |-> IF kinds = {"literal"} THEN sym[Zero] ELSE val,
           doubt |-> {} \cup UNION {u.doubt : u \in {a, b}},
           split |-> ~(kinds = {"literal"}) /\ (split \/ \E u \in {a, b} : u.split)]
  BY DEF BitVec
<1> HIDE DEF v, kinds
<1>5. v.kind = IF kinds = {"literal"} THEN "literal"
               ELSE IF "ill" \in kinds THEN "ill" ELSE "formula"
  BY <1>4
<1>6. v.kind # "ill"
  BY <1>1, <1>5
<1>7. v.doubt = {}
  BY <1>2, <1>4
<1>8. v.split = (~(kinds = {"literal"}) /\ (split \/ \E u \in {a, b} : u.split))
  BY <1>4
<1>9. whole => v.split = FALSE
  BY <1>3, <1>8, Zenon
<1> QED
  BY <1>6, <1>7, <1>9 DEF Good, v

\* The same for one operand.
LEMMA GoodBitVec1 ==
    ASSUME NEW whole, NEW a, Good(a, whole), NEW sym, NEW val, NEW split, whole => ~split
    PROVE  Good(BitVec(sym, val, {a}, {}, split), whole)
<1>1. {a} = {a, a}
  OBVIOUS
<1>2. Good(BitVec(sym, val, {a, a}, {}, split), whole)
  BY GoodBitVec2, Zenon
<1> QED
  BY <1>1, <1>2, Zenon

\* The operators of Emulator make good bit vectors of good ones, all but xor.
LEMMA GoodOperators ==
    ASSUME NEW whole, NEW a, NEW b, Good(a, whole), Good(b, whole)
    PROVE  /\ Good(add(a, b), whole) /\ Good(sub(a, b), whole) /\ Good(sub(b, a), whole)
           /\ Good(and(a, b), whole) /\ Good(or(a, b), whole) /\ Good(not(b), whole)
<1>1. \A u, v : Good(u, whole) /\ Good(v, whole) =>
        \A sym, val : Good(BitVec(sym, val, {u, v}, {}, FALSE), whole)
  BY GoodBitVec2, Zenon
<1>2. \A u : Good(u, whole) => \A sym, val : Good(BitVec(sym, val, {u}, {}, FALSE), whole)
  BY GoodBitVec1, Zenon
<1>3. Good(add(a, b), whole)
  BY <1>1, Zenon DEF add
<1>4. Good(sub(a, b), whole) /\ Good(sub(b, a), whole)
  BY <1>1, Zenon DEF sub
<1>5. Good(and(a, b), whole)
  BY <1>1, Zenon DEF and
<1>6. Good(or(a, b), whole)
  BY <1>1, Zenon DEF or
<1>7. Good(not(b), whole)
  BY <1>2, Zenon DEF not
<1> QED
  BY <1>3, <1>4, <1>5, <1>6, <1>7, Zenon

\* So do the shifts, the one to the right where nothing has to be whole.
LEMMA GoodShifts ==
    ASSUME NEW whole, NEW a, Good(a, whole), NEW k
    PROVE  Good(shiftLeft(a, k), whole) /\ (~whole => Good(shiftRight(a, k), whole))
<1>1. Good(shiftLeft(a, k), whole)
  BY GoodBitVec1, Zenon DEF shiftLeft
<1>2. ASSUME ~whole
      PROVE  Good(shiftRight(a, k), whole)
  BY <1>2, GoodBitVec1, Zenon DEF shiftRight
<1> QED
  BY <1>1, <1>2, Zenon

GoodRegs(whole) == \A r \in Regs : Good(regs[r], whole)

\* The second operand of a faithful instruction is good.
LEMMA GoodOperand ==
    ASSUME Related, NEW whole, GoodRegs(whole),
           NEW n \in Instructions, Faithful(n), whole => ~ShiftsRight(n)
    PROVE  Good(Operand2(n), whole)
<1>1. n.src \in Regs \cup {"imm"} /\ n.imm \in Word
  BY Fields
<1>2. Source(n) \in Vectors /\ Good(Source(n), whole)
  <2>1. CASE n.src = "imm"
    <3>1. Source(n) = Literal(n.imm)
      BY <2>1 DEF Source
    <3>2. Good(Literal(n.imm), whole)
      BY DEF Literal, Good
    <3> QED
      BY <1>1, <3>1, <3>2, LiteralExact, Zenon
  <2>2. CASE n.src # "imm"
    <3>1. n.src \in Regs /\ Source(n) = regs[n.src]
      BY <1>1, <2>2 DEF Source
    <3> QED
      BY <3>1 DEF Related, GoodRegs
  <2> QED
    BY <2>1, <2>2
<1> DEFINE v == Source(n)
<1> HIDE DEF v
<1>3. CASE n.extra = ""
  <2>1. CASE ExtraIgnored(n)
    <3>1. Operand2(n) = InDoubt(v, {})
      BY <1>3, <2>1 DEF Operand2, v
    <3>2. v \in Record
      BY <1>2, Parts DEF v
    <3>3. InDoubt(v, {}) = v
      BY <3>2 DEF InDoubt, Record
    <3> QED
      BY <1>2, <3>1, <3>3, Zenon DEF v
  <2>2. CASE ~ExtraIgnored(n)
    <3>1. Operand2(n) = v
      BY <1>3, <2>2 DEF Operand2, handleExtra, v
    <3> QED
      BY <1>2, <3>1, Zenon DEF v
  <2> QED
    BY <2>1, <2>2
<1>4. ASSUME n.extra \in {"lsl", "lsr"}
      PROVE  Operand2(n) = handleExtra(v, n)
  <2>1. ~ExtraIgnored(n)
    BY <1>4 DEF ExtraIgnored, Faithful
  <2> QED
    BY <2>1 DEF Operand2, v
<1>5. CASE n.extra = "lsl"
  <2>1. handleExtra(v, n) = shiftLeft(v, n.amount)
    BY <1>5 DEF handleExtra
  <2> QED
    BY <1>2, <1>4, <1>5, <2>1, GoodShifts DEF v
<1>6. CASE n.extra = "lsr"
  <2>1. handleExtra(v, n) = shiftRight(v, n.amount)
    BY <1>6 DEF handleExtra
  <2>2. ~whole
    BY <1>6 DEF ShiftsRight
  <2> QED
    BY <1>2, <1>4, <1>6, <2>1, <2>2, GoodShifts DEF v
<1>7. n.extra \in {"", "lsl", "lsr"}
  BY Zenon DEF Faithful
<1> QED
  BY <1>3, <1>5, <1>6, <1>7, Zenon

\* The result of a faithful instruction is good, and it is what is written.
LEMMA GoodResult ==
    ASSUME Related, NEW whole, GoodRegs(whole),
           NEW n \in Instructions, Faithful(n), whole => ~ShiftsRight(n)
    PROVE  Good(Result(n), whole) /\ Written(n, Result(n)) = Result(n)
<1> DEFINE a == regs[n.rn]
           b == Operand2(n)
<1>1. Good(a, whole) /\ Good(b, whole)
  BY Fields, GoodOperand DEF GoodRegs
<1>2. n.op \in Ops /\ n.op \notin {"eor", "mul", "adc", "asr"}
  BY Fields DEF Faithful
<1> HIDE DEF a, b
<1>3. CASE n.op \in {"mov", "mvn"}
  <2>1. Result(n) = b \/ Result(n) = not(b)
    BY <1>3 DEF Result, b
  <2> QED
    BY <1>1, <1>2, <2>1, GoodOperators DEF Written
<1>4. CASE n.op \in {"add", "cmn", "sub", "cmp"}
  <2>1. Result(n) = add(a, b) \/ Result(n) = sub(a, b)
    BY <1>4 DEF Result, a, b
  <2> QED
    BY <1>1, <1>2, <2>1, GoodOperators DEF Written
<1>5. CASE n.op = "rsb"
  <2>1. n.extra = ""
    BY <1>5 DEF Faithful
  <2>2. Result(n) = sub(b, a)
    BY <1>5, <2>1 DEF Result, rsb, a, b
  <2> QED
    BY <1>1, <1>2, <2>2, GoodOperators DEF Written
<1>6. CASE n.op \in {"and", "orr"}
  <2>1. Result(n) = and(a, b) \/ Result(n) = or(a, b)
    BY <1>6 DEF Result, a, b
  <2> QED
    BY <1>1, <1>2, <2>1, GoodOperators DEF Written
<1>7. CASE n.op = "bic"
  <2>1. comp(n) = not(b)
    BY <1>7 DEF comp, Faithful, b
  <2>2. Result(n) = and(a, not(b))
    BY <1>7, <2>1 DEF Result, a, b
  <2>3. Good(not(b), whole)
    BY <1>1, GoodOperators
  <2>4. Good(and(a, not(b)), whole)
    BY <1>1, <2>3, GoodOperators
  <2> QED
    BY <1>2, <2>2, <2>4 DEF Written
<1>8. CASE n.op = "lsl"
  <2>1. Result(n) = shiftLeft(a, n.imm)
    BY <1>8 DEF Result, a, b
  <2> QED
    BY <1>1, <1>2, <2>1, GoodShifts DEF Written
<1>9. CASE n.op = "lsr"
  <2>1. Result(n) = shiftRight(a, n.imm)
    BY <1>9 DEF Result, a, b
  <2>2. ~whole
    BY <1>9 DEF ShiftsRight
  <2> QED
    BY <1>1, <1>2, <2>1, <2>2, GoodShifts DEF Written
<1> QED
  BY <1>2, <1>3, <1>4, <1>5, <1>6, <1>7, <1>8, <1>9 DEF Ops

Straight == \A n \in executed : ~ShiftsRight(n)

\* As long as only faithful instructions were executed, nothing is marked.
GoodInv ==
    /\ executed \subseteq Instructions
    /\ (\A n \in executed : Faithful(n)) =>
         \A whole \in BOOLEAN : (whole => Straight) =>
            GoodRegs(whole) /\ flagged.doubt = {} /\ (whole => flagged.split = FALSE)

\* An instruction keeps that.
LEMMA GoodStep ==
    ASSUME AluInv, GoodInv, NEW n \in Instructions, Execute(n)
    PROVE  GoodInv'
<1>1. executed' = executed \cup {n}
  BY Zenon DEF Execute
<1>2. executed' \subseteq Instructions
  BY <1>1 DEF GoodInv
<1> SUFFICES ASSUME \A q \in executed' : Faithful(q),
                    NEW whole \in BOOLEAN, whole => \A q \in executed' : ~ShiftsRight(q)
             PROVE  /\ \A r \in Regs : Good(regs'[r], whole)
                    /\ flagged'.doubt = {} /\ (whole => flagged'.split = FALSE)
  BY <1>2, Zenon DEF GoodInv, GoodRegs, Good, Straight, Faithful, TooWide, ShiftsRight, Negative
<1> DEFINE v == Result(n)
<1>3. Faithful(n) /\ (whole => ~ShiftsRight(n))
  BY <1>1
<1>4. Related /\ GoodRegs(whole) /\ flagged.doubt = {} /\ (whole => flagged.split = FALSE)
  <2>1. (\A q \in executed : Faithful(q)) /\ (whole => Straight)
    BY <1>1 DEF Straight
  <2> QED
    BY <2>1, Zenon DEF AluInv, GoodInv
<1>5. Good(v, whole) /\ Written(n, v) = v
  BY <1>3, <1>4, GoodResult
<1>6. n.rd \in Regs /\ regs = [r \in Regs |-> regs[r]]
  BY <1>4, Fields DEF Related
<1>7. regs' = IF Compares(n) THEN regs ELSE [regs EXCEPT ![n.rd] = Written(n, v)]
  BY DEF Execute
<1>8. \A r \in Regs : regs'[r] = regs[r] \/ regs'[r] = v
  <2> HIDE DEF v
  <2> QED
    BY <1>5, <1>6, <1>7
<1>9. \A r \in Regs : Good(regs'[r], whole)
  <2> HIDE DEF v
  <2> QED
    BY <1>4, <1>5, <1>8, Zenon DEF GoodRegs
<1>10. CASE n.s \/ Compares(n)
  <2>1. flagged' = [doubt |-> IF v.kind = "ill" THEN Inputs ELSE v.doubt, split |-> v.split]
    BY <1>4, <1>10, FlagsSet, Zenon
  <2> HIDE DEF v
  <2>2. flagged'.doubt = {} /\ (whole => flagged'.split = FALSE)
    BY <1>5, <2>1 DEF Good
  <2> QED
    BY <1>9, <2>2, Zenon
<1>11. CASE ~(n.s \/ Compares(n))
  <2>1. flagged' = flagged
    BY <1>11 DEF Execute
  <2> QED
    BY <1>4, <1>9, <2>1, Zenon
<1> QED
  BY <1>10, <1>11

\* No register and no flag leaves ARM before an instruction does.
LEMMA GoodHolds == Spec => []GoodInv
<1>1. Init => GoodInv
  BY DEF Init, GoodInv, GoodRegs, Good
<1>2. AluInv /\ GoodInv /\ [Next]_vars => GoodInv'
  <2> SUFFICES ASSUME AluInv, GoodInv, [Next]_vars
               PROVE  GoodInv'
    OBVIOUS
  <2>1. ASSUME UNCHANGED <<regs, flagged, executed>>
        PROVE  GoodInv'
    BY <2>1 DEF GoodInv, GoodRegs, Good, Straight, Faithful, TooWide, ShiftsRight, Negative
  <2>2. ASSUME NEW n \in Instructions, ExecuteThrows(n)
        PROVE  GoodInv'
    BY <2>1, <2>2 DEF ExecuteThrows
  <2>3. CASE UNCHANGED vars
    BY <2>1, <2>3 DEF vars
  <2> QED
    BY <2>2, <2>3, GoodStep DEF Next
<1> QED
  BY <1>1, <1>2, AluInvHolds, PTL DEF Spec

\* As long as none of the instructions whose handlers depart from ARM was executed,
\* the formulas of the registers, of N and of Z are the ARM core's on every input,
\* whatever the word width, the inputs and the order of the instructions.
THEOREM FaithfulFormulasHold == Spec => []FaithfulFormulas
<1>1. AluInv /\ GoodInv => FaithfulFormulas
  <2> SUFFICES ASSUME AluInv, GoodInv, \A n \in executed : Faithful(n), NEW i \in Inputs
               PROVE  /\ \A r \in Regs : regs[r].kind # "ill" /\ regs[r].sym[i] = machine[i][r]
                      /\ \A f \in {"N", "Z"} : i \in flags[f].set <=> machine[i][f]
    BY Zenon DEF FaithfulFormulas
  <2>1. GoodRegs(FALSE) /\ flagged.doubt = {}
    BY DEF GoodInv
  <2>2. \A r \in Regs : regs[r].kind # "ill" /\ regs[r].sym[i] = machine[i][r]
    BY <2>1 DEF AluInv, Related, Exact, Clear, GoodRegs, Good
  <2>3. \A f \in {"N", "Z"} : i \in flags[f].set <=> machine[i][f]
    BY <2>1 DEF AluInv, FlagsExact
  <2> QED
    BY <2>2, <2>3, Zenon
<1> QED
  BY <1>1, AluInvHolds, GoodHolds, PTL

\* As long as there was no right shift either, the concrete halves are those of the
\* ARM core that starts from zeros.
THEOREM FaithfulHalvesHold == Spec => []FaithfulHalves
<1>1. AluInv /\ GoodInv => FaithfulHalves
  <2> SUFFICES ASSUME AluInv, GoodInv,
                      \A n \in executed : Faithful(n) /\ ~ShiftsRight(n)
               PROVE  /\ \A r \in Regs : regs[r].val = machine[Zero][r]
                      /\ \A f \in {"N", "Z"} : flags[f].val <=> machine[Zero][f]
    BY Zenon DEF FaithfulHalves
  <2>1. Straight
    BY Zenon DEF Straight
  <2>2. GoodRegs(TRUE) /\ flagged.doubt = {} /\ flagged.split = FALSE
    BY <2>1 DEF GoodInv
  <2>3. ASSUME NEW r \in Regs
        PROVE  regs[r].val = machine[Zero][r]
    <3>1. regs[r] \in Vectors /\ Exact(regs[r], Zero, machine[Zero][r])
      BY ZeroIsInput DEF AluInv, Related
    <3>2. regs[r].kind # "ill" /\ regs[r].doubt = {} /\ ~regs[r].split
      BY <2>2 DEF GoodRegs, Good
    <3>3. regs[r].val = regs[r].sym[Zero]
      BY <3>1, <3>2, Parts
    <3> QED
      BY <3>1, <3>2, <3>3 DEF Exact, Clear
  <2>4. \A f \in {"N", "Z"} :
          /\ Zero \in flags[f].set <=> machine[Zero][f]
          /\ flags[f].val <=> Zero \in flags[f].set
    BY <2>2, ZeroIsInput, Zenon DEF AluInv, FlagsExact
  <2> QED
    BY <2>3, <2>4, Zenon
<1> QED
  BY <1>1, AluInvHolds, GoodHolds, PTL

=============================================================================
