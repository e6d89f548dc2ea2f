-------------------------------- MODULE MCAlu --------------------------------
(***************************************************************************)
(* Alu on four-bit words: the boundary values in both registers, and every *)
(* pair or triple of instructions out of a set with all operations.        *)
(***************************************************************************)
EXTENDS Alu

MCZero == [r0 |-> 0, r1 |-> 0, c |-> FALSE]

\* 0, 1, the greatest and the least signed word, -1; carry set on some.
MCInputs == {[r0 |-> x, r1 |-> y, c |-> x = 7] : x, y \in {0, 1, 7, 8, 15}}

Three(op, rd, rn, src, s) ==
    [op |-> op, rd |-> rd, rn |-> rn, src |-> src, imm |-> 0,
     extra |-> "", amount |-> 0, s |-> s]
Imm(op, rd, rn, k, s) == [Three(op, rd, rn, "imm", s) EXCEPT !.imm = k]
Shifted(op, rd, rn, src, type, k, s) ==
    [Three(op, rd, rn, src, s) EXCEPT !.extra = type, !.amount = k]

MCInstructions ==
    {Three(op, "r0", "r0", "r1", s) :
        op \in {"add", "sub", "rsb", "adc", "and", "bic", "orr", "eor", "mul"}, s \in BOOLEAN}
    \cup {Three(op, "r1", "r1", "r0", FALSE) : op \in {"mov", "mvn", "sub", "cmp", "cmn"}}
    \cup {Imm(op, "r0", "r0", k, TRUE) : op \in {"mov", "sub", "bic", "lsr"}, k \in {1, 4}}
    \cup {Imm(op, "r1", "r1", k, FALSE) :
            op \in {"add", "orr", "cmp", "mvn", "bic", "rsb"}, k \in {3, 8}}
    \cup {Imm("lsl", "r1", "r1", 1, TRUE), Imm("asr", "r1", "r1", 1, TRUE),
           Imm("mov", "r0", "r0", 9, FALSE)}
    \cup {Shifted(op, "r0", "r0", "r1", type, 1, FALSE) :
            op \in {"add", "rsb", "bic", "cmp"}, type \in {"lsl", "lsr", "asr", "ror", "rrx"}}
=============================================================================
