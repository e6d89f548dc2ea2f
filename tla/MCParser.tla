------------------------------- MODULE MCParser -------------------------------
(***************************************************************************)
(* Four words: any mnemonic of a list first, then branches and gaps.       *)
(***************************************************************************)
EXTENDS Parser

\* Conditions as capstone prints them.
MCConds == {"", "eq", "ne", "hs", "lo", "mi", "pl", "vs", "vc", "hi", "ls", "ge", "lt",
            "gt", "le"}

FlagBases == {"adc", "add", "and", "asr", "bic", "eor", "lsl", "lsr", "mov", "mul", "mvn",
              "orr", "rsb", "smull", "sub", "umull", "sbc", "rsc", "ror", "rrx", "mla",
              "smlal", "umlal"}

OtherBases == {"b", "bl", "blx", "bx", "cmn", "cmp", "ldr", "ldrb", "ldrh", "movt", "movw",
               "nop", "pop", "push", "stmib", "str", "strb", "strh", "svc", "vpop", "vpush",
               "teq", "tst", "mls", "mrs", "msr", "clz", "hvc", "ldm", "stm", "bfc", "ldrsb",
               "ldrsh", "uxtb", "sxth", "rev", "udiv", "ldrd", "smmls", "swp", "hlt", "cps"}

Instruction(base, s, cond, jump) == [base |-> base, s |-> s, cond |-> cond, jump |-> jump]

AnyInstruction ==
    {Instruction(b, s, c, 0) : b \in FlagBases, s \in BOOLEAN, c \in MCConds}
      \cup {Instruction(b, FALSE, c, 0) : b \in OtherBases, c \in MCConds}

Branches == {Instruction("b", FALSE, "", j) : j \in {-3, -2, -1, 1, 2}}
              \cup {Instruction("b", FALSE, "ls", 1), Instruction("bl", FALSE, "", 3)}

MCWordsAt == [p \in Positions |-> Branches \cup {Undecodable}
                              \cup IF p = 0 THEN AnyInstruction
                                   ELSE {Instruction("mov", TRUE, "", 0)}]
=============================================================================
