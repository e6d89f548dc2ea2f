------------------------------ MODULE MCExplorer ------------------------------
(***************************************************************************)
(* Small instances of Explorer: three inputs and every program of a given  *)
(* length over a small set of instructions.                                *)
(***************************************************************************)
EXTENDS Explorer

\* Three assignments to r0 and z: r0 = 0, 4 and 8, z set in the last.
MCInputs == {0, 4, 8}
MCInitReg == [r \in Regs |-> [i \in MCInputs |-> IF r = "r0" THEN i ELSE 0]]
MCInitZ == {8}

\* BinParser.end as execute leaves it, and as byteExecute sets it too.
MCExecute == {-1}
MCBoth == {-1, 4}

Jump(op, cond, a) == [op |-> op, cond |-> cond, target |-> Plain(a),
                      regs |-> << >>, num |-> 0]
Indirect(op, cond, r) == [op |-> op, cond |-> cond, target |-> NoLabel,
                          regs |-> <<r>>, num |-> 0]
Data(op, cond, rs, n) == [op |-> op, cond |-> cond, target |-> NoLabel,
                          regs |-> rs, num |-> n]

CodeOf(n, instrs) == [{4 * k : k \in 0..(n - 1)} -> instrs]

\* Branches, calls, guarded instructions and loads.
MCInstructions ==
    {Jump("b", "", 4), Jump("b", "eq", 0), Jump("b", "ne", 8), Jump("bl", "", 8),
     Indirect("bx", "", "lr"), Indirect("bx", "eq", "r0"),
     Data("cmp", "", <<"r0">>, 4), Data("mov", "ne", <<"r0">>, 8),
     Data("ldr", "", <<"r0", "lr">>, 0)}

MCPrograms == CodeOf(4, MCInstructions)

\* M0's own handlers: calls through registers and jumps by pop.
MCInstructionsM0 ==
    {Jump("b", "eq", 8), Jump("bl", "ne", 0), Indirect("bx", "eq", "r0"), Indirect("bx", "", "lr"),
     Indirect("blx", "", "lr"), Data("cmp", "", <<"r0">>, 4),
     Data("mov", "", <<"lr">>, 8), Data("ldr", "", <<"r0", "lr">>, 0),
     Data("ldrb", "", <<"r0">>, 0), Data("push", "", <<"r0", "lr">>, 0),
     Data("pop", "", <<"r0", "pc">>, 0), Data("pop", "", <<"lr">>, 0)}

MCProgramsM0 == CodeOf(4, MCInstructionsM0)

\* Loops of direct, conditional and indirect jumps, and guarded instructions.
MCInstructionsLoop ==
    {Jump("b", "", 0), Jump("b", "ne", 4), Jump("b", "eq", 8), Jump("bl", "", 4),
     Indirect("bx", "", "lr"), Data("cmp", "eq", <<"r0">>, 4),
     Data("nop", "", << >>, 0)}

MCProgramsLoop == CodeOf(4, MCInstructionsLoop)
=============================================================================
