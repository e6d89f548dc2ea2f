------------------------------ MODULE MCLockstep ------------------------------
(***************************************************************************)
(* Small instances of Lockstep.                                            *)
(***************************************************************************)
EXTENDS MCExplorer, Lockstep

\* The all-zero input and two with addresses in r0 and lr.
MCInitRegs == [r \in Regs |-> [i \in MCInputs |-> IF r = "r0" THEN i ELSE (2 * i) % 12]]

\* Forks of forks, guarded instructions, calls and indirect branches.
LockstepInstructions ==
    {Jump("b", "eq", 4), Jump("b", "ne", 8), Jump("bl", "", 8),
     Indirect("bx", "", "lr"), Indirect("bx", "ne", "r0"),
     Data("cmp", "", <<"r0">>, 4), Data("cmp", "ne", <<"lr">>, 8),
     Data("mov", "eq", <<"r0">>, 4), Data("push", "", <<"r0", "lr">>, 0),
     Data("pop", "", <<"r0", "lr">>, 0),
     Indirect("blx", "", "r0"), Data("ldr", "", <<"r0", "lr">>, 0)}

LockstepPrograms == CodeOf(4, LockstepInstructions)

\* Calls, a branch M0 ignores, returns by bx and by pop, lists pushed and popped.
LockstepInstructionsM0 ==
    {Indirect("blx", "", "lr"), Indirect("blx", "ne", "r0"), Jump("b", "eq", 0),
     Indirect("bx", "", "lr"), Data("cmp", "", <<"r0">>, 4), Data("mov", "ne", <<"lr">>, 8),
     Data("ldr", "", <<"r0", "lr">>, 0), Data("push", "", <<"r0", "lr">>, 0),
     Data("pop", "", <<"r0", "pc">>, 0), Data("pop", "", <<"r0", "lr">>, 0)}

LockstepProgramsM0 == CodeOf(4, LockstepInstructionsM0)
=============================================================================
