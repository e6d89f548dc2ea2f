-------------------------------- MODULE Claims --------------------------------
(***************************************************************************)
(* What names, comments and messages of the code say of the exploration    *)
(* and the exploration does not do.  forkEnv is a history variable: for    *)
(* each branch on envStack, the environment when it was pushed.            *)
(***************************************************************************)
EXTENDS Explorer

VARIABLE forkEnv

ClaimsInit == Init /\ forkEnv = << >>

ClaimsNext ==
    /\ Next
    /\ forkEnv' = IF Len(envStack') > Len(envStack)
                    THEN Append(forkEnv, env')
                    ELSE SubSeq(forkEnv, 1, Len(envStack'))

ClaimsSpec == ClaimsInit /\ [][ClaimsNext]_<<vars, forkEnv>>

\* decideToJump reports "Recursively roll back to the parent branch": the
\* registers, flags and stack are then those of that branch.
RollbackRestores ==
    [][Len(envStack') < Len(envStack) => env' = Top(forkEnv)]_<<vars, forkEnv>>

\* The first parameter of Emulator.bl is called nextLabel: what a call leaves in
\* lr is the address after it, and bx lr continues there.
ReturnsAfterCall ==
    \A e \in savedGraph :
        LET n == nodes[e[1]]
        IN  n.op = "bx" /\ n.regs = <<"lr">> /\ e[2] # nextInst(e[1])
              => \E c \in DOMAIN nodes : nodes[c].op = "bl" /\ e[2] = nextInst(c)

\* getSMTFormula is the "SMT formula for each instruction for semantic checking"
\* of what byteExecute returns: on every input of the path condition, a guarded
\* mov has written its register only if its condition held.
SummaryCorrect ==
    phase = "returned" /\ label = Plain(end) /\ Minus2(0) \in DOMAIN nodes =>
        LET n == nodes[Minus2(0)]
            r == n.regs[1]
            met == IF nodes[Plain(0)].cond = "eq" THEN InitZ ELSE Inputs \ InitZ
        IN  \A i \in pathCond :
               regs[r].sym[i] = IF i \in met THEN n.num ELSE InitReg[r][i]

=============================================================================
