------------------------------- MODULE MCClaims -------------------------------
(***************************************************************************)
(* One short program for each claim.                                       *)
(***************************************************************************)
EXTENDS MCExplorer, Claims

Listing(code) == [a \in {4 * (k - 1) : k \in DOMAIN code} |-> code[a \div 4 + 1]]

Nop == Data("nop", "", << >>, 0)

\* A fork whose first side changes r0 and ends in a return to nowhere.
ForkProgram == {Listing(<<Nop, Jump("b", "ne", 12), Nop, Data("mov", "", <<"r0">>, 4),
                          Indirect("bx", "", "lr")>>)}

\* A call and its return.
CallProgram == {Listing(<<Nop, Jump("bl", "", 12), Nop, Indirect("bx", "", "lr")>>)}

\* MOVEQ and the nop that SemanticCheck appends to it.
GuardedProgram == {Listing(<<Data("mov", "eq", <<"r0">>, 4), Nop>>)}

MCByteExecute == {4}
=============================================================================
