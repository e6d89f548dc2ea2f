------------------------------ MODULE MCSession ------------------------------
(***************************************************************************)
(* A small instance of Session: calls with a plain, a conditional and an   *)
(* undecodable word, and with branches that loop, leave the code, or go    *)
(* where a register says.                                                  *)
(***************************************************************************)
EXTENDS Session

Mov(cond) == [op |-> "mov", cond |-> cond, target |-> NoLabel, regs |-> <<"r0">>, num |-> 0]
Jump(cond, a) == [op |-> "b", cond |-> cond, target |-> Plain(a), regs |-> << >>, num |-> 0]
Indirect(cond) == [op |-> "bx", cond |-> cond, target |-> NoLabel, regs |-> <<"r0">>, num |-> 0]

MCWords == {Mov(""), Mov("eq"), Jump("", 0), Jump("eq", 0), Jump("ne", 12), Indirect("eq"),
            Undecodable}
=============================================================================
