------------------------------- MODULE Worklist -------------------------------
(***************************************************************************)
(* What a path exploration promises, whatever program it explores: it      *)
(* follows one set of inputs at a time and keeps the sets it has put off   *)
(* on a stack.  A set is only ever split into disjoint parts that have     *)
(* inputs; a set that was put off is not touched until it is resumed; and  *)
(* the process is not ended while one of them is waiting.                  *)
(*                                                                         *)
(* A part may be lost when the solver does not answer, and the search may  *)
(* give up (an exception, the end of the code) with sets still put off:    *)
(* the code promises neither.                                              *)
(***************************************************************************)
EXTENDS Integers, Sequences

CONSTANT Inputs    \* assignments to the symbolic variables

VARIABLES
    path,     \* the inputs of the path being followed
    pending,  \* the sets put off, the next one last
    status    \* "running", "returned" or "exited"

wvars == <<path, pending, status>>

Init ==
    /\ path = Inputs
    /\ pending = << >>
    /\ status = "running"

\* Both sides of a branch have inputs: follow one and put the other off.
Fork(taken, left) ==
    /\ taken # {} /\ left # {} /\ taken \cap left = {}
    /\ path' = taken
    /\ pending' = Append(pending, left)
    /\ status' = status

\* Only one side of a branch is known to have inputs.
Narrow(taken) ==
    /\ taken # {}
    /\ path' = taken
    /\ UNCHANGED <<pending, status>>

\* The path is over: resume the set put off last.
Resume ==
    /\ pending # << >>
    /\ path' = pending[Len(pending)]
    /\ pending' = SubSeq(pending, 1, Len(pending) - 1)
    /\ status' = status

\* The search gives up, with what is pending left unexplored.
GiveUp ==
    /\ status' = "returned"
    /\ UNCHANGED <<path, pending>>

\* The path is over and nothing is pending: the process ends.
Finish ==
    /\ pending = << >>
    /\ status' = "exited"
    /\ UNCHANGED <<path, pending>>

Next ==
    /\ status = "running"
    /\ \/ \E taken, left \in SUBSET path : Fork(taken, left)
       \/ \E taken \in SUBSET path : Narrow(taken)
       \/ Resume
       \/ GiveUp
       \/ Finish

Spec == Init /\ [][Next]_wvars

=============================================================================
