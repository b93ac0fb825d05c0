----------------------------- MODULE MCAgentRobot -----------------------------
(***************************************************************************)
(* Small instances of AgentRobot: any few of the things that may happen,   *)
(* none of them more than twice.                                           *)
(***************************************************************************)
EXTENDS AgentRobot

CONSTANT MaxEvents    \* bound: all of them together

MCLimits == [turns |-> 1, calls |-> 2, presses |-> 1, others |-> 1,
             losses |-> 1, late |-> 1, failures |-> 1, all |-> MaxEvents]
=============================================================================
