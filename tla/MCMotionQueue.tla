---------------------------- MODULE MCMotionQueue ----------------------------
(***************************************************************************)
(* Small instances of MotionQueue: two motions and a rest on a joint with  *)
(* positions 0..2 whose rest pose is 0.                                    *)
(***************************************************************************)
EXTENDS MotionQueue

CONSTANTS m1, m2, r1

MCKind == [c \in Commands |-> IF c = r1 THEN "rest"
                              ELSE IF c = m2 THEN "relative" ELSE "absolute"]
MCAmount == [c \in Commands |-> IF c = m1 THEN 2 ELSE IF c = m2 THEN 1 ELSE 0]
MCPositions == 0 .. 2

(* One more submission when no subscriber suspends: those runs are small.  *)
MCSubmits == [s \in Subscribers |-> IF s = "prompt" THEN 4 ELSE 3]
=============================================================================
