--------------------------- MODULE MotionLifecycle ---------------------------
(***************************************************************************)
(* What a subscriber may hear of each motion command: the contract of      *)
(* docs/protocol.md, "Motion lifecycle", with nothing said of queues,      *)
(* workers or locks.  told[c] is the last event heard of c.                *)
(***************************************************************************)
CONSTANT Commands

VARIABLE told

Owed == {"accepted", "started", "progress"}
Ended == {"completed", "failed", "cancelled", "shutdown"}

Tell(c, what) == told' = [told EXCEPT ![c] = what]

Init == told = [c \in Commands |-> "none"]

(* An id may be accepted again only when nothing is owed for it.           *)
Accept(c) == told[c] \in {"none"} \union Ended /\ Tell(c, "accepted")
Start(c) == told[c] = "accepted" /\ Tell(c, "started")
Progress(c) == told[c] \in {"started", "progress"} /\ Tell(c, "progress")

(* A motion that finishes by itself was started; one that is cancelled by  *)
(* a rest or by shutdown may never have been.                              *)
Complete(c) == told[c] = "progress" /\ Tell(c, "completed")
Fail(c) == told[c] \in {"started", "progress"} /\ Tell(c, "failed")
Cancel(c) ==
    /\ told[c] \in Owed
    /\ \E how \in {"cancelled", "shutdown"} : Tell(c, how)

Next == \E c \in Commands : \/ Accept(c) \/ Start(c) \/ Progress(c)
                            \/ Complete(c) \/ Fail(c) \/ Cancel(c)

Spec == Init /\ [][Next]_told
=============================================================================
