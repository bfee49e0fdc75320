------------------------- MODULE BroadcastDelivery -------------------------
(* How Broadcast implements Delivery: the queue's many statuses, and the
   messages of its attempts, seen by the operator of a campaign that nobody
   interferes with. *)
EXTENDS Broadcast

Received == [t \in Target |-> {k \in Tries : net[t][k] = "accepted"}]

Told(r) ==
    IF r.status \in Open THEN "open"
    ELSE IF r.status \in Reached THEN "reached"
    ELSE IF r.code = "unknown" THEN "unknown"
    ELSE "closed"

D == INSTANCE Delivery
        WITH Person <- Target, Copy <- Tries,
             received <- Received, report <- [t \in Target |-> Told(tgt[t])]

\* However often the worker dies, times out, is answered late or loses a
\* statement, each recipient gets one copy at most and one final line in the
\* report, which is true: the statements of FinishAttemptSent,
\* FinishAttemptFailed, ReconcileStuckTargets and CloseOrphanedTargets together.
ImplementsDelivery == D!Spec
=============================================================================
