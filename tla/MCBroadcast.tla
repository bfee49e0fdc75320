---------------------------- MODULE MCBroadcast ----------------------------
(* Small instances of Broadcast for TLC. *)
EXTENDS BroadcastInv, BroadcastDelivery, TLC

CONSTANTS p1, p2, a1, a2, t1, t2

\* Every recipient on one number.
OneNumber == [t \in Target |-> a1]

\* A number each for two recipients.
TwoNumbers == [t \in Target |-> IF t = t1 THEN a1 ELSE a2]

SameProcesses == Permutations({p1, p2})

FairReturnSpec == FairSpec /\ NumbersReturn
=============================================================================
