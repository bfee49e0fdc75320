-------------------------------- MODULE MCSync --------------------------------
(* Small instances of Sync for TLC. *)
EXTENDS Sync, TLC

CONSTANTS i1, i2, o1, a1, a2, a3, f1, f2, q1, q2

InOrder == i1 :> 1 @@ o1 :> 3 @@ i2 :> 4
Clock == o1 :> 2
Doings == [all |-> 2, opens |-> 1, marks |-> 1, receipts |-> 1, revokes |-> 1, blobs |-> 1,
           drops |-> 1, crashes |-> 1, webs |-> 2, hides |-> 1, prunes |-> 1]

OneFile == a1 :> f1 @@ a2 :> f1 @@ a3 :> f2
OneToken == q1 :> o1 @@ q2 :> o1
Nobody == [all |-> 5, records |-> 0, opens |-> 0, fails |-> 0, faults |-> 0, deletes |-> 0,
           sends |-> 0, cuts |-> 0, crashes |-> 0]
\* Two messages with one file, opened by several people, and a sweep; the same
\* with rows deleted; a send repeated under one token.
Exchanges ==
    {[Nobody EXCEPT !.records = 2, !.opens = 2, !.fails = 1, !.faults = 1, !.cuts = 1],
     [Nobody EXCEPT !.records = 2, !.opens = 2, !.deletes = 1, !.crashes = 1],
     [Nobody EXCEPT !.sends = 2, !.fails = 1, !.deletes = 1, !.crashes = 1]}

Calm == [broken |-> 0, changes |-> 0, breaks |-> 0, rebuilds |-> 0, answers |-> 0,
            failures |-> 0, presses |-> 0, writes |-> 0, crashes |-> 0]
Disturbances ==
    {[Calm EXCEPT !.changes = 1, !.breaks = 1],
     [Calm EXCEPT !.broken = 1, !.presses = 1],
     [Calm EXCEPT !.broken = 1, !.rebuilds = 1],
     [Calm EXCEPT !.broken = 1, !.crashes = 1, !.answers = 1],
     [Calm EXCEPT !.breaks = 1, !.writes = 1],
     [Calm EXCEPT !.failures = 1, !.presses = 1, !.writes = 1]}
=============================================================================
