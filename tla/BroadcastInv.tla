---------------------------- MODULE BroadcastInv ----------------------------
(* The inductive strengthenings of Broadcast's safety invariants: what every
   step relies on and keeps, and why the invariants hold. *)
EXTENDS Broadcast

\* The goroutine has a recipient in its hands, from the claim to the last write.
Busy ==
    {"pace", "record", "send", "sending", "acked", "sent", "refused", "failed"}

Holds(p, a) == dev[p][a].pc \in Busy

\* It knows whom it holds, and for which attempt.
HandsOK ==
    \A p \in Proc, a \in Account :
        Holds(p, a) => Now(p, a) \in Target /\ Try(p, a) \in Tries

Fresh == {"record", "send"}
Confirmed == {"acked", "sent"}

-----------------------------------------------------------------------------
(* SentWasAccepted: every row that says "sent" was written from evidence. *)

BubbleBacked ==
    \A t \in Target, k \in Tries : msg[t][k] \in Reached => net[t][k] = "accepted"

ReceiptBacked ==
    \A t \in Target, k \in Tries, r \in ReceiptType :
        rcpt[t][k][r] # "new" => net[t][k] = "accepted"

ConfirmedBacked ==
    \A p \in Proc, a \in Account :
        dev[p][a].pc \in Confirmed => net[Now(p, a)][Try(p, a)] = "accepted"

\* The attempt row comes before the message.
AttemptFirst ==
    \A t \in Target, k \in Tries : net[t][k] # "none" => att[t][k] # "none"

FreshUnsent ==
    \A p \in Proc, a \in Account :
        dev[p][a].pc \in Fresh =>
            /\ att[Now(p, a)][Try(p, a)] # "none"
            /\ net[Now(p, a)][Try(p, a)] = "none"

\* uq_broadcast_attempt gives an attempt to one goroutine.
OneSender ==
    \A p, q \in Proc, a, b \in Account :
        /\ dev[p][a].pc \in Fresh /\ dev[q][b].pc \in Fresh
        /\ Now(p, a) = Now(q, b) /\ Try(p, a) = Try(q, b)
        => p = q /\ a = b

SentInv ==
    /\ TypeOK
    /\ HandsOK
    /\ SentWasAccepted
    /\ BubbleBacked
    /\ ReceiptBacked
    /\ ConfirmedBacked
    /\ AttemptFirst
    /\ FreshUnsent
    /\ OneSender

-----------------------------------------------------------------------------
(* AtMostOnce, when nobody asks for a retry or a resend: a recipient goes back
   to the queue only when its last message is known not to have gone out. *)

NoRequeue == Ops \cap {"retry", "resend"} = {}

NoResend == ui \notin {"resend", "requeue"}

\* A recipient is in one goroutine's hands, and not in the queue meanwhile.
HeldOut ==
    \A p \in Proc, a \in Account :
        Holds(p, a) =>
            /\ tgt[Now(p, a)].status \notin Waiting
            /\ tgt[Now(p, a)].attempt = Try(p, a)

OneHolder ==
    \A p, q \in Proc, a, b \in Account :
        Holds(p, a) /\ Holds(q, b) /\ Now(p, a) = Now(q, b) => p = q /\ a = b

InFlight(t, k) == net[t][k] \in {"wire", "accepted"}

\* Only the last attempt can have gone out, and then the recipient is not waiting.
LastAttempt ==
    \A t \in Target, k \in Tries :
        InFlight(t, k) => tgt[t].attempt = k /\ tgt[t].status \notin Waiting

UnsentYet ==
    \A p \in Proc, a \in Account :
        dev[p][a].pc \in {"pace"} \cup Fresh => net[Now(p, a)][Try(p, a)] = "none"

\* What a goroutine retries did not go out.
RetriedUnsent ==
    \A p \in Proc, a \in Account :
        dev[p][a].pc \in {"refused", "failed"} /\ dev[p][a].why \in {"build", "refused"}
            => ~InFlight(Now(p, a), Try(p, a))

AttemptsAhead ==
    \A t \in Target, k \in Tries : k > tgt[t].attempt => net[t][k] = "none"

OnceInv ==
    /\ TypeOK
    /\ HandsOK
    /\ NoResend
    /\ HeldOut
    /\ OneHolder
    /\ LastAttempt
    /\ UnsentYet
    /\ RetriedUnsent
    /\ AttemptsAhead

-----------------------------------------------------------------------------
(* OneWorker, when leases are kept and nobody asks for a retry or a resend: the
   worker of a campaign is the holder of its live lease. *)

LeasesKept == MaxOutages = 0

WorkerHoldsLease ==
    \A p \in Proc :
        Working(p) => camp.owner = p /\ camp.lease = "live" /\ camp.status = "running"

WorkerInv ==
    /\ TypeOK
    /\ NoResend
    /\ WorkerHoldsLease

-----------------------------------------------------------------------------
(* What both together give: the goroutines are those of the one worker, each on
   the recipients of its own number, and nobody else moves a recipient one of
   them has in its hands. *)

DevicesRest ==
    \A p \in Proc, a \in Account : dev[p][a].pc # "off" => run[p] = "launch"

OwnNumber ==
    \A p \in Proc, a \in Account : Holds(p, a) => AccountOf[Now(p, a)] = a

HeldInProcess ==
    \A p \in Proc, a \in Account : Holds(p, a) => tgt[Now(p, a)].status = "processing"

HandsInv ==
    /\ WorkerInv
    /\ OnceInv
    /\ DevicesRest
    /\ OwnNumber
    /\ HeldInProcess

-----------------------------------------------------------------------------
(* The verdict on a campaign stays true of its recipients: FinishCampaign finds
   what PendingTargetCount or CancelRemainingWork left, and nobody reopens a
   recipient afterwards. *)

FinishFindsNobodyOpen ==
    \A p \in Proc : run[p] = "finish" => \A t \in Target : tgt[t].status \notin Open

SettledRows ==
    /\ camp.status \in {"completed", "partial"} => \A t \in Target : tgt[t].status \notin Open
    /\ camp.status = "completed" => \A t \in Target : tgt[t].status \in Reached
    /\ camp.status = "cancelled" => \A t \in Target : tgt[t].status \notin Waiting

SettledInv ==
    /\ HandsInv
    /\ FinishFindsNobodyOpen
    /\ SettledRows
    /\ SettledAddsUp

-----------------------------------------------------------------------------
(* NoClaimAfterCancel, when no statement fails: a goroutine that saw no cancel
   before it claims finds its number's queue emptied by the cancel. *)

StatementsSucceed == MaxLost = 0

CancelInv ==
    /\ HandsInv
    /\ \A p \in Proc, a \in Account, t \in Target :
          camp.cancel /\ dev[p][a].pc = "claim" => ~Claimable(t, a)

-----------------------------------------------------------------------------
(* ClaimedIsAttempted: a claim counts the attempt before its row is written, and
   only the holder writes it. *)

ClaimInv ==
    /\ OnceInv
    /\ \A t \in Target, k \in Tries : k > tgt[t].attempt => att[t][k] = "none"
    /\ \A p \in Proc, a \in Account :
          dev[p][a].pc = "pace" => att[Now(p, a)][Try(p, a)] = "none"

-----------------------------------------------------------------------------
(* ClosedWasNotReached, when nobody cancels and offline numbers are waited for:
   only the goroutine that knows that its send failed closes a recipient. *)

NoCancel == Ops \cap {"cancel", "archive"} = {}

NothingCancelled ==
    /\ ~camp.cancel /\ ui # "stop"
    /\ \A p \in Proc : run[p] # "cancelling"
    /\ \A p \in Proc, a \in Account : dev[p][a].pc # "abandon"

KnownClosed(r) == r.status = "cancelled" \/ (r.status = "failed" /\ r.code # "unknown")

HeldIsOpen ==
    \A p \in Proc, a \in Account : Holds(p, a) => ~KnownClosed(tgt[Now(p, a)])

FinalUnsent ==
    \A p \in Proc, a \in Account :
        dev[p][a].pc \in {"refused", "failed"} /\ dev[p][a].why # "timeout"
            => ~InFlight(Now(p, a), Try(p, a))

ClosedInv ==
    /\ OnceInv
    /\ NothingCancelled
    /\ HeldIsOpen
    /\ FinalUnsent
    /\ ClosedWasNotReached
=============================================================================
