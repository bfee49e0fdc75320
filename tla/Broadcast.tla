------------------------------ MODULE Broadcast ------------------------------
(***************************************************************************)
(* One broadcast campaign on the queue that lives in PostgreSQL: the       *)
(* scheduler and the workers of campaign/runner.go, the statements of      *)
(* repository/broadcast.go they run, the operators' requests, WhatsApp's   *)
(* server and the receipts it sends back.                                  *)
(*                                                                         *)
(* Every action is one SQL statement or transaction, one network event, or *)
(* one decision a goroutine takes between two of them, so that every       *)
(* interleaving of several server processes, their per-number goroutines,  *)
(* operators and crashes is a behaviour.                                   *)
(*                                                                         *)
(* Time is abstracted: a lease is live until an action expires it, a       *)
(* retry gap may or may not have run out when a claim looks.               *)
(***************************************************************************)
EXTENDS Naturals, FiniteSets

CONSTANTS
    Proc,         \* server processes (a restart gives a process a new owner id)
    Account,      \* sender numbers (broadcast_sender_devices)
    Target,       \* recipients (campaign_targets)
    AccountOf,    \* the number each recipient is assigned to
    NoOne,        \* a null lease_owner
    Dead,         \* the owner id of a process instance that has stopped
    MaxAttempts,  \* content_campaigns.max_attempts
    SendSlots,    \* config.CampaignSendConcurrency
    AutoRetry,    \* content_campaigns.auto_retry_on_disconnect
    HasMedia,     \* the campaign carries a file
    Ops,          \* the operator requests this instance considers
    Receipts      \* the receipt types this instance considers

CONSTANTS         \* bounds of the model, none of them in the code
    MaxTries,     \* highest value of campaign_targets.attempt
    MaxOps,       \* operator requests
    MaxCrashes,   \* processes stopped
    MaxOutages,   \* campaign leases lost by a worker that is still alive
    MaxFlaps,     \* numbers going offline
    MaxLost       \* database statements that return an error

OpNames == {"cancel", "retry", "run", "schedule", "resend", "archive"}
ReceiptType == {"delivered", "read"}

ASSUME ConstantsAssumption ==
    /\ AccountOf \in [Target -> Account]
    /\ Account # {} /\ IsFiniteSet(Target)
    /\ NoOne \notin Proc \cup Target /\ Dead \notin Proc /\ NoOne # Dead
    /\ MaxAttempts \in Nat \ {0} /\ MaxTries \in Nat /\ MaxTries >= MaxAttempts
    /\ SendSlots \in Nat \ {0}
    /\ AutoRetry \in BOOLEAN /\ HasMedia \in BOOLEAN
    /\ Ops \subseteq OpNames /\ Receipts \subseteq ReceiptType
    /\ {MaxOps, MaxCrashes, MaxOutages, MaxFlaps, MaxLost} \subseteq Nat

VARIABLES
    camp,     \* the content_campaigns row
    tgt,      \* the campaign_targets rows
    att,      \* broadcast_target_attempts.status, by recipient and attempt
    msg,      \* messages.status of the message each attempt minted
    net,      \* what became of that message outside the server
    rcpt,     \* how far the handling of each of its receipts has come
    online,   \* which numbers have a live connection
    run,      \* where each process's worker for this campaign stands
    dev,      \* where each process's goroutine for each number stands
    ui,       \* the operator request of several statements in progress
    spent     \* what has been used of each bound

vars == <<camp, tgt, att, msg, net, rcpt, online, run, dev, ui, spent>>
rows == <<camp, tgt, att, msg>>
world == <<net, rcpt, online>>
book == <<ui, spent>>

-----------------------------------------------------------------------------
(* Types *)

Tries == 1 .. MaxTries

\* "stopped" statuses of a campaign, and the groups of recipient statuses the
\* queries of repository/broadcast.go filter on.
Terminal == {"completed", "partial", "failed", "cancelled"}
Waiting == {"pending", "retry_wait"}
Open == Waiting \cup {"processing"}
Reached == {"sent", "delivered", "read"}
Lost == {"failed", "cancelled"}

CampaignStatus == {"draft", "scheduled", "running"} \cup Terminal
TargetStatus == Open \cup Reached \cup Lost
Lease == {"none", "live", "expired"}
AttemptStatus == {"none", "sending", "sent", "failed"}
MessageStatus == {"none", "pending", "failed"} \cup Reached
Fate == {"none", "wire", "accepted", "dropped"}

Campaign ==
    [status : CampaignStatus, cancel : BOOLEAN, owner : Proc \cup {NoOne, Dead},
     lease : Lease, archived : BOOLEAN, stalled : {"no", "since", "over"},
     success : Nat, failed : Nat]

Recipient ==
    [status : TargetStatus, attempt : 0 .. MaxTries, lease : Lease,
     code : {"none", "unknown", "other"}, wamid : 0 .. MaxTries]

WorkerState ==
    {"down", "idle", "reconcile", "check", "media", "launch", "stalled",
     "failing", "clear", "count", "release", "finish", "cancelling"}

DeviceState ==
    {"off", "todo", "skipped", "nomedia", "done", "running", "abandon",
     "claim", "pace", "record", "send", "sending", "acked", "sent",
     "refused", "failed"}

Why == {"none", "build", "refused", "final", "timeout"}

Device ==
    [pc : DeviceState, target : Target \cup {NoOne}, try : 0 .. MaxTries, why : Why]

At(pc) == [pc |-> pc, target |-> NoOne, try |-> 0, why |-> "none"]
Idle == At("off")
Holding(t, k) == [pc |-> "pace", target |-> t, try |-> k, why |-> "none"]
Moved(d, pc) == [d EXCEPT !.pc = pc]
Blamed(d, pc, why) == [d EXCEPT !.pc = pc, !.why = why]

\* The updates the statements make to a recipient's row. An operator whose name
\* has an underscore, here and below, is a mutant of the definition after it.
Claimed_sameAttempt(r) == [r EXCEPT !.status = "processing", !.lease = "live"]
Claimed(r) == [r EXCEPT !.status = "processing", !.lease = "live", !.attempt = @ + 1]
SentAs(r, k, code) ==
    [r EXCEPT !.status = "sent", !.wamid = k, !.lease = "none", !.code = code]
Closed(r, status, code) == [r EXCEPT !.status = status, !.lease = "none", !.code = code]
Cancelled_misspelt(r) == [r EXCEPT !.status = "canceled"]
Cancelled(r) == [r EXCEPT !.status = "cancelled"]
Requeued(r) ==
    [r EXCEPT !.status = "retry_wait", !.attempt = 0, !.lease = "none", !.code = "none"]
Expired(r) == [r EXCEPT !.lease = "expired"]
Advanced(r, status) == [r EXCEPT !.status = status]

Budget == [ops : Nat, crashes : Nat, outages : Nat, flaps : Nat, lost : Nat]

TypeOK ==
    /\ camp \in Campaign
    /\ tgt \in [Target -> Recipient]
    /\ att \in [Target -> [Tries -> AttemptStatus]]
    /\ msg \in [Target -> [Tries -> MessageStatus]]
    /\ net \in [Target -> [Tries -> Fate]]
    /\ rcpt \in [Target -> [Tries -> [ReceiptType -> {"new", "claimed", "applied"}]]]
    /\ online \in [Account -> BOOLEAN]
    /\ run \in [Proc -> WorkerState]
    /\ dev \in [Proc -> [Account -> Device]]
    /\ ui \in {"idle", "resend", "requeue", "stop", "archive"}
    /\ spent \in Budget

-----------------------------------------------------------------------------
(* A campaign as SaveBroadcast leaves it. *)

NewRecipient ==
    [status |-> "pending", attempt |-> 0, lease |-> "none", code |-> "none", wamid |-> 0]

Init ==
    /\ \E s \in {"draft", "scheduled"} :
          camp = [status |-> s, cancel |-> FALSE, owner |-> NoOne, lease |-> "none",
                  archived |-> FALSE, stalled |-> "no", success |-> 0, failed |-> 0]
    /\ tgt = [t \in Target |-> NewRecipient]
    /\ att = [t \in Target |-> [k \in Tries |-> "none"]]
    /\ msg = [t \in Target |-> [k \in Tries |-> "none"]]
    /\ net = [t \in Target |-> [k \in Tries |-> "none"]]
    /\ rcpt = [t \in Target |-> [k \in Tries |-> [r \in ReceiptType |-> "new"]]]
    /\ online \in [Account -> BOOLEAN]
    /\ run = [p \in Proc |-> "idle"]
    /\ dev = [p \in Proc |-> [a \in Account |-> Idle]]
    /\ ui = "idle"
    /\ spent = [ops |-> 0, crashes |-> 0, outages |-> 0, flaps |-> 0, lost |-> 0]

-----------------------------------------------------------------------------
(* The goroutine process p runs for number a, its recipient and the attempt it
   claimed it for. *)

SetDevice(p, a, d) == dev' = [dev EXCEPT ![p][a] = d]
Step(p, a, pc) == SetDevice(p, a, Moved(dev[p][a], pc))

\* The goroutine's recipient and the attempt it claimed it for.
Now(p, a) == dev[p][a].target
Try(p, a) == dev[p][a].try

-----------------------------------------------------------------------------
(* The scheduler *)

Tally(S) == Cardinality({t \in Target : tgt[t].status \in S})

\* A worker goroutine exists for this campaign in process p.
Working(p) == run[p] \notin {"down", "idle"}

LeaseFree_always == TRUE
LeaseFree == camp.lease # "live"

Due_notCancelled ==
    /\ camp.status \in {"scheduled", "running"}
    /\ ~camp.archived
    /\ ~camp.cancel
    /\ LeaseFree

Due ==
    /\ camp.status \in {"scheduled", "running"}
    /\ ~camp.archived
    /\ camp.cancel => camp.status = "running"
    /\ LeaseFree

\* tick: the claim renews the lease even when begin finds the campaign already
\* in flight in this process.
ClaimDueCampaigns(p) ==
    /\ run[p] # "down"
    /\ Due
    /\ camp' = [camp EXCEPT !.status = "running", !.owner = p, !.lease = "live"]
    /\ run' = IF Working(p) THEN run ELSE [run EXCEPT ![p] = "reconcile"]
    /\ UNCHANGED <<tgt, att, msg, world, dev, book>>

\* The renewing goroutine lives as long as the worker does.
RenewCampaignLease(p) ==
    /\ Working(p)
    /\ camp.owner = p /\ camp.lease = "expired"
    /\ camp' = [camp EXCEPT !.lease = "live"]
    /\ UNCHANGED <<tgt, att, msg, world, run, dev, book>>

InFlightExpired(t) == tgt[t].status = "processing" /\ tgt[t].lease = "expired"

Orphaned_unlessCancelled(t) == InFlightExpired(t) /\ camp.status \in Terminal \ {"cancelled"}
Orphaned(t) == InFlightExpired(t) /\ camp.status \in Terminal

CloseOrphanedTargets(p) ==
    /\ run[p] # "down"
    /\ \E t \in Target : Orphaned(t)
    /\ tgt' = [t \in Target |->
                  IF Orphaned(t)
                  THEN Closed(tgt[t], "failed", "unknown")
                  ELSE tgt[t]]
    /\ UNCHANGED <<camp, att, msg, world, run, dev, book>>

-----------------------------------------------------------------------------
(* The worker of one claimed campaign *)

\* The message rows that prove an interrupted attempt left the server.
Evidence_pending == Reached \cup {"pending"}
Evidence == Reached

Interrupted(t, k) == InFlightExpired(t) /\ att[t][k] = "sending"
Landed(t, k) == Interrupted(t, k) /\ msg[t][k] \in Evidence
Arrived(t) == \E k \in Tries : Landed(t, k)

\* Evidence settles the recipient and its attempt as sent; the attempts of a
\* recipient without any are failed, and its outcome is recorded as unknown.
ReconciledAttempt(t, k) ==
    IF Landed(t, k) THEN "sent"
    ELSE IF Interrupted(t, k) /\ ~Arrived(t) THEN "failed"
    ELSE att[t][k]

ReconciledTarget_requeued(t) ==
    IF Arrived(t)
    THEN SentAs(tgt[t], CHOOSE k \in Tries : Landed(t, k), tgt[t].code)
    ELSE IF InFlightExpired(t)
    THEN Closed(tgt[t], "retry_wait", "unknown")
    ELSE tgt[t]

ReconciledTarget(t) ==
    IF Arrived(t)
    THEN SentAs(tgt[t], CHOOSE k \in Tries : Landed(t, k), tgt[t].code)
    ELSE IF InFlightExpired(t)
    THEN Closed(tgt[t], "failed", "unknown")
    ELSE tgt[t]

\* uq_broadcast_attempt_success: a second successful attempt aborts the whole
\* transaction; the error is logged and the run goes on.
ReconcileStuckTargets(p) ==
    /\ run[p] = "reconcile"
    /\ LET conflict == \E t \in Target : \E j, k \in Tries :
                          /\ j # k
                          /\ ReconciledAttempt(t, j) = "sent"
                          /\ ReconciledAttempt(t, k) = "sent"
       IN  IF conflict
           THEN UNCHANGED <<tgt, att>>
           ELSE /\ att' = [t \in Target |-> [k \in Tries |-> ReconciledAttempt(t, k)]]
                /\ tgt' = [t \in Target |-> ReconciledTarget(t)]
    /\ run' = [run EXCEPT ![p] = "check"]
    /\ UNCHANGED <<camp, msg, world, dev, book>>

CheckCancel(p) ==
    /\ run[p] = "check"
    /\ run' = [run EXCEPT ![p] = IF camp.cancel THEN "cancelling" ELSE "media"]
    /\ UNCHANGED <<rows, world, dev, book>>

\* The file is fetched once for the whole run; failing to get it ends the run.
FetchMedia(p) ==
    /\ run[p] = "media"
    /\ \/ /\ run' = [run EXCEPT ![p] = "launch"]
          /\ dev' = [dev EXCEPT ![p] = [a \in Account |-> At("todo")]]
       \/ /\ HasMedia
          /\ run' = [run EXCEPT ![p] = "failing"]
          /\ UNCHANGED dev
    /\ UNCHANGED <<rows, world, book>>

\* runBroadcast's loop over the numbers: an offline one is skipped, one whose
\* upload fails is marked failed, the others get a goroutine each.
LaunchDevice(p, a) ==
    /\ run[p] = "launch" /\ dev[p][a].pc = "todo"
    /\ \/ ~online[a] /\ SetDevice(p, a, At("skipped"))
       \/ online[a] /\ SetDevice(p, a, At("running"))
       \/ online[a] /\ HasMedia /\ SetDevice(p, a, At("nomedia"))
    /\ UNCHANGED <<rows, world, run, book>>

\* wg.Wait, and whether any number answered.
DevicesDone(p) ==
    /\ run[p] = "launch"
    /\ \A a \in Account : dev[p][a].pc \in {"skipped", "nomedia", "done"}
    /\ LET nobody == \A a \in Account : dev[p][a].pc = "skipped"
       IN  run' = [run EXCEPT ![p] = IF nobody THEN "stalled" ELSE "clear"]
    /\ dev' = [dev EXCEPT ![p] = [a \in Account |-> Idle]]
    /\ UNCHANGED <<rows, world, book>>

ClearCampaignStalled(p) ==
    /\ run[p] = "clear"
    /\ camp' = [camp EXCEPT !.stalled = "no"]
    /\ run' = [run EXCEPT ![p] = "count"]
    /\ UNCHANGED <<tgt, att, msg, world, dev, book>>

\* The first stalled run stamps the campaign, one past the grace period fails it.
Stamp_anew == "since"
Stamp == IF camp.stalled = "no" THEN "since" ELSE camp.stalled

MarkCampaignStalled(p) ==
    /\ run[p] = "stalled"
    /\ run' = [run EXCEPT ![p] = IF Stamp = "over" THEN "failing" ELSE "release"]
    /\ camp' = [camp EXCEPT !.stalled = Stamp]
    /\ UNCHANGED <<tgt, att, msg, world, dev, book>>

FailCampaign(p) ==
    /\ run[p] = "failing"
    /\ camp' = [camp EXCEPT !.status = "failed", !.owner = NoOne, !.lease = "none"]
    /\ run' = [run EXCEPT ![p] = "idle"]
    /\ UNCHANGED <<tgt, att, msg, world, dev, book>>

ReleaseCampaign(p) ==
    /\ run[p] = "release"
    /\ camp' = IF camp.owner = p THEN [camp EXCEPT !.owner = NoOne, !.lease = "none"] ELSE camp
    /\ run' = [run EXCEPT ![p] = "idle"]
    /\ UNCHANGED <<tgt, att, msg, world, dev, book>>

\* The statuses PendingTargetCount counts as work still to do.
Unfinished_waiting == Waiting
Unfinished_failed == Open \cup {"failed"}
Unfinished == Open

PendingTargetCount(p) ==
    /\ run[p] = "count"
    /\ run' = [run EXCEPT ![p] = IF Tally(Unfinished) > 0 THEN "release" ELSE "finish"]
    /\ UNCHANGED <<rows, world, dev, book>>

\* The verdict FinishCampaign derives from the recipients.
Verdict_noPartial ==
    IF camp.cancel THEN "cancelled"
    ELSE IF Target = {} THEN "failed"
    ELSE IF Tally(Reached) = 0 /\ Tally({"failed"}) > 0 THEN "failed"
    ELSE "completed"

Verdict ==
    IF camp.cancel THEN "cancelled"
    ELSE IF Target = {} THEN "failed"
    ELSE IF Tally(Reached) = 0 /\ Tally({"failed"}) > 0 THEN "failed"
    ELSE IF Tally(Lost) > 0 THEN "partial"
    ELSE "completed"

\* The counters, recounted.
Recounted_success(c) == [c EXCEPT !.success = Tally(Reached)]
Recounted(c) == [c EXCEPT !.success = Tally(Reached), !.failed = Tally({"failed"})]

FinishCampaign(p) ==
    /\ run[p] = "finish"
    /\ camp' = [Recounted(camp) EXCEPT !.status = Verdict, !.owner = NoOne, !.lease = "none"]
    /\ run' = [run EXCEPT ![p] = "idle"]
    /\ UNCHANGED <<tgt, att, msg, world, dev, book>>

\* settleCancelled: whatever is not sent is cancelled, then FinishCampaign.
CancelRemainingWork(p) ==
    /\ run[p] = "cancelling"
    /\ tgt' = [t \in Target |->
                  IF tgt[t].status \in Open
                  THEN Closed(tgt[t], "cancelled", tgt[t].code)
                  ELSE tgt[t]]
    /\ run' = [run EXCEPT ![p] = "finish"]
    /\ UNCHANGED <<camp, att, msg, world, dev, book>>

-----------------------------------------------------------------------------
(* One number's goroutine: runDevice and sendOne *)

\* The top of the loop: the cancel flag, then the number's own connection.
Onward(a) == IF online[a] THEN "claim" ELSE IF AutoRetry THEN "done" ELSE "abandon"
AfterCheck_noFlag(a) == Onward(a)
AfterCheck(a) == IF camp.cancel THEN "done" ELSE Onward(a)

CheckDevice(p, a) ==
    /\ dev[p][a].pc = "running"
    /\ SetDevice(p, a, At(AfterCheck(a)))
    /\ UNCHANGED <<rows, world, run, book>>

AbandonDeviceShare(p, a) ==
    /\ dev[p][a].pc = "abandon"
    /\ tgt' = [t \in Target |->
                  IF AccountOf[t] = a /\ tgt[t].status \in Open
                  THEN Closed(tgt[t], "failed", tgt[t].code)
                  ELSE tgt[t]]
    /\ SetDevice(p, a, At("done"))
    /\ UNCHANGED <<camp, att, msg, world, run, book>>

Claimable(t, a) == AccountOf[t] = a /\ tgt[t].status \in Waiting

ClaimTarget(p, a) ==
    /\ dev[p][a].pc = "claim"
    /\ \E t \in Target :
          /\ Claimable(t, a) /\ tgt[t].attempt < MaxTries
          /\ tgt' = [tgt EXCEPT ![t] = Claimed(tgt[t])]
          /\ SetDevice(p, a, Holding(t, tgt[t].attempt + 1))
    /\ UNCHANGED <<camp, att, msg, world, run, book>>

\* Nothing left for this number; a retry may not be due yet.
NoTarget(p, a) ==
    /\ dev[p][a].pc = "claim"
    /\ \A t \in Target : Claimable(t, a) => tgt[t].status = "retry_wait"
    /\ SetDevice(p, a, At("done"))
    /\ UNCHANGED <<rows, world, run, book>>

InSlot(p, a) == dev[p][a].pc \in {"record", "send", "sending", "acked", "sent", "refused", "failed"}
SlotFree(p) == Cardinality({a \in Account : InSlot(p, a)}) < SendSlots

\* A template, variable or session error: no attempt row is written.
RenderFails(p, a) ==
    /\ dev[p][a].pc = "pace" /\ SlotFree(p)
    /\ SetDevice(p, a, Blamed(dev[p][a], "failed", "build"))
    /\ UNCHANGED <<rows, world, run, book>>

\* uq_broadcast_attempt: an existing row for this attempt reads as ErrAlreadySent
\* and the recipient is skipped as it is.
BeginAttempt(p, a) ==
    /\ dev[p][a].pc = "pace" /\ SlotFree(p)
    /\ IF att[Now(p, a)][Try(p, a)] = "none"
       THEN /\ att' = [att EXCEPT ![Now(p, a)][Try(p, a)] = "sending"]
            /\ Step(p, a, "record")
       ELSE /\ SetDevice(p, a, At("running"))
            /\ UNCHANGED att
    /\ UNCHANGED <<camp, tgt, msg, world, run, book>>

\* The message row, pending before the network call.
RecordOutgoing(p, a) ==
    /\ dev[p][a].pc = "record"
    /\ msg' = [msg EXCEPT ![Now(p, a)][Try(p, a)] = "pending"]
    /\ Step(p, a, "send")
    /\ UNCHANGED <<camp, tgt, att, world, run, book>>

\* SendCampaignMessage: refused locally without a connection.
SendCampaignMessage(p, a) ==
    /\ dev[p][a].pc = "send"
    /\ IF online[a]
       THEN /\ net' = [net EXCEPT ![Now(p, a)][Try(p, a)] = "wire"]
            /\ Step(p, a, "sending")
       ELSE /\ SetDevice(p, a, Blamed(dev[p][a], "refused", "refused"))
            /\ UNCHANGED net
    /\ UNCHANGED <<rows, rcpt, online, run, book>>

Acknowledged(p, a) ==
    /\ dev[p][a].pc = "sending" /\ net[Now(p, a)][Try(p, a)] = "accepted"
    /\ Step(p, a, "acked")
    /\ UNCHANGED <<rows, world, run, book>>

\* WhatsApp refuses the message, for now or ("final": groups only admins may
\* post to) for good.
Refused(p, a) ==
    /\ dev[p][a].pc = "sending" /\ net[Now(p, a)][Try(p, a)] = "wire"
    /\ net' = [net EXCEPT ![Now(p, a)][Try(p, a)] = "dropped"]
    /\ \E w \in {"refused", "final"} :
          SetDevice(p, a, Blamed(dev[p][a], "refused", w))
    /\ UNCHANGED <<rows, rcpt, online, run, book>>

\* The send's own deadline: the message may or may not have arrived.
SendTimedOut(p, a) ==
    /\ dev[p][a].pc = "sending"
    /\ SetDevice(p, a, Blamed(dev[p][a], "refused", "timeout"))
    /\ UNCHANGED <<rows, world, run, book>>

\* After an answer and after an error. Nothing to write when the message row
\* could not be recorded.
SetMessageOutcome(t, k, status) ==
    msg' = IF msg[t][k] = "none" THEN msg ELSE [msg EXCEPT ![t][k] = status]

MessageSent(p, a) ==
    /\ dev[p][a].pc = "acked"
    /\ SetMessageOutcome(Now(p, a), Try(p, a), "sent")
    /\ Step(p, a, "sent")
    /\ UNCHANGED <<camp, tgt, att, world, run, book>>

MessageFailed(p, a) ==
    /\ dev[p][a].pc = "refused"
    /\ SetMessageOutcome(Now(p, a), Try(p, a), "failed")
    /\ Step(p, a, "failed")
    /\ UNCHANGED <<camp, tgt, att, world, run, book>>

\* uq_broadcast_attempt_success aborts the transaction of a second success.
FinishAttemptSent(p, a) ==
    /\ dev[p][a].pc = "sent"
    /\ LET t == dev[p][a].target
           k == dev[p][a].try
       IN  IF \E j \in Tries \ {k} : att[t][j] = "sent"
           THEN UNCHANGED <<camp, tgt, att>>
           ELSE /\ att' = [att EXCEPT ![t][k] = "sent"]
                /\ tgt' = [tgt EXCEPT ![t] = SentAs(tgt[t], k, "none")]
                /\ camp' = [camp EXCEPT !.success = @ + 1]
    /\ SetDevice(p, a, At("running"))
    /\ UNCHANGED <<msg, world, run, book>>

\* failTarget retries within the campaign's budget, failTargetFinal never.
Retried_timeout(d) == d.why # "final" /\ d.try < MaxAttempts
Retried(d) == d.why \in {"build", "refused"} /\ d.try < MaxAttempts

ErrorCode_plain(d) == "other"
ErrorCode(d) == IF d.why = "timeout" THEN "unknown" ELSE "other"

FinishAttemptFailed(p, a) ==
    /\ dev[p][a].pc = "failed"
    /\ LET t == Now(p, a)
           again == Retried(dev[p][a])
       IN  /\ att' = IF dev[p][a].why = "build" THEN att
                     ELSE [att EXCEPT ![t][Try(p, a)] = "failed"]
           /\ tgt' = [tgt EXCEPT ![t] =
                        Closed(tgt[t], IF again THEN "retry_wait" ELSE "failed",
                               ErrorCode(dev[p][a]))]
           /\ camp' = IF again THEN camp ELSE [camp EXCEPT !.failed = @ + 1]
    /\ SetDevice(p, a, At("running"))
    /\ UNCHANGED <<msg, world, run, book>>

-----------------------------------------------------------------------------
(* A statement that fails: logged, nothing written, and the goroutine goes
   where its error branch takes it. *)

Spend(what) == spent' = [spent EXCEPT ![what] = @ + 1]

WorkerAfterError ==
    [s \in {"reconcile", "check", "stalled", "failing", "clear", "count",
            "release", "finish", "cancelling"} |->
        CASE s = "reconcile" -> "check"
          [] s = "check" -> "media"
          [] s = "stalled" -> "release"
          [] s = "clear" -> "count"
          [] OTHER -> "idle"]

WorkerError(p) ==
    /\ spent.lost < MaxLost
    /\ run[p] \in DOMAIN WorkerAfterError
    /\ run' = [run EXCEPT ![p] = WorkerAfterError[run[p]]]
    /\ Spend("lost")
    /\ UNCHANGED <<rows, world, dev, ui>>

\* A cancel flag that cannot be read is taken as not raised.
CancelUnread(p, a) ==
    /\ spent.lost < MaxLost
    /\ dev[p][a].pc = "running"
    /\ SetDevice(p, a, At(Onward(a)))
    /\ Spend("lost")
    /\ UNCHANGED <<rows, world, run, ui>>

DeviceAfterError ==
    [s \in {"abandon", "claim", "pace", "record", "acked", "sent", "refused", "failed"} |->
        CASE s \in {"abandon", "claim"} -> "done"
          [] s = "record" -> "send"
          [] s = "acked" -> "sent"
          [] s = "refused" -> "failed"
          [] OTHER -> "running"]

\* Only the goroutine moves on; it forgets its recipient when it is done with it.
DeviceError(p, a) ==
    /\ spent.lost < MaxLost
    /\ dev[p][a].pc \in DOMAIN DeviceAfterError
    /\ LET next == DeviceAfterError[dev[p][a].pc]
       IN  SetDevice(p, a, IF next \in {"running", "done"}
                           THEN At(next) ELSE Moved(dev[p][a], next))
    /\ Spend("lost")
    /\ UNCHANGED <<rows, world, run, ui>>

-----------------------------------------------------------------------------
(* WhatsApp, the numbers' connections, time and the processes *)

Accept(t, k) ==
    /\ net[t][k] = "wire"
    /\ net' = [net EXCEPT ![t][k] = "accepted"]
    /\ UNCHANGED <<rows, rcpt, online, run, dev, book>>

Drop(t, k) ==
    /\ net[t][k] = "wire"
    /\ net' = [net EXCEPT ![t][k] = "dropped"]
    /\ UNCHANGED <<rows, rcpt, online, run, dev, book>>

Rank == [s \in MessageStatus |->
            CASE s = "sent" -> 1 [] s = "delivered" -> 2 [] s = "read" -> 3 [] OTHER -> 0]

\* A receipt is claimed once (ClaimReceiptEvent), then applied to the campaign's
\* row and to the message's. The first needs the recipient's message id and an
\* already reached status, the second only the message row; neither goes back.
AdvancedTarget_anyOrder(t, k, r) ==
    IF tgt[t].wamid = k /\ tgt[t].status \in Reached
    THEN Advanced(tgt[t], r)
    ELSE tgt[t]

AdvancedTarget(t, k, r) ==
    IF tgt[t].wamid = k /\ tgt[t].status \in Reached /\ Rank[tgt[t].status] < Rank[r]
    THEN Advanced(tgt[t], r)
    ELSE tgt[t]

AdvanceCampaignTargets(t, k, r) ==
    /\ net[t][k] = "accepted" /\ online[AccountOf[t]]
    /\ r \in Receipts /\ rcpt[t][k][r] = "new"
    /\ rcpt' = [rcpt EXCEPT ![t][k][r] = "claimed"]
    /\ \/ /\ tgt' = [tgt EXCEPT ![t] = AdvancedTarget(t, k, r)]
          /\ UNCHANGED spent
       \/ /\ spent.lost < MaxLost /\ Spend("lost")
          /\ UNCHANGED tgt
    /\ UNCHANGED <<camp, att, msg, net, online, run, dev, ui>>

\* Nothing obliges this step: a handler that stops between the two has claimed
\* the receipt for good.
AdvanceMessageStatus(t, k, r) ==
    /\ rcpt[t][k][r] = "claimed"
    /\ rcpt' = [rcpt EXCEPT ![t][k][r] = "applied"]
    /\ msg' = IF msg[t][k] # "none" /\ Rank[msg[t][k]] < Rank[r]
              THEN [msg EXCEPT ![t][k] = r] ELSE msg
    /\ UNCHANGED <<camp, tgt, att, net, online, run, dev, book>>

GoOffline(a) ==
    /\ online[a] /\ spent.flaps < MaxFlaps
    /\ online' = [online EXCEPT ![a] = FALSE]
    /\ Spend("flaps")
    /\ UNCHANGED <<rows, net, rcpt, run, dev, ui>>

GoOnline(a) ==
    /\ ~online[a]
    /\ online' = [online EXCEPT ![a] = TRUE]
    /\ UNCHANGED <<rows, net, rcpt, run, dev, book>>

\* A recipient's lease is never renewed: ten minutes against a pause between
\* recipients of up to an hour.
ExpireTargetLease(t) ==
    /\ tgt[t].lease = "live"
    /\ tgt' = [tgt EXCEPT ![t] = Expired(tgt[t])]
    /\ UNCHANGED <<camp, att, msg, world, run, dev, book>>

\* The campaign's lease outlives a holder that no longer renews it by at most
\* its own length; a living worker loses it only when its renewals fail.
ExpireCampaignLease ==
    /\ camp.lease = "live"
    /\ IF camp.owner \in Proc /\ Working(camp.owner)
       THEN spent.outages < MaxOutages /\ Spend("outages")
       ELSE UNCHANGED spent
    /\ camp' = [camp EXCEPT !.lease = "expired"]
    /\ UNCHANGED <<tgt, att, msg, world, run, dev, ui>>

GracePeriodEnds ==
    /\ camp.stalled = "since"
    /\ camp' = [camp EXCEPT !.stalled = "over"]
    /\ UNCHANGED <<tgt, att, msg, world, run, dev, book>>

\* A crash, or Stop: the cancelled context fails every write that would follow.
Crash(p) ==
    /\ run[p] # "down" /\ spent.crashes < MaxCrashes
    /\ run' = [run EXCEPT ![p] = "down"]
    /\ dev' = [dev EXCEPT ![p] = [a \in Account |-> Idle]]
    /\ camp' = IF camp.owner = p THEN [camp EXCEPT !.owner = Dead] ELSE camp
    /\ Spend("crashes")
    /\ UNCHANGED <<tgt, att, msg, world, ui>>

Restart(p) ==
    /\ run[p] = "down"
    /\ run' = [run EXCEPT ![p] = "idle"]
    /\ UNCHANGED <<rows, world, dev, book>>

-----------------------------------------------------------------------------
(* The operators' requests *)

Request(op) ==
    /\ op \in Ops /\ spent.ops < MaxOps
    /\ Spend("ops")

\* RequestCancel settles a campaign nobody holds and flags one a worker holds;
\* recipients not yet claimed are cancelled either way.
Cancellable == camp.status \in {"draft", "scheduled", "running"}

CancelledWith_pending == {"pending"}
CancelledWith == Waiting

RequestCancel ==
    /\ camp' = [camp EXCEPT
                  !.cancel = TRUE,
                  !.status = IF @ \in {"draft", "scheduled"} \/ LeaseFree THEN "cancelled" ELSE @]
    /\ tgt' = [t \in Target |->
                  IF tgt[t].status \in CancelledWith
                  THEN Cancelled(tgt[t])
                  ELSE tgt[t]]

CancelCampaign ==
    /\ Request("cancel")
    /\ Cancellable
    /\ RequestCancel
    /\ UNCHANGED <<att, msg, world, run, dev, ui>>

\* RetryFailed, "coba ulang": no look at the campaign's status or lease.
RetryFailed ==
    /\ Request("retry")
    /\ Tally(Lost) > 0
    /\ tgt' = [t \in Target |->
                  IF tgt[t].status \in Lost
                  THEN Requeued(tgt[t])
                  ELSE tgt[t]]
    /\ camp' = [camp EXCEPT
                  !.status = "running", !.cancel = FALSE, !.owner = NoOne, !.lease = "none",
                  !.failed = IF @ > Tally(Lost) THEN @ - Tally(Lost) ELSE 0]
    /\ UNCHANGED <<att, msg, world, run, dev, ui>>

RunNow ==
    /\ Request("run")
    /\ camp.status \in {"draft", "cancelled", "failed", "partial"}
    /\ camp' = [camp EXCEPT !.status = "scheduled", !.cancel = FALSE,
                            !.owner = NoOne, !.lease = "none"]
    /\ UNCHANGED <<tgt, att, msg, world, run, dev, ui>>

\* The cancel flag of an earlier cancellation stays.
ScheduleCampaign ==
    /\ Request("schedule")
    /\ camp.status \in {"draft", "scheduled", "failed", "cancelled"}
    /\ camp' = [camp EXCEPT !.status = "scheduled"]
    /\ UNCHANGED <<tgt, att, msg, world, run, dev, ui>>

\* handleResendCampaign checks the status it read, then resets the recipients
\* and the campaign in statements of their own.
ResendChecked ==
    /\ ui = "idle" /\ Request("resend")
    /\ camp.status # "running"
    /\ ui' = "resend"
    /\ UNCHANGED <<rows, world, run, dev>>

ResetTargets ==
    /\ ui = "resend"
    /\ tgt' = [t \in Target |-> NewRecipient]
    /\ ui' = "requeue"
    /\ UNCHANGED <<camp, att, msg, world, run, dev, spent>>

ResetCampaign ==
    /\ ui = "requeue"
    /\ camp' = [camp EXCEPT !.status = "scheduled", !.cancel = FALSE, !.owner = NoOne,
                            !.lease = "none", !.success = 0, !.failed = 0]
    /\ ui' = "idle"
    /\ UNCHANGED <<tgt, att, msg, world, run, dev, spent>>

\* handleArchiveCampaign stops a campaign it read as unfinished, then hides it;
\* RequestCancel finding it settled meanwhile ends the request with an error.
ArchiveChecked ==
    /\ ui = "idle" /\ Request("archive")
    /\ ui' = IF camp.status \in {"running", "scheduled"} THEN "stop" ELSE "archive"
    /\ UNCHANGED <<rows, world, run, dev>>

ArchiveStops ==
    /\ ui = "stop"
    /\ IF Cancellable
       THEN RequestCancel /\ ui' = "archive"
       ELSE UNCHANGED <<camp, tgt>> /\ ui' = "idle"
    /\ UNCHANGED <<att, msg, world, run, dev, spent>>

ArchiveCampaign ==
    /\ ui = "archive"
    /\ camp' = [camp EXCEPT !.archived = TRUE]
    /\ ui' = "idle"
    /\ UNCHANGED <<tgt, att, msg, world, run, dev, spent>>

UnarchiveCampaign ==
    /\ Request("archive")
    /\ camp' = [camp EXCEPT !.archived = FALSE]
    /\ UNCHANGED <<tgt, att, msg, world, run, dev, ui>>

-----------------------------------------------------------------------------

WorkerStep(p) ==
    \/ ReconcileStuckTargets(p) \/ CheckCancel(p) \/ FetchMedia(p) \/ DevicesDone(p)
    \/ ClearCampaignStalled(p) \/ MarkCampaignStalled(p) \/ FailCampaign(p)
    \/ ReleaseCampaign(p) \/ PendingTargetCount(p) \/ FinishCampaign(p) \/ CancelRemainingWork(p)
    \/ \E a \in Account : LaunchDevice(p, a)

\* Everything a goroutine does but the claim, which a retry gap may hold back.
DeviceStep(p, a) ==
    \/ CheckDevice(p, a) \/ AbandonDeviceShare(p, a) \/ NoTarget(p, a)
    \/ RenderFails(p, a) \/ BeginAttempt(p, a) \/ RecordOutgoing(p, a)
    \/ SendCampaignMessage(p, a) \/ Acknowledged(p, a) \/ Refused(p, a)
    \/ SendTimedOut(p, a) \/ MessageSent(p, a) \/ MessageFailed(p, a)
    \/ FinishAttemptSent(p, a) \/ FinishAttemptFailed(p, a)

ProcessStep(p) ==
    \/ ClaimDueCampaigns(p) \/ RenewCampaignLease(p) \/ CloseOrphanedTargets(p)
    \/ WorkerStep(p) \/ WorkerError(p)
    \/ \E a \in Account : DeviceStep(p, a) \/ ClaimTarget(p, a)
                             \/ CancelUnread(p, a) \/ DeviceError(p, a)
    \/ Crash(p) \/ Restart(p)

OperatorStep ==
    \/ CancelCampaign \/ RetryFailed \/ RunNow \/ ScheduleCampaign
    \/ ResendChecked \/ ResetTargets \/ ResetCampaign
    \/ ArchiveChecked \/ ArchiveStops \/ ArchiveCampaign \/ UnarchiveCampaign

WorldStep ==
    \/ \E t \in Target, k \in Tries : Accept(t, k) \/ Drop(t, k)
    \/ \E t \in Target, k \in Tries, r \in ReceiptType :
           AdvanceCampaignTargets(t, k, r) \/ AdvanceMessageStatus(t, k, r)
    \/ \E a \in Account : GoOffline(a) \/ GoOnline(a)
    \/ \E t \in Target : ExpireTargetLease(t)
    \/ ExpireCampaignLease \/ GracePeriodEnds

Next == (\E p \in Proc : ProcessStep(p)) \/ OperatorStep \/ WorldStep

Spec == Init /\ [][Next]_vars

\* The poll ticks, running goroutines are scheduled, a stopped process is
\* restarted, time passes, an operator's HTTP request runs to its end.  A retry
\* gap is finite, so a claim that is possible again and again succeeds.
Fairness ==
    /\ \A p \in Proc :
          /\ WF_vars(ClaimDueCampaigns(p))
          /\ WF_vars(CloseOrphanedTargets(p))
          /\ WF_vars(WorkerStep(p))
          /\ WF_vars(Restart(p))
          /\ \A a \in Account : WF_vars(DeviceStep(p, a)) /\ SF_vars(ClaimTarget(p, a))
    /\ \A t \in Target : WF_vars(ExpireTargetLease(t))
    /\ WF_vars(ExpireCampaignLease)
    /\ WF_vars(GracePeriodEnds)
    /\ WF_vars(ResetTargets) /\ WF_vars(ResetCampaign)
    /\ WF_vars(ArchiveStops) /\ WF_vars(ArchiveCampaign)

FairSpec == Spec /\ Fairness

\* The numbers come back: what the wait for an offline number relies on.
NumbersReturn == \A a \in Account : WF_vars(GoOnline(a))

-----------------------------------------------------------------------------
(* Safety *)

\* The report never claims a delivery that did not happen: a recipient shown as
\* sent, delivered or read has the id of a message WhatsApp accepted, whichever
\* path wrote the row (FinishAttemptSent, ReconcileStuckTargets, a receipt).
SentWasAccepted ==
    \A t \in Target :
        tgt[t].status \in Reached =>
            /\ tgt[t].wamid \in Tries
            /\ net[t][tgt[t].wamid] = "accepted"

\* Whatever crashes, timeouts, retries and lost statements do, no recipient gets
\* the broadcast twice as long as no operator asks for a retry or a resend.
AtMostOnce ==
    \A t \in Target : \A j, k \in Tries :
        net[t][j] = "accepted" /\ net[t][k] = "accepted" => j = k

\* A recipient closed as cancelled, or as failed for a stated reason other than
\* unknown_outcome, was not reached and will not be.
ClosedWasNotReached ==
    \A t \in Target : \A k \in Tries :
        tgt[t].status = "cancelled" \/ (tgt[t].status = "failed" /\ tgt[t].code # "unknown")
            => net[t][k] \notin {"wire", "accepted"}

\* The lease keeps two processes from running the campaign at once.
OneWorker == \A p, q \in Proc : Working(p) /\ Working(q) => p = q

\* A campaign reported as completed or partial has no recipient left open and
\* its two counters are those of its recipients.
SettledAddsUp ==
    camp.status \in {"completed", "partial"} =>
        /\ Tally(Open) = 0
        /\ camp.success = Tally(Reached)
        /\ camp.failed = Tally({"failed"})

\* "completed" hides no failure: every recipient was reached.
CompletedReachedAll == camp.status = "completed" => Tally(Reached) = Cardinality(Target)

\* A cancelled campaign leaves nobody waiting.
CancelledLeavesNobodyWaiting == camp.status = "cancelled" => Tally(Waiting) = 0

\* The report and the message bubble agree on a delivered or read message.
ReportMatchesBubble ==
    \A t \in Target :
        tgt[t].status \in Reached /\ msg[t][tgt[t].wamid] \in {"delivered", "read"}
            => tgt[t].status = msg[t][tgt[t].wamid]

\* A receipt that was applied to the report is never undone there.
ReportNeverGoesBack ==
    [][\A t \in Target :
          {tgt[t].status, tgt'[t].status} \subseteq Reached
              => Rank[tgt[t].status] <= Rank[tgt'[t].status]]_vars

\* Once a cancel is requested no further recipient is taken up; the one a
\* goroutine already holds is finished.
NoClaimAfterCancel ==
    [][camp.cancel /\ camp'.cancel =>
          \A t \in Target : tgt'[t].status = "processing" => tgt[t].status = "processing"]_vars

\* A recipient a worker takes up is attempted: its attempt is one nobody made.
ClaimedIsAttempted ==
    [][\A p \in Proc, a \in Account :
          ~(dev[p][a].pc = "pace" /\ att'[Now(p, a)][Try(p, a)] # "none" /\ dev'[p][a].pc = "running")]_vars

\* A recipient skipped as ErrAlreadySent has a successful attempt.
SkippedWasSent ==
    [][\A p \in Proc, a \in Account :
          dev[p][a].pc = "pace" /\ dev'[p][a].pc = "running"
              => \E k \in Tries : att[Now(p, a)][k] = "sent"]_vars

(* Liveness *)

\* A cancelled campaign is settled, by its own worker or by the one that claims
\* it after a crash.
CancelSettles == (camp.cancel /\ camp.status = "running") ~> camp.status # "running"

\* A recipient left mid-send by a campaign that is over is closed.
OrphansAreClosed ==
    \A t \in Target :
        (camp.status \in Terminal /\ tgt[t].status = "processing")
            ~> (tgt[t].status # "processing" \/ camp.status \notin Terminal)

\* A running campaign comes to an end.
CampaignSettles == (camp.status = "running") ~> (camp.status \in Terminal)

\* A scheduled campaign is eventually taken up.
ScheduledStarts == (camp.status = "scheduled") ~> (camp.status # "scheduled")
=============================================================================
