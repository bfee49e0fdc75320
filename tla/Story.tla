------------------------------- MODULE Story -------------------------------
(***************************************************************************)
(* One WA Story campaign: a publication row for each sending number, the   *)
(* worker that posts them, the phone that shows and takes down what was    *)
(* posted, the receipts of its viewers, and the sweep that expires it.     *)
(*   internal/repository/story.go, internal/campaign/runner.go (runStory   *)
(*   to recordOwnStory, settleCancelled, expiryLoop), wa/campaign.go       *)
(*                                                                         *)
(* Every database statement or transaction and every push is a step. One   *)
(* process runs at a time and renews its lease on the campaign while it    *)
(* lives; it may crash or be stopped between any two steps. Statements do  *)
(* not fail of themselves. Statuses posted from the phone are left out.    *)
(***************************************************************************)
EXTENDS Integers, FiniteSets, FiniteSetsExt

CONSTANTS
    Account,        \* the numbers the campaign publishes on
    Viewer,         \* people who watch and send read receipts
    MaxAttempts,    \* content_campaigns.max_attempts
    Batch,          \* rows claimed at a time: 4 in runStory
    Slots,          \* CampaignStoryConcurrency
    MaxEvents       \* bound on requests, take-downs, and crashes and stops of the process

StoryAssumption ==
    /\ MaxAttempts \in Nat \ {0} /\ Batch \in Nat \ {0} /\ Slots \in Nat \ {0}
    /\ MaxEvents \in Nat

VARIABLES
    camp,       \* the campaign's row
    pub,        \* story_publications
    msg,        \* our copy of each posted status (messages)
    run,        \* the worker: where runStory stands
    stopping,   \* the runner's context is cancelled
    job,        \* publishStory, one goroutine for each claimed number
    minted,     \* message ids made so far on each number
    shown,      \* the ids each number's followers were ever shown
    takenDown,  \* what the poster deleted again
    views,      \* story_views
    frozen,     \* story_view_snapshots, the final ones
    counted,    \* every view ever accepted for a publication
    spent       \* requests, take-downs and stops so far

rows == <<camp, pub, msg>>
worker == <<run, stopping, job>>
phone == <<minted, shown, takenDown>>
tally == <<views, frozen, counted>>
vars == <<rows, worker, phone, tally, spent>>

NoId == 0
NoRow == [status |-> "none", attempt |-> 0, id |-> NoId, lease |-> "none",
          due |-> TRUE, ends |-> "never"]
NoMessage == [id |-> NoId, ends |-> "never"]
NoJob == [at |-> "none", id |-> NoId]

Init ==
    /\ camp = [status |-> "scheduled", cancel |-> FALSE, lease |-> "none"]
    /\ pub = [a \in Account |-> NoRow]
    /\ msg = [a \in Account |-> NoMessage]
    /\ run = "idle" /\ stopping = FALSE
    /\ job = [a \in Account |-> NoJob]
    /\ minted = [a \in Account |-> 0]
    /\ shown = {} /\ takenDown = {}
    /\ views = {} /\ frozen = {} /\ counted = {}
    /\ spent = 0

-----------------------------------------------------------------------------
(* The rows of the queue. An update of a deleted row changes nothing. *)

Update(a, new) == pub' = IF pub[a].status = "none" THEN pub ELSE [pub EXCEPT ![a] = new]

\* ClaimStoryPublications takes a row that waits, and one whose worker is gone.
Claimable_pending(r) == r.status = "pending" /\ r.due
Claimable(r) == r.status \in {"pending", "processing"} /\ r.due /\ r.lease # "live"
Claimed(r) == [r EXCEPT !.status = "processing", !.lease = "live", !.attempt = @ + 1]

Published(r, id) ==
    [r EXCEPT !.status = "published", !.id = id, !.ends = "ahead", !.lease = "none", !.due = TRUE]

\* MarkStoryFailed: another attempt after the gap, or none left.
Failed(r) ==
    IF r.attempt < MaxAttempts
    THEN [r EXCEPT !.status = "pending", !.due = FALSE, !.lease = "none"]
    ELSE [r EXCEPT !.status = "failed", !.lease = "none"]

Cancelled(r) == [r EXCEPT !.status = "cancelled", !.due = TRUE]

\* Both CancelRemainingWork and RequestCancel close what is still open.
CloseOpen == [a \in Account |->
    IF pub[a].status \in {"pending", "processing"} THEN Cancelled(pub[a]) ELSE pub[a]]

\* FinishStoryCampaign: the verdict on the numbers as they now stand.
Count(status) == Cardinality({a \in Account : pub[a].status = status})
Verdict ==
    IF camp.cancel THEN "cancelled"
    ELSE IF Count("published") = 0 THEN "failed"
    ELSE IF Count("failed") + Count("cancelled") > 0 THEN "partial"
    ELSE "completed"

SetCamp(status) ==
    camp' = IF camp.status = "gone" THEN camp
            ELSE [camp EXCEPT !.status = status, !.lease = "none"]

-----------------------------------------------------------------------------
(* The worker: run, runStory, settleCancelled *)

ClaimCampaign ==
    /\ run = "idle" /\ ~stopping
    /\ camp.status \in {"scheduled", "running"}
    /\ camp.cancel => camp.status = "running"
    /\ camp.lease # "live"
    /\ camp' = [camp EXCEPT !.status = "running", !.lease = "live"]
    /\ run' = "started"
    /\ UNCHANGED <<pub, msg, stopping, job, phone, tally, spent>>

\* The cancel flag is read once before anything is prepared.
Start ==
    /\ run = "started" /\ ~stopping
    /\ run' = IF camp.status # "gone" /\ camp.cancel THEN "cancelling" ELSE "seed"
    /\ UNCHANGED <<rows, stopping, job, phone, tally, spent>>

CancelRemaining ==
    /\ run = "cancelling" /\ ~stopping
    /\ pub' = CloseOpen
    /\ run' = "finish"
    /\ UNCHANGED <<camp, msg, stopping, job, phone, tally, spent>>

\* The media cannot be fetched or its file read: run gives the campaign up.
MediaFails ==
    /\ run = "seed" /\ ~stopping
    /\ SetCamp("failed")
    /\ run' = "idle"
    /\ UNCHANGED <<pub, msg, stopping, job, phone, tally, spent>>

\* One insert for each number, on conflict do nothing.
Seed ==
    /\ run = "seed" /\ ~stopping
    /\ camp.status # "gone"
    /\ \E a \in Account :
           /\ pub[a].status = "none"
           /\ pub' = [pub EXCEPT ![a] = [NoRow EXCEPT !.status = "pending"]]
           /\ run' = IF \A b \in Account \ {a} : pub[b].status # "none" THEN "loop" ELSE "seed"
    /\ UNCHANGED <<camp, msg, stopping, job, phone, tally, spent>>

SeededBefore ==
    /\ run = "seed" /\ ~stopping
    /\ camp.status # "gone" => \A a \in Account : pub[a].status # "none"
    /\ run' = IF camp.status = "gone" THEN "idle" ELSE "loop"
    /\ UNCHANGED <<rows, stopping, job, phone, tally, spent>>

CancelSeen ==
    /\ run = "loop" /\ ~stopping
    /\ camp.status # "gone" /\ camp.cancel
    /\ run' = "count"
    /\ UNCHANGED <<rows, stopping, job, phone, tally, spent>>

\* The flag was read before this statement and may have been raised since.
ClaimPublications ==
    /\ run = "loop" /\ ~stopping
    /\ LET open == {a \in Account : Claimable(pub[a])}
           n == IF Cardinality(open) < Batch THEN Cardinality(open) ELSE Batch
       IN \E S \in kSubset(n, open) :
              /\ pub' = [a \in Account |-> IF a \in S THEN Claimed(pub[a]) ELSE pub[a]]
              /\ job' = [a \in Account |->
                            IF a \in S THEN [at |-> "claimed", id |-> pub[a].id] ELSE NoJob]
              /\ run' = IF S = {} THEN "count" ELSE "batch"
    /\ UNCHANGED <<camp, msg, stopping, phone, tally, spent>>

BatchEnds ==
    /\ run = "batch"
    /\ \A a \in Account : job[a].at = "none"
    /\ run' = "loop"
    /\ UNCHANGED <<rows, stopping, job, phone, tally, spent>>

\* PendingPublicationCount: something is left for a later run, or nothing is.
CountPending ==
    /\ run = "count" /\ ~stopping
    /\ IF Count("pending") + Count("processing") > 0
       THEN /\ camp' = [camp EXCEPT !.lease = "none"]
            /\ run' = "idle"
       ELSE /\ run' = "finish"
            /\ UNCHANGED camp
    /\ UNCHANGED <<pub, msg, stopping, job, phone, tally, spent>>

Finish ==
    /\ run = "finish" /\ ~stopping
    /\ SetCamp(Verdict)
    /\ run' = "idle"
    /\ UNCHANGED <<pub, msg, stopping, job, phone, tally, spent>>

-----------------------------------------------------------------------------
(* publishStory, on one number *)

SetJob(a, at, id) == job' = [job EXCEPT ![a] = [at |-> at, id |-> id]]
Busy == {a \in Account : job[a].at \in {"push", "ok", "note", "error"}}

\* Offline, or the media or the message cannot be made.
Refuse(a) ==
    /\ job[a].at = "claimed" /\ ~stopping
    /\ Update(a, Failed(pub[a]))
    /\ SetJob(a, "none", NoId)
    /\ UNCHANGED <<camp, msg, run, stopping, phone, tally, spent>>

\* A retry reuses the id of the attempt before it; only a first attempt mints
\* one, and writes it down before it is used (StartStoryPublication).
IdFor_fresh(a) == minted[a] + 1
IdFor(a) == IF job[a].id # NoId THEN job[a].id ELSE minted[a] + 1
Prepare(a) ==
    /\ job[a].at = "claimed" /\ ~stopping
    /\ Cardinality(Busy) < Slots
    /\ LET id == IdFor(a)
       IN /\ minted' = [minted EXCEPT ![a] = IF id > @ THEN id ELSE @]
          /\ Update(a, [pub[a] EXCEPT !.id = id])
          /\ SetJob(a, "push", id)
    /\ UNCHANGED <<camp, msg, run, stopping, shown, takenDown, tally, spent>>

PushLands(a) ==
    /\ job[a].at = "push"
    /\ <<a, job[a].id>> \notin shown
    /\ shown' = shown \cup {<<a, job[a].id>>}
    /\ UNCHANGED <<rows, worker, minted, takenDown, tally, spent>>

PushAnswered(a) ==
    /\ job[a].at = "push"
    /\ <<a, job[a].id>> \in shown
    /\ SetJob(a, "ok", job[a].id)
    /\ UNCHANGED <<rows, run, stopping, phone, tally, spent>>

\* Refused, timed out, or the context cancelled: it may have landed all the same.
PushFails(a) ==
    /\ job[a].at = "push"
    /\ SetJob(a, "error", job[a].id)
    /\ UNCHANGED <<rows, run, stopping, phone, tally, spent>>

\* The outcome is written on a context of its own, so a stop does not lose it.
MarkPublished(a) ==
    /\ job[a].at = "ok"
    /\ Update(a, Published(pub[a], job[a].id))
    /\ SetJob(a, "note", job[a].id)
    /\ UNCHANGED <<camp, msg, run, stopping, phone, tally, spent>>

MarkFailed(a) ==
    /\ job[a].at = "error"
    /\ Update(a, Failed(pub[a]))
    /\ SetJob(a, "none", NoId)
    /\ UNCHANGED <<camp, msg, run, stopping, phone, tally, spent>>

RecordOwnStory(a) ==
    /\ job[a].at = "note"
    /\ msg' = IF msg[a].id = job[a].id THEN msg
              ELSE [msg EXCEPT ![a] = [id |-> job[a].id, ends |-> "ahead"]]
    /\ SetJob(a, "none", NoId)
    /\ UNCHANGED <<camp, pub, run, stopping, phone, tally, spent>>

\* The runner stops before this number's turn: its row is left to its lease, or
\* closed as an attempt that failed, on the outcome's own context.
GivenUp(a) ==
    /\ stopping /\ job[a].at = "claimed"
    /\ \/ UNCHANGED pub
       \/ Update(a, Failed(pub[a]))
    /\ SetJob(a, "none", NoId)
    /\ UNCHANGED <<camp, msg, run, stopping, phone, tally, spent>>

-----------------------------------------------------------------------------
(* The process, and time *)

Spend == spent < MaxEvents /\ spent' = spent + 1

\* Stop cancels the context and waits for what is in hand.
Stop ==
    /\ Spend
    /\ ~stopping /\ run # "idle"
    /\ stopping' = TRUE
    /\ UNCHANGED <<rows, run, job, phone, tally>>

Stopped ==
    /\ stopping /\ run # "batch"
    /\ run' = "idle" /\ stopping' = FALSE
    /\ UNCHANGED <<rows, job, phone, tally, spent>>

Crash ==
    /\ Spend
    /\ run # "idle"
    /\ run' = "idle" /\ stopping' = FALSE
    /\ job' = [a \in Account |-> NoJob]
    /\ UNCHANGED <<rows, phone, tally>>

\* A lease nobody renews runs out, which is the same as none. That of a row its
\* worker still has may run out too; nobody else looks at it meanwhile.
CampaignLeaseEnds ==
    /\ camp.lease = "live" /\ run = "idle"
    /\ camp' = [camp EXCEPT !.lease = "none"]
    /\ UNCHANGED <<pub, msg, worker, phone, tally, spent>>

LeaseEnds(a) ==
    /\ pub[a].lease = "live" /\ job[a].at = "none"
    /\ pub' = [pub EXCEPT ![a].lease = "none"]
    /\ UNCHANGED <<camp, msg, worker, phone, tally, spent>>

GapPasses(a) ==
    /\ ~pub[a].due
    /\ pub' = [pub EXCEPT ![a].due = TRUE]
    /\ UNCHANGED <<camp, msg, worker, phone, tally, spent>>

\* The clock of one status: a day after it was posted, or once it is taken
\* down, it is "over"; an hour later it is "closed".
Later(ends, hour) ==
    CASE ends = "over" /\ hour -> "closed"
      [] ends = "ahead" /\ ~hour -> "over"
      [] OTHER -> ends

TimePasses(a) ==
    \E hour \in BOOLEAN :
        /\ pub' = [pub EXCEPT ![a].ends = Later(@, hour)]
        /\ msg' = [msg EXCEPT ![a].ends = Later(@, hour)]
        /\ <<pub, msg>>' # <<pub, msg>>
        /\ UNCHANGED <<camp, worker, phone, tally, spent>>

-----------------------------------------------------------------------------
(* Operators: RequestCancel, RunNow, DeleteCampaign *)

\* A campaign no worker holds is closed at once; a held one is left to its worker.
RequestCancel ==
    /\ Spend
    /\ camp.status \in {"scheduled", "running"}
    /\ camp' = [camp EXCEPT !.cancel = TRUE,
                            !.status = IF @ = "scheduled" \/ camp.lease # "live"
                                       THEN "cancelled" ELSE @]
    /\ pub' = CloseOpen
    /\ UNCHANGED <<msg, worker, phone, tally>>

RunNow ==
    /\ Spend
    /\ camp.status \in {"cancelled", "failed", "partial"}
    /\ camp' = [status |-> "scheduled", cancel |-> FALSE, lease |-> "none"]
    /\ UNCHANGED <<pub, msg, worker, phone, tally>>

\* A Story may be deleted in any state; its rows, views and figures go with it.
\* The handler cancels a running one first, in a transaction of its own.
Delete ==
    /\ Spend
    /\ camp.status \notin {"gone", "running"} \/ camp.cancel
    /\ LET own == {<<a, pub[a].id>> : a \in Account}
       IN /\ views' = {w \in views : <<w[1], w[2]>> \notin own}
          /\ frozen' = {s \in frozen : <<s[1], s[2]>> \notin own}
    /\ camp' = [status |-> "gone", cancel |-> FALSE, lease |-> "none"]
    /\ pub' = [a \in Account |-> NoRow]
    /\ UNCHANGED <<msg, worker, phone, counted>>

-----------------------------------------------------------------------------
(* The phone, its viewers, and the sweep *)

Posted(a, id) == <<a, id>> \in shown

TakeDown(a, id) ==
    /\ Spend
    /\ Posted(a, id) /\ <<a, id>> \notin takenDown
    /\ takenDown' = takenDown \cup {<<a, id>>}
    /\ UNCHANGED <<rows, worker, minted, shown, tally>>

\* The revoke reaches us: RevokeMessage, then RevokeStoryPublication. Both act
\* only on what is still up, so a repeated or a late one changes nothing more.
RevokeArrives(a, id) ==
    /\ <<a, id>> \in takenDown
    /\ msg' = IF msg[a] = [id |-> id, ends |-> "ahead"]
              THEN [msg EXCEPT ![a].ends = "over"] ELSE msg
    /\ pub' = IF pub[a].id = id /\ pub[a].status \in {"published", "processing"}
              THEN [pub EXCEPT ![a] = [@ EXCEPT !.status = "deleted", !.ends = "over",
                                                !.lease = "none", !.due = TRUE]]
              ELSE pub
    /\ UNCHANGED <<camp, worker, phone, tally, spent>>

\* What is kept about one status: its viewers, or its final figure.
On(S, k) == {w \in S : <<w[1], w[2]>> = k}
Figures(k) == On(frozen, k)

\* A receipt says when the viewer watched: inside the life of the status, or
\* after it. It may come late, and it may come again.
Ours(a, id, inside) ==
    \/ pub[a].id = id /\ (inside \/ pub[a].ends \in {"never", "ahead"})
    \/ msg[a].id = id /\ (inside \/ msg[a].ends = "ahead")
Accepts_frozen(a, id, inside) == Ours(a, id, inside)
Accepts(a, id, inside) == Ours(a, id, inside) /\ Figures(<<a, id>>) = {}
RecordStoryView(a, id, v, inside) ==
    /\ Posted(a, id)
    /\ inside \/ <<a, id>> \in takenDown \/ msg[a].ends \in {"over", "closed"}
              \/ pub[a].ends \in {"over", "closed"}
    /\ Accepts(a, id, inside)
    /\ views' = views \cup {<<a, id, v>>}
    /\ counted' = counted \cup {<<a, id, v>>}
    /\ UNCHANGED <<rows, worker, phone, frozen, spent>>

\* ExpireStories, one transaction: freeze the figures of what closed an hour
\* ago, mark what is over, and drop the viewers whose figure is frozen.
Closing ==
    {<<a, pub[a].id>> : a \in {b \in Account :
        /\ pub[b].status \in {"published", "expired", "deleted"}
        /\ pub[b].id # NoId /\ pub[b].ends = "closed"}}
    \cup {<<a, msg[a].id>> : a \in {b \in Account :
        msg[b].id # pub[b].id /\ msg[b].ends = "closed"}}
Swept(r) ==
    IF r.status = "published" /\ r.ends \in {"over", "closed"}
    THEN [r EXCEPT !.status = "expired"] ELSE r
ExpireStories ==
    /\ LET new == {k \in Closing : Figures(k) = {}}
       IN frozen' = frozen \cup {<<k[1], k[2], Cardinality(On(views, k))>> : k \in new}
    /\ pub' = [a \in Account |-> Swept(pub[a])]
    /\ camp' = IF /\ camp.status \in {"completed", "partial"}
                  /\ \A a \in Account : pub'[a].status \in {"none", "expired"}
                  /\ \E a \in Account : pub'[a].status = "expired"
               THEN [camp EXCEPT !.status = "expired"] ELSE camp
    /\ views' = {w \in views : ~\E s \in frozen' : <<s[1], s[2]>> = <<w[1], w[2]>>}
    /\ <<frozen, pub, camp, views>>' # <<frozen, pub, camp, views>>
    /\ UNCHANGED <<msg, worker, phone, counted, spent>>

-----------------------------------------------------------------------------
RunStep ==
    \/ Start \/ CancelRemaining \/ Seed \/ SeededBefore \/ CancelSeen
    \/ ClaimPublications \/ BatchEnds \/ CountPending \/ Finish \/ Stopped
JobStep(a) ==
    \/ Refuse(a) \/ Prepare(a) \/ PushAnswered(a) \/ PushFails(a) \/ MarkPublished(a)
    \/ MarkFailed(a) \/ RecordOwnStory(a) \/ GivenUp(a)

Next ==
    \/ ClaimCampaign \/ RunStep \/ MediaFails \/ Stop \/ Crash \/ CampaignLeaseEnds
    \/ RequestCancel \/ RunNow \/ Delete \/ ExpireStories
    \/ \E a \in Account :
           \/ JobStep(a) \/ PushLands(a) \/ LeaseEnds(a) \/ GapPasses(a) \/ TimePasses(a)
           \/ \E id \in 1..minted[a] :
                  \/ TakeDown(a, id) \/ RevokeArrives(a, id)
                  \/ \E v \in Viewer, inside \in BOOLEAN : RecordStoryView(a, id, v, inside)

Spec == Init /\ [][Next]_vars

\* The scheduler ticks, a worker goes on, a push is given up at its timeout,
\* leases run out and retry gaps pass.
FairSpec ==
    /\ Spec
    /\ WF_vars(ClaimCampaign) /\ WF_vars(RunStep) /\ WF_vars(CampaignLeaseEnds)
    /\ \A a \in Account :
           WF_vars(JobStep(a)) /\ WF_vars(LeaseEnds(a)) /\ WF_vars(GapPasses(a))

-----------------------------------------------------------------------------
(* Properties *)

\* The followers of one number are never shown the same Story twice: whatever
\* retry, crash or stop comes between the push and its outcome, every push of a
\* publication carries one message id (runner.go, publishStory; story.go,
\* StartStoryPublication).
OneStoryPerNumber == \A a \in Account : Cardinality({k \in shown : k[1] = a}) <= 1

\* The report counts every view ever accepted of each number's Story exactly
\* once, and so their sum, while the viewers are still stored and after the
\* sweep has frozen their number and dropped them; and it names a number of
\* different people only when it knows it (story.go, StoryViewTotals,
\* ExpireStories).
Keys == {<<a, pub[a].id>> : a \in Account}
FigureOf(k) ==
    IF Figures(k) # {} THEN {s[3] : s \in Figures(k)} ELSE {Cardinality(On(views, k))}
UniqueKnown == \A k \in Keys : Figures(k) = {}
People(S) == {w[3] : w \in {v \in S : <<v[1], v[2]>> \in Keys}}
ReportAddsUp ==
    camp.status # "gone" =>
        /\ \A k \in Keys : FigureOf(k) = {Cardinality(On(counted, k))}
        /\ UniqueKnown => People(views) = People(counted)

Unsettled == camp.status \in {"scheduled", "running"}

\* A Story due to go out settles: it completes, fails or is cancelled, whatever
\* the worker that held it left behind (runner.go, runStory, settleCancelled).
StorySettles == Unsettled ~> ~Unsettled

\* What the poster took down stays down in the report once the deletion is
\* recorded, "and then it was taken down - and the report should say which of
\* those happened" (story.go, RevokeStoryPublication).
TakenDownStaysDown ==
    [][\A a \in Account : pub[a].status = "deleted" => pub'[a].status \in {"deleted", "none"}]_vars
=============================================================================
