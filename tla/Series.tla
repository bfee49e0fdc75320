------------------------------- MODULE Series -------------------------------
(***************************************************************************)
(* The life of a campaign row around its run: composing, editing,          *)
(* duplicating, cancelling, running it again, the occurrence a recurring   *)
(* campaign leaves behind, and the document it carries.                    *)
(*                                                                         *)
(* campaign   the rows of content_campaigns, in the order they were made.  *)
(*            `targets' says which kinds of recipients the row has;        *)
(*            `heard' is what reached people's phones, `from' the          *)
(*            occurrence a row was cloned from.                            *)
(* run        each process's worker: where it is and the job it claimed    *)
(* file       the private bucket                                           *)
(* resend     the request of handleResendCampaign in flight                *)
(* over       the series' end date lies before the next occurrence         *)
(* used       requests and faults so far                                   *)
(*                                                                         *)
(* How recipients are sent to is Broadcast's subject: here a worker        *)
(* reaches or loses some or all of those waiting.  A broadcast is never a  *)
(* draft, because buildCampaign refuses one without a time.                *)
(***************************************************************************)
EXTENDS Naturals, Sequences

CONSTANTS Runner, Doc, Text, None, MaxCampaigns, MaxActs

SeriesAssumption ==
    /\ None \notin Runner \cup Doc \cup Text \cup Nat
    /\ MaxCampaigns \in Nat /\ MaxActs \in Nat

VARIABLES campaign, run, file, resend, over, used

vars == <<campaign, run, file, resend, over, used>>

Id == DOMAIN campaign
Idle == [at |-> "idle", id |-> None, text |-> None, doc |-> None]

Row(text, doc, repeats, from) ==
    [status |-> "scheduled", owner |-> None, expired |-> FALSE,
     started |-> FALSE, executed |-> FALSE, cancel |-> FALSE,
     repeats |-> repeats, spawned |-> FALSE, from |-> from,
     doc |-> doc, purged |-> FALSE, text |-> text,
     targets |-> {"waiting"}, heard |-> {}]

Init ==
    /\ campaign = <<>>
    /\ run = [w \in Runner |-> Idle]
    /\ file = [d \in Doc |-> "none"]
    /\ resend = [at |-> "idle", id |-> None]
    /\ over = FALSE
    /\ used = 0

\* A request or a fault.
Act == used < MaxActs /\ used' = used + 1

LeaseFree(c) == c.owner = None \/ c.expired
Unleased(c) == [c EXCEPT !.owner = None, !.expired = FALSE]
Closed(targets, as) ==
    IF "waiting" \in targets THEN (targets \ {"waiting"}) \cup {as} ELSE targets

-----------------------------------------------------------------------------
(* The composer. *)

\* handleUploadCampaignDocument, then the form that carries its key.
Upload(d) ==
    /\ file[d] = "none"
    /\ file' = [file EXCEPT ![d] = "stored"]
    /\ UNCHANGED <<campaign, run, resend, over, used>>

\* What a form can carry besides the key that CampaignSourceFor gave back:
\* nothing, or an upload of its own.
Attachable ==
    {None} \cup {d \in Doc : file[d] = "stored" /\ \A i \in Id : campaign[i].doc # d}

SaveBroadcast(text, doc, repeats) ==
    /\ Act
    /\ Len(campaign) < MaxCampaigns
    /\ campaign' = Append(campaign, Row(text, doc, repeats, None))
    /\ UNCHANGED <<run, file, resend, over>>

Create(text, doc, repeats) == doc \in Attachable /\ SaveBroadcast(text, doc, repeats)

\* "Duplikat": the form of i, saved as a new row.
Duplicate(i, repeats) == SaveBroadcast(campaign[i].text, campaign[i].doc, repeats)

Editable(c) == ~c.started /\ ~c.executed /\ c.status = "scheduled"

UpdateBroadcast(i, text, doc, repeats) ==
    /\ Editable(campaign[i])
    /\ doc \in Attachable \cup {campaign[i].doc}
    /\ Act
    /\ campaign' = [campaign EXCEPT ![i] =
         [Unleased(@) EXCEPT !.text = text, !.doc = doc, !.repeats = repeats,
              !.cancel = FALSE, !.spawned = FALSE, !.targets = {"waiting"}]]
    /\ UNCHANGED <<run, file, resend, over>>

-----------------------------------------------------------------------------
(* Other requests on a row. *)

Change(i, row) ==
    /\ Act
    /\ campaign' = [campaign EXCEPT ![i] = row]
    /\ UNCHANGED <<run, file, resend, over>>

ScheduleCampaign(i) ==
    /\ campaign[i].status \in {"scheduled", "failed", "cancelled"}
    /\ Change(i, [campaign[i] EXCEPT !.status = "scheduled"])

RequestCancel(i) ==
    LET c == campaign[i] IN
    /\ c.status \in {"scheduled", "running"}
    /\ Change(i, [c EXCEPT !.cancel = TRUE,
                    !.status = IF @ = "scheduled" \/ LeaseFree(c) THEN "cancelled" ELSE @,
                    !.targets = Closed(@, "cancelled")])

RunNow(i) ==
    /\ campaign[i].status \in {"cancelled", "failed", "partial"}
    /\ Change(i, [Unleased(campaign[i]) EXCEPT !.status = "scheduled", !.cancel = FALSE])

RetryFailed(i) ==
    LET c == campaign[i]
        lost == {"failed", "cancelled"} IN
    /\ c.targets \cap lost # {}
    /\ Change(i, [Unleased(c) EXCEPT !.status = "running", !.cancel = FALSE,
                    !.targets = (@ \ lost) \cup {"waiting"}])

\* handleResendCampaign reads the status, then ResetTargetsForResend writes the
\* recipients and the campaign in statements of their own.
ResendCheck(i) ==
    /\ resend.at = "idle"
    /\ campaign[i].status # "running"
    /\ Act
    /\ resend' = [at |-> "checked", id |-> i]
    /\ UNCHANGED <<campaign, run, file, over>>

ResendTargets ==
    /\ resend.at = "checked"
    /\ campaign' = [campaign EXCEPT ![resend.id].targets = {"waiting"}]
    /\ resend' = [resend EXCEPT !.at = "reset"]
    /\ UNCHANGED <<run, file, over, used>>

Queued_leased(c) == [c EXCEPT !.status = "scheduled", !.started = FALSE, !.cancel = FALSE]
Queued(c) ==
    [Unleased(c) EXCEPT !.status = "scheduled", !.started = FALSE, !.cancel = FALSE]

ResendCampaign ==
    /\ resend.at = "reset"
    /\ campaign' = [campaign EXCEPT ![resend.id] = Queued(@)]
    /\ resend' = [at |-> "idle", id |-> None]
    /\ UNCHANGED <<run, file, over, used>>

-----------------------------------------------------------------------------
(* The worker. *)

Due(c) ==
    /\ c.status \in {"scheduled", "running"}
    /\ ~c.cancel \/ c.status = "running"
    /\ LeaseFree(c)

\* A claim of a campaign this process is still working on renews the lease and
\* starts nothing.
ClaimDueCampaigns(w, i) ==
    LET c == campaign[i] IN
    /\ Due(c)
    /\ run[w] = Idle \/ run[w].id = i
    /\ campaign' = [campaign EXCEPT ![i] =
         [@ EXCEPT !.status = "running", !.owner = w, !.expired = FALSE, !.started = TRUE]]
    /\ run' = IF run[w] = Idle
              THEN [run EXCEPT ![w] = [at |-> "claimed", id |-> i, text |-> c.text, doc |-> c.doc]]
              ELSE run
    /\ UNCHANGED <<file, resend, over, used>>

RenewCampaignLease(w) ==
    LET i == run[w].id IN
    /\ run[w].at \in {"claimed", "sending"}
    /\ campaign[i].owner = w /\ campaign[i].expired
    /\ campaign' = [campaign EXCEPT ![i].expired = FALSE]
    /\ UNCHANGED <<run, file, resend, over, used>>

Goes(w, at) ==
    run' = IF at = "idle" THEN [run EXCEPT ![w] = Idle] ELSE [run EXCEPT ![w].at = at]

\* The worker at this step writes the row of its campaign and moves on.
Writes(w, from, row, to) ==
    /\ run[w].at = from
    /\ campaign' = [campaign EXCEPT ![run[w].id] = row]
    /\ Goes(w, to)
    /\ UNCHANGED <<file, resend, over, used>>

Of(w) == campaign[run[w].id]

FailCampaign(c) == [Unleased(c) EXCEPT !.status = "failed"]

Outcome(c) ==
    CASE c.cancel -> "cancelled"
      [] ~c.cancel /\ "reached" \notin c.targets /\ "failed" \in c.targets -> "failed"
      [] ~c.cancel /\ c.targets = {"reached"} -> "completed"
      [] OTHER -> "partial"
FinishCampaign(c) == [Unleased(c) EXCEPT !.status = Outcome(c), !.executed = TRUE]

Readable(d) == d = None \/ file[d] = "stored"

\* settleCancelled closes whoever still waits and finishes: it neither spawns
\* nor purges.
SettleCancelled(w) ==
    /\ run[w].at = "claimed"
    /\ Of(w).cancel
    /\ Writes(w, "claimed",
              FinishCampaign([Of(w) EXCEPT !.targets = Closed(@, "cancelled")]), "idle")

\* openStoredDocument of the job, not of the row.
OpenStoredDocument(w) ==
    /\ run[w].at = "claimed"
    /\ ~Of(w).cancel
    /\ IF Readable(run[w].doc)
       THEN Writes(w, "claimed", Of(w), "sending")
       ELSE Writes(w, "claimed", FailCampaign(Of(w)), "idle")

\* A device reaches some or all of those waiting with the text of the job ...
Reach(w) ==
    /\ run[w].at = "sending"
    /\ "waiting" \in Of(w).targets
    /\ ~Of(w).cancel
    /\ \E rest \in {Of(w).targets, Of(w).targets \ {"waiting"}} :
          Writes(w, "sending", [Of(w) EXCEPT !.targets = rest \cup {"reached"},
                                             !.heard = @ \cup {run[w].text}], "sending")

\* ... or gives up on the rest of them.
Lose(w) ==
    /\ run[w].at = "sending"
    /\ "waiting" \in Of(w).targets
    /\ ~Of(w).cancel
    /\ Writes(w, "sending", [Of(w) EXCEPT !.targets = Closed(@, "failed")], "sending")

\* runBroadcast: every number offline past the grace period.
OfflineTooLong(w) ==
    /\ run[w].at = "sending"
    /\ Writes(w, "sending", FailCampaign(Of(w)), "idle")

\* Recipients are left waiting: the lease is dropped, the campaign stays running.
ReleaseCampaign(w) ==
    /\ run[w].at = "sending"
    /\ "waiting" \in Of(w).targets
    /\ Writes(w, "sending", IF Of(w).owner = w THEN Unleased(Of(w)) ELSE Of(w), "idle")

SettleBroadcast(w) ==
    /\ run[w].at = "sending"
    /\ "waiting" \notin Of(w).targets
    /\ Writes(w, "sending", FinishCampaign(Of(w)), "finished")

RecurringSeries(w) ==
    /\ run[w].at = "finished"
    /\ Writes(w, "finished", Of(w), IF Of(w).repeats /\ ~over THEN "cloning" ELSE "purging")

MayClone_again(c) == c.repeats
MayClone(c) == c.repeats /\ ~c.spawned

\* When no row is marked another worker was first: that counts as spawned.  The
\* bound on rows holds the worker up here.
CloneCampaignForNextRun(w) ==
    LET c == Of(w) IN
    /\ run[w].at = "cloning"
    /\ IF MayClone(c)
       THEN /\ Len(campaign) < MaxCampaigns
            /\ campaign' = Append([campaign EXCEPT ![run[w].id].spawned = TRUE],
                                  Row(c.text, c.doc, c.repeats, run[w].id))
       ELSE UNCHANGED campaign
    /\ Goes(w, "idle")
    /\ UNCHANGED <<file, resend, over, used>>

\* An error while the series is read or cloned counts as no successor.
CloneFails(w) ==
    /\ run[w].at \in {"finished", "cloning"}
    /\ Act
    /\ Goes(w, "purging")
    /\ UNCHANGED <<campaign, file, resend, over>>

\* The key of the job is removed, then the row is marked.
PurgeDocument(w) ==
    LET d == run[w].doc IN
    /\ run[w].at = "purging"
    /\ file' = IF d = None THEN file ELSE [file EXCEPT ![d] = "removed"]
    /\ campaign' = [campaign EXCEPT ![run[w].id].purged = (d # None)]
    /\ Goes(w, "idle")
    /\ UNCHANGED <<resend, over, used>>

Crash(w) ==
    /\ run[w] # Idle
    /\ Act
    /\ Goes(w, "idle")
    /\ UNCHANGED <<campaign, file, resend, over>>

\* Nobody renewed in time: the worker is gone, or the database was away.
LeaseExpires(i) ==
    /\ campaign[i].owner # None /\ ~campaign[i].expired
    /\ IF run[campaign[i].owner].id = i THEN Act ELSE UNCHANGED used
    /\ campaign' = [campaign EXCEPT ![i].expired = TRUE]
    /\ UNCHANGED <<run, file, resend, over>>

SeriesEnds ==
    /\ ~over
    /\ over' = TRUE
    /\ UNCHANGED <<campaign, run, file, resend, used>>

-----------------------------------------------------------------------------
WorkerStep(w) ==
    \/ RenewCampaignLease(w) \/ SettleCancelled(w) \/ OpenStoredDocument(w)
    \/ Reach(w) \/ Lose(w)
    \/ OfflineTooLong(w) \/ ReleaseCampaign(w) \/ SettleBroadcast(w)
    \/ RecurringSeries(w) \/ CloneCampaignForNextRun(w) \/ PurgeDocument(w)

OperatorStep ==
    \/ \E d \in Doc : Upload(d)
    \/ \E t \in Text, d \in Doc \cup {None}, r \in BOOLEAN : Create(t, d, r)
    \/ \E i \in Id, r \in BOOLEAN : Duplicate(i, r)
    \/ \E i \in Id, t \in Text, d \in Doc \cup {None}, r \in BOOLEAN : UpdateBroadcast(i, t, d, r)
    \/ \E i \in Id : \/ ScheduleCampaign(i) \/ RequestCancel(i) \/ RunNow(i)
                     \/ RetryFailed(i) \/ ResendCheck(i)
    \/ ResendTargets \/ ResendCampaign

Next ==
    \/ OperatorStep
    \/ \E w \in Runner : WorkerStep(w) \/ Crash(w) \/ CloneFails(w)
                            \/ \E i \in Id : ClaimDueCampaigns(w, i)
    \/ \E i \in Id : LeaseExpires(i)
    \/ SeriesEnds

Spec == Init /\ [][Next]_vars

-----------------------------------------------------------------------------
(* An occurrence leaves at most one successor behind, whoever finishes it  *)
(* and however often it is run again (CloneCampaignForNextRun).            *)
OneSuccessor ==
    \A i, j \in Id : campaign[i].from = campaign[j].from /\ campaign[i].from # None => i = j

(* A campaign a worker holds cannot be edited: the row that says which     *)
(* text was sent does not change under the worker's hands.                 *)
LeasedIsNotEditable == \A i \in Id : campaign[i].owner # None => ~Editable(campaign[i])

(* "What it said is what people received": a campaign that reached         *)
(* somebody still says what they were sent (ErrCampaignStarted).           *)
WhatWentOutStays == \A i \in Id : campaign[i].heard \subseteq {campaign[i].text}

(* "A recurring broadcast keeps its attachment for the life of the series" *)
(* (settleBroadcast).                                                      *)
SeriesKeepsItsDocument ==
    \A i \in Id :
        campaign[i].from # None /\ campaign[i].status = "scheduled" /\ campaign[i].doc # None
            => Readable(campaign[i].doc)
=============================================================================
