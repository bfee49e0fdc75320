---------------------------- MODULE Series_proofs ----------------------------
(***************************************************************************)
(* For any number of workers, documents, texts, rows and requests: a       *)
(* series does not fork.                                                   *)
(***************************************************************************)
EXTENDS Series, TLAPS

Camp ==
    [status : {"scheduled", "running", "cancelled", "failed", "completed", "partial"},
     owner : Runner \cup {None}, expired : BOOLEAN, started : BOOLEAN,
     executed : BOOLEAN, cancel : BOOLEAN, repeats : BOOLEAN, spawned : BOOLEAN,
     from : Nat \cup {None}, doc : Doc \cup {None}, purged : BOOLEAN, text : Text,
     targets : SUBSET {"waiting", "reached", "failed", "cancelled"},
     heard : SUBSET (Text \cup {None})]

Job ==
    [at : {"idle", "claimed", "sending", "finished", "cloning", "purging"},
     id : Nat \cup {None}, text : Text \cup {None}, doc : Doc \cup {None}]

TypeOK ==
    /\ campaign \in Seq(Camp)
    /\ run \in [Runner -> Job]
    /\ resend \in [at : {"idle", "checked", "reset"}, id : Nat \cup {None}]

(* What a worker or a request is about is there: no row is ever taken out. *)
Pointers ==
    /\ \A w \in Runner : run[w].at # "idle" => run[w].id \in Id
    /\ resend.at # "idle" => resend.id \in Id

(* The successor is made after the verdict, and the verdict stays: an edit, *)
(* which would clear the mark of the successor, is no longer accepted.      *)
VerdictFirst ==
    \A w \in Runner : run[w].at \in {"finished", "cloning"} => campaign[run[w].id].executed

ParentIsMarked ==
    \A j \in Id : LET i == campaign[j].from IN
        i # None => i \in Id /\ campaign[i].spawned /\ campaign[i].executed

SeriesInv == TypeOK /\ Pointers /\ VerdictFirst /\ ParentIsMarked /\ OneSuccessor

-----------------------------------------------------------------------------
(* What a step may do to the row of a campaign. *)

Keeps(c, d) ==
    /\ d \in Camp /\ d.from = c.from
    /\ c.executed => d.executed
    /\ c.executed /\ c.spawned => d.spawned

Rewrites(i, d) ==
    /\ i \in Id /\ Keeps(campaign[i], d)
    /\ campaign' = [campaign EXCEPT ![i] = d]

Adds(d) == d \in Camp /\ campaign' = Append(campaign, d)

LEMMA RowType ==
  ASSUME NEW t \in Text, NEW d \in Doc \cup {None}, NEW r \in BOOLEAN, NEW i \in Nat \cup {None}
  PROVE  Row(t, d, r, i) \in Camp /\ Row(t, d, r, i).from = i
BY DEF Row, Camp

LEMMA RowOf == ASSUME TypeOK, NEW i \in Id PROVE campaign[i] \in Camp /\ i \in Nat
BY DEF TypeOK, Id

(* A row that is rewritten keeps the tables' invariants. *)
LEMMA RewriteKeeps ==
  ASSUME SeriesInv, NEW i \in Id, NEW d, Rewrites(i, d)
  PROVE  /\ campaign' \in Seq(Camp) /\ Id' = Id
         /\ \A j \in Id : campaign[j].executed => campaign'[j].executed
         /\ ParentIsMarked' /\ OneSuccessor'
<1>1. campaign' \in Seq(Camp) /\ Id' = Id
  BY DEF SeriesInv, TypeOK, Rewrites, Keeps, Id
<1>2. \A j \in Id : /\ campaign'[j].from = campaign[j].from
                    /\ campaign[j].executed => campaign'[j].executed
                    /\ campaign[j].executed /\ campaign[j].spawned => campaign'[j].spawned
  BY DEF SeriesInv, TypeOK, Rewrites, Keeps, Id
<1>3. ParentIsMarked'
  BY <1>1, <1>2 DEF SeriesInv, ParentIsMarked
<1>4. OneSuccessor'
  BY <1>1, <1>2 DEF SeriesInv, OneSuccessor
<1> QED BY <1>1, <1>2, <1>3, <1>4

(* A row without a parent does too. *)
LEMMA AddKeeps ==
  ASSUME SeriesInv, NEW d, Adds(d), d.from = None
  PROVE  /\ campaign' \in Seq(Camp) /\ Id \subseteq Id'
         /\ \A j \in Id : campaign'[j] = campaign[j]
         /\ ParentIsMarked' /\ OneSuccessor'
<1>1. campaign' \in Seq(Camp) /\ Id' = Id \cup {Len(campaign) + 1} /\ Len(campaign) + 1 \notin Id
  BY DEF SeriesInv, TypeOK, Adds, Id
<1>2. (\A j \in Id : campaign'[j] = campaign[j]) /\ campaign'[Len(campaign) + 1] = d
  BY DEF SeriesInv, TypeOK, Adds, Id
<1>3. ParentIsMarked'
  BY <1>1, <1>2 DEF SeriesInv, ParentIsMarked
<1>4. OneSuccessor'
  BY <1>1, <1>2 DEF SeriesInv, OneSuccessor
<1> QED BY <1>1, <1>2, <1>3, <1>4

(* The other two conjuncts follow when nobody starts or ends anything. *)
LEMMA WorkersKept ==
  ASSUME SeriesInv, UNCHANGED run, UNCHANGED resend, Id \subseteq Id',
         \A j \in Id : campaign[j].executed => campaign'[j].executed
  PROVE  (Pointers /\ VerdictFirst)'
<1>1. \A w \in Runner : run'[w] = run[w]
  OBVIOUS
<1>2. Pointers'
  BY <1>1 DEF SeriesInv, Pointers
<1>3. VerdictFirst'
  <2> SUFFICES ASSUME NEW w \in Runner, run[w].at \in {"finished", "cloning"}
               PROVE  campaign'[run[w].id].executed
    BY <1>1 DEF VerdictFirst
  <2>1. run[w].id \in Id /\ campaign[run[w].id].executed
    BY DEF SeriesInv, Pointers, VerdictFirst
  <2> QED BY <2>1
<1> QED BY <1>2, <1>3

-----------------------------------------------------------------------------
(* One lemma for each way to write a row *)

LEMMA AddStep ==
  ASSUME SeriesInv, NEW d, Adds(d), d.from = None, UNCHANGED <<run, resend>>
  PROVE  SeriesInv'
<1>1. /\ campaign' \in Seq(Camp) /\ Id \subseteq Id'
      /\ \A j \in Id : campaign'[j] = campaign[j]
      /\ ParentIsMarked' /\ OneSuccessor'
  BY AddKeeps
<1>2. (Pointers /\ VerdictFirst)'
  BY <1>1, WorkersKept
<1> QED BY <1>1, <1>2 DEF SeriesInv, TypeOK

LEMMA RewriteStep ==
  ASSUME SeriesInv, NEW i \in Id, NEW d, Rewrites(i, d), UNCHANGED <<run, resend>>
  PROVE  SeriesInv'
<1>1. /\ campaign' \in Seq(Camp) /\ Id' = Id
      /\ \A j \in Id : campaign[j].executed => campaign'[j].executed
      /\ ParentIsMarked' /\ OneSuccessor'
  BY RewriteKeeps
<1>2. (Pointers /\ VerdictFirst)'
  BY <1>1, WorkersKept
<1> QED BY <1>1, <1>2 DEF SeriesInv, TypeOK

(* A worker writes its row and goes to another step, or home. *)
LEMMA WriteStep ==
  ASSUME SeriesInv, NEW w \in Runner, run[w].at # "idle", NEW d,
         campaign' = [campaign EXCEPT ![run[w].id] = d], Keeps(campaign[run[w].id], d),
         NEW to \in {"idle", "sending", "finished", "cloning", "purging"}, Goes(w, to),
         to \in {"finished", "cloning"} => d.executed, UNCHANGED resend
  PROVE  SeriesInv'
<1> DEFINE i == run[w].id
<1>1. i \in Id /\ Rewrites(i, d)
  BY DEF SeriesInv, Pointers, Rewrites
<1>2. /\ campaign' \in Seq(Camp) /\ Id' = Id
      /\ \A j \in Id : campaign[j].executed => campaign'[j].executed
      /\ ParentIsMarked' /\ OneSuccessor'
  BY <1>1, RewriteKeeps
<1>3. campaign'[i] = d
  BY <1>1 DEF SeriesInv, TypeOK, Id
<1>4. /\ run' \in [Runner -> Job]
      /\ \A v \in Runner \ {w} : run'[v] = run[v]
      /\ to = "idle" => run'[w].at = "idle"
      /\ to # "idle" => run'[w].at = to /\ run'[w].id = i
  <2>1. CASE to = "idle"
    BY <2>1 DEF SeriesInv, TypeOK, Goes, Job, Idle
  <2>2. CASE to # "idle"
    BY <2>2 DEF SeriesInv, TypeOK, Goes, Job
  <2> QED BY <2>1, <2>2
<1>5. Pointers'
  BY <1>1, <1>2, <1>4 DEF SeriesInv, Pointers
<1>6. VerdictFirst'
  <2> SUFFICES ASSUME NEW v \in Runner, run'[v].at \in {"finished", "cloning"}
               PROVE  campaign'[run'[v].id].executed
    BY DEF VerdictFirst
  <2>1. CASE v = w
    BY <1>3, <1>4, <2>1
  <2>2. CASE v # w
    <3>1. run[v].id \in Id /\ campaign[run[v].id].executed
      BY <1>4, <2>2 DEF SeriesInv, Pointers, VerdictFirst
    <3> QED BY <1>2, <1>4, <2>2, <3>1
  <2> QED BY <2>1, <2>2
<1> QED BY <1>2, <1>4, <1>5, <1>6 DEF SeriesInv, TypeOK

-----------------------------------------------------------------------------
(* The rows the actions write *)

LEMMA Unlease ==
  ASSUME NEW c \in Camp PROVE Unleased(c) \in Camp /\ Keeps(c, Unleased(c)) /\ Keeps(c, c)
BY DEF Camp, Unleased, Keeps

LEMMA Closes ==
  ASSUME NEW T \in SUBSET {"waiting", "reached", "failed", "cancelled"},
         NEW s \in {"failed", "cancelled"}
  PROVE  Closed(T, s) \in SUBSET {"waiting", "reached", "failed", "cancelled"}
BY DEF Closed

LEMMA Finishes ==
  ASSUME NEW c \in Camp PROVE Keeps(c, FinishCampaign(c)) /\ FinishCampaign(c).executed
<1>1. Outcome(c) \in {"cancelled", "failed", "completed", "partial"}
  BY DEF Outcome, Camp
<1> HIDE DEF Outcome
<1> QED BY <1>1 DEF FinishCampaign, Unleased, Keeps, Camp

LEMMA Fails == ASSUME NEW c \in Camp PROVE Keeps(c, FailCampaign(c))
BY DEF FailCampaign, Unleased, Keeps, Camp

-----------------------------------------------------------------------------
(* The requests *)

LEMMA ComposerStep ==
  ASSUME SeriesInv,
         \/ \E t \in Text, d \in Doc \cup {None}, r \in BOOLEAN : Create(t, d, r)
         \/ \E i \in Id, r \in BOOLEAN : Duplicate(i, r)
         \/ \E i \in Id, t \in Text, d \in Doc \cup {None}, r \in BOOLEAN : UpdateBroadcast(i, t, d, r)
  PROVE  SeriesInv'
<1>1. ASSUME NEW t \in Text, NEW d \in Doc \cup {None}, NEW r \in BOOLEAN, SaveBroadcast(t, d, r)
      PROVE  SeriesInv'
  <2>1. Adds(Row(t, d, r, None)) /\ Row(t, d, r, None).from = None
    <3>1. \A i \in Nat \cup {None} : Row(t, d, r, i) \in Camp /\ Row(t, d, r, i).from = i
      BY RowType
    <3>2. None \in Nat \cup {None}
      OBVIOUS
    <3>3. campaign' = Append(campaign, Row(t, d, r, None))
      BY <1>1 DEF SaveBroadcast
    <3>4. Row(t, d, r, None) \in Camp /\ Row(t, d, r, None).from = None
      BY <3>1, <3>2
    <3> QED BY <3>3, <3>4 DEF Adds
  <2>2. UNCHANGED <<run, resend>>
    BY <1>1 DEF SaveBroadcast
  <2> QED BY <2>1, <2>2, AddStep
<1>2. ASSUME NEW t \in Text, NEW d \in Doc \cup {None}, NEW r \in BOOLEAN, Create(t, d, r)
      PROVE  SeriesInv'
  BY <1>1, <1>2 DEF Create
<1>3. ASSUME NEW i \in Id, NEW r \in BOOLEAN, Duplicate(i, r) PROVE SeriesInv'
  <2>1. campaign[i].text \in Text /\ campaign[i].doc \in Doc \cup {None}
    BY RowOf DEF SeriesInv, Camp
  <2> QED BY <1>1, <1>3, <2>1 DEF Duplicate
<1>4. ASSUME NEW i \in Id, NEW t \in Text, NEW d \in Doc \cup {None}, NEW r \in BOOLEAN,
             UpdateBroadcast(i, t, d, r)
      PROVE  SeriesInv'
  <2> DEFINE c == campaign[i]
             row == [Unleased(c) EXCEPT !.text = t, !.doc = d, !.repeats = r, !.cancel = FALSE,
                                        !.spawned = FALSE, !.targets = {"waiting"}]
  <2>1. c \in Camp /\ ~c.executed
    BY <1>4, RowOf DEF UpdateBroadcast, Editable, SeriesInv
  <2>2. Keeps(c, row)
    BY <2>1 DEF Keeps, Camp, Unleased
  <2>3. campaign' = [campaign EXCEPT ![i] = row] /\ UNCHANGED <<run, resend>>
    BY <1>4 DEF UpdateBroadcast
  <2> HIDE DEF row
  <2> QED BY <2>2, <2>3, RewriteStep DEF Rewrites
<1> QED BY <1>2, <1>3, <1>4

LEMMA ChangeStep ==
  ASSUME SeriesInv, NEW i \in Id,
         ScheduleCampaign(i) \/ RequestCancel(i) \/ RunNow(i) \/ RetryFailed(i)
  PROVE  SeriesInv'
<1> DEFINE c == campaign[i]
<1>0. c \in Camp
  BY RowOf DEF SeriesInv
<1>1. ASSUME NEW row, Keeps(c, row), Change(i, row) PROVE SeriesInv'
  BY <1>1, RewriteStep DEF Change, Rewrites
<1>2. CASE ScheduleCampaign(i)
  <2>1. Keeps(c, [c EXCEPT !.status = "scheduled"])
    BY <1>0 DEF Keeps, Camp
  <2> QED BY <1>1, <1>2, <2>1 DEF ScheduleCampaign
<1>3. CASE RequestCancel(i)
  <2> DEFINE status == IF c.status = "scheduled" \/ LeaseFree(c) THEN "cancelled" ELSE c.status
             targets == Closed(c.targets, "cancelled")
             row == [c EXCEPT !.cancel = TRUE, !.status = status, !.targets = targets]
  <2>1. status \in {"cancelled", "scheduled", "running"}
    BY <1>3 DEF RequestCancel
  <2>2. targets \in SUBSET {"waiting", "reached", "failed", "cancelled"}
    BY <1>0, Closes DEF Camp
  <2>4. Change(i, row)
    BY <1>3 DEF RequestCancel
  <2> HIDE DEF status, targets
  <2>3. Keeps(c, row)
    BY <1>0, <2>1, <2>2 DEF Keeps, Camp
  <2> QED BY <1>1, <2>3, <2>4
<1>4. CASE RunNow(i)
  <2>1. Keeps(c, [Unleased(c) EXCEPT !.status = "scheduled", !.cancel = FALSE])
    BY <1>0 DEF Keeps, Camp, Unleased
  <2> QED BY <1>1, <1>4, <2>1 DEF RunNow
<1>5. CASE RetryFailed(i)
  <2> DEFINE targets == (c.targets \ {"failed", "cancelled"}) \cup {"waiting"}
             row == [Unleased(c) EXCEPT !.status = "running", !.cancel = FALSE, !.targets = targets]
  <2>1. targets \in SUBSET {"waiting", "reached", "failed", "cancelled"}
    BY <1>0 DEF Camp
  <2>3. Change(i, row)
    BY <1>5, <1>0 DEF RetryFailed, Unleased, Camp
  <2> HIDE DEF targets
  <2>2. Keeps(c, row)
    BY <1>0, <2>1 DEF Keeps, Camp, Unleased
  <2> QED BY <1>1, <2>2, <2>3
<1> QED BY <1>2, <1>3, <1>4, <1>5

(* The statements of a resend write one row; between them its number is kept. *)
LEMMA ResendStep ==
  ASSUME SeriesInv, (\E i \in Id : ResendCheck(i)) \/ ResendTargets \/ ResendCampaign
  PROVE  SeriesInv'
<1>1. ASSUME NEW i \in Id, ResendCheck(i) PROVE SeriesInv'
  <2>1. resend' = [at |-> "checked", id |-> i] /\ UNCHANGED <<campaign, run>> /\ i \in Nat
    BY <1>1, RowOf DEF ResendCheck, SeriesInv
  <2> QED BY <2>1 DEF SeriesInv, TypeOK, Pointers, VerdictFirst, ParentIsMarked, OneSuccessor, Id
<1>2. ASSUME NEW row, NEW r, resend.at # "idle", Keeps(campaign[resend.id], row),
             campaign' = [campaign EXCEPT ![resend.id] = row], UNCHANGED run,
             resend' = r, r \in [at : {"idle", "checked", "reset"}, id : Nat \cup {None}],
             r.at # "idle" => r.id = resend.id
      PROVE  SeriesInv'
  <2>1. resend.id \in Id /\ Rewrites(resend.id, row)
    BY <1>2 DEF SeriesInv, Pointers, Rewrites
  <2>2. /\ campaign' \in Seq(Camp) /\ Id' = Id
        /\ \A j \in Id : campaign[j].executed => campaign'[j].executed
        /\ ParentIsMarked' /\ OneSuccessor'
    BY <2>1, RewriteKeeps
  <2>3. Pointers'
    BY <1>2, <2>1, <2>2 DEF SeriesInv, Pointers
  <2>4. VerdictFirst'
    BY <1>2, <2>2 DEF SeriesInv, Pointers, VerdictFirst
  <2> QED BY <1>2, <2>2, <2>3, <2>4 DEF SeriesInv, TypeOK
<1>3. CASE ResendTargets
  <2> DEFINE c == campaign[resend.id]
             row == [c EXCEPT !.targets = {"waiting"}]
             r == [resend EXCEPT !.at = "reset"]
  <2>1. c \in Camp /\ resend.at # "idle"
    BY <1>3, RowOf DEF ResendTargets, SeriesInv, Pointers
  <2>2. Keeps(c, row)
    BY <2>1 DEF Keeps, Camp
  <2>3. r \in [at : {"idle", "checked", "reset"}, id : Nat \cup {None}] /\ r.id = resend.id
    BY DEF SeriesInv, TypeOK
  <2>4. campaign' = [campaign EXCEPT ![resend.id] = row] /\ resend' = r /\ UNCHANGED run
    BY <1>3 DEF ResendTargets
  <2> HIDE DEF row, r
  <2> QED BY <1>2, <2>1, <2>2, <2>3, <2>4
<1>4. CASE ResendCampaign
  <2> DEFINE c == campaign[resend.id]
             row == Queued(c)
             r == [at |-> "idle", id |-> None]
  <2>1. c \in Camp /\ resend.at # "idle"
    BY <1>4, RowOf DEF ResendCampaign, SeriesInv, Pointers
  <2>2. Keeps(c, row)
    BY <2>1 DEF Keeps, Camp, Queued, Unleased
  <2>3. r \in [at : {"idle", "checked", "reset"}, id : Nat \cup {None}] /\ r.at = "idle"
    OBVIOUS
  <2>4. campaign' = [campaign EXCEPT ![resend.id] = row] /\ resend' = r /\ UNCHANGED run
    BY <1>4 DEF ResendCampaign
  <2> HIDE DEF row, r
  <2> QED BY <1>2, <2>1, <2>2, <2>3, <2>4
<1> QED BY <1>1, <1>3, <1>4

-----------------------------------------------------------------------------
(* The workers *)

LEMMA WritesStep ==
  ASSUME SeriesInv, NEW w \in Runner,
         NEW from \in {"claimed", "sending", "finished", "purging"},
         NEW to \in {"idle", "sending", "finished", "cloning", "purging"}, NEW row,
         Writes(w, from, row, to), Keeps(Of(w), row), to \in {"finished", "cloning"} => row.executed
  PROVE  SeriesInv'
BY WriteStep DEF Writes, Of

LEMMA SettleStep ==
  ASSUME SeriesInv, NEW w \in Runner,
         SettleCancelled(w) \/ OpenStoredDocument(w) \/ OfflineTooLong(w) \/ ReleaseCampaign(w)
           \/ SettleBroadcast(w) \/ RecurringSeries(w)
  PROVE  SeriesInv'
<1>0. Of(w) \in Camp
  <2>1. run[w].at # "idle"
    BY DEF SettleCancelled, OpenStoredDocument, OfflineTooLong, ReleaseCampaign,
           SettleBroadcast, RecurringSeries
  <2> QED BY <2>1, RowOf DEF SeriesInv, Pointers, Of
<1>1. CASE SettleCancelled(w)
  <2> DEFINE targets == Closed(Of(w).targets, "cancelled")
             c == [Of(w) EXCEPT !.targets = targets]
  <2>1. targets \in SUBSET {"waiting", "reached", "failed", "cancelled"}
    BY <1>0, Closes DEF Camp
  <2>4. Writes(w, "claimed", FinishCampaign(c), "idle")
    BY <1>1 DEF SettleCancelled
  <2> HIDE DEF targets
  <2>2. c \in Camp /\ Keeps(Of(w), c)
    BY <1>0, <2>1 DEF Camp, Keeps
  <2> HIDE DEF c
  <2>3. Keeps(Of(w), FinishCampaign(c))
    BY <2>2, Finishes DEF Keeps
  <2> QED BY <2>3, <2>4, WritesStep
<1>2. CASE OpenStoredDocument(w)
  <2>1. Writes(w, "claimed", Of(w), "sending") \/ Writes(w, "claimed", FailCampaign(Of(w)), "idle")
    BY <1>2 DEF OpenStoredDocument
  <2> QED BY <1>0, <2>1, Unlease, Fails, WritesStep
<1>3. CASE OfflineTooLong(w)
  BY <1>0, <1>3, Fails, WritesStep DEF OfflineTooLong
<1>4. CASE ReleaseCampaign(w)
  <2>1. Writes(w, "sending", Unleased(Of(w)), "idle") \/ Writes(w, "sending", Of(w), "idle")
    BY <1>4 DEF ReleaseCampaign
  <2> QED BY <1>0, <2>1, Unlease, WritesStep
<1>5. CASE SettleBroadcast(w)
  BY <1>0, <1>5, Finishes, WritesStep DEF SettleBroadcast
<1>6. CASE RecurringSeries(w)
  <2>1. \/ Writes(w, "finished", Of(w), "cloning")
        \/ Writes(w, "finished", Of(w), "purging")
    BY <1>6 DEF RecurringSeries
  <2>2. Of(w).executed
    BY <1>6 DEF RecurringSeries, SeriesInv, VerdictFirst, Of
  <2> QED BY <1>0, <2>1, <2>2, Unlease, WritesStep
<1> QED BY <1>1, <1>2, <1>3, <1>4, <1>5, <1>6

LEMMA SendStep ==
  ASSUME SeriesInv, NEW w \in Runner, Reach(w) \/ Lose(w)
  PROVE  SeriesInv'
<1>0. Of(w) \in Camp /\ run[w].text \in Text \cup {None}
  BY RowOf DEF Reach, Lose, SeriesInv, TypeOK, Pointers, Of, Job
<1>1. ASSUME NEW T \in SUBSET {"waiting", "reached", "failed", "cancelled"},
             NEW H \in SUBSET (Text \cup {None})
      PROVE  /\ Keeps(Of(w), [Of(w) EXCEPT !.targets = T, !.heard = H])
             /\ Keeps(Of(w), [Of(w) EXCEPT !.targets = T])
  BY <1>0 DEF Camp, Keeps
<1>2. CASE Reach(w)
  <2>1. PICK rest \in {Of(w).targets, Of(w).targets \ {"waiting"}} :
          Writes(w, "sending", [Of(w) EXCEPT !.targets = rest \cup {"reached"},
                                             !.heard = Of(w).heard \cup {run[w].text}], "sending")
    BY <1>2 DEF Reach
  <2>2. /\ rest \cup {"reached"} \in SUBSET {"waiting", "reached", "failed", "cancelled"}
        /\ Of(w).heard \cup {run[w].text} \in SUBSET (Text \cup {None})
    BY <1>0 DEF Camp
  <2> QED BY <1>1, <2>1, <2>2, WritesStep
<1>3. CASE Lose(w)
  <2>1. Closed(Of(w).targets, "failed") \in SUBSET {"waiting", "reached", "failed", "cancelled"}
    BY <1>0, Closes DEF Camp
  <2>2. Writes(w, "sending", [Of(w) EXCEPT !.targets = Closed(Of(w).targets, "failed")], "sending")
    BY <1>3 DEF Lose
  <2> QED BY <1>1, <2>1, <2>2, WritesStep
<1> QED BY <1>2, <1>3

(* The claim, the renewal, the expiry of a lease: no mark is touched. *)
LEMMA LeaseStep ==
  ASSUME SeriesInv, NEW w \in Runner, NEW i \in Id,
         ClaimDueCampaigns(w, i) \/ RenewCampaignLease(w) \/ LeaseExpires(i)
  PROVE  SeriesInv'
<1>1. CASE RenewCampaignLease(w)
  <2> DEFINE k == run[w].id
  <2>1. k \in Id /\ campaign[k] \in Camp
    BY <1>1, RowOf DEF RenewCampaignLease, SeriesInv, Pointers
  <2>2. Keeps(campaign[k], [campaign[k] EXCEPT !.expired = FALSE])
    BY <2>1 DEF Keeps, Camp
  <2> QED BY <1>1, <2>1, <2>2, RewriteStep DEF RenewCampaignLease, Rewrites
<1>2. CASE LeaseExpires(i)
  <2>1. Keeps(campaign[i], [campaign[i] EXCEPT !.expired = TRUE])
    BY RowOf DEF SeriesInv, Keeps, Camp
  <2> QED BY <1>2, <2>1, RewriteStep DEF LeaseExpires, Rewrites
<1>3. CASE ClaimDueCampaigns(w, i)
  <2> DEFINE c == campaign[i]
             row == [c EXCEPT !.status = "running", !.owner = w, !.expired = FALSE, !.started = TRUE]
             job == [at |-> "claimed", id |-> i, text |-> c.text, doc |-> c.doc]
  <2>1. c \in Camp /\ i \in Nat
    BY RowOf DEF SeriesInv
  <2>2. Rewrites(i, row) /\ UNCHANGED resend
    BY <1>3, <2>1 DEF ClaimDueCampaigns, Rewrites, Keeps, Camp
  <2>3. run' = run \/ (run[w] = Idle /\ run' = [run EXCEPT ![w] = job])
    BY <1>3 DEF ClaimDueCampaigns
  <2>4. job \in Job /\ job.at = "claimed" /\ job.id = i
    BY <2>1 DEF Job, Camp
  <2> HIDE DEF row, job
  <2>5. /\ campaign' \in Seq(Camp) /\ Id' = Id
        /\ \A j \in Id : campaign[j].executed => campaign'[j].executed
        /\ ParentIsMarked' /\ OneSuccessor'
    BY <2>2, RewriteKeeps
  <2>6. run' \in [Runner -> Job]
    BY <2>3, <2>4 DEF SeriesInv, TypeOK
  <2>7. \A v \in Runner : run'[v] = run[v] \/ run'[v] = job
    BY <2>3 DEF SeriesInv, TypeOK
  <2>8. Pointers'
    BY <2>2, <2>4, <2>5, <2>7 DEF SeriesInv, Pointers
  <2>9. VerdictFirst'
    <3> SUFFICES ASSUME NEW v \in Runner, run'[v].at \in {"finished", "cloning"}
                 PROVE  campaign'[run'[v].id].executed
      BY DEF VerdictFirst
    <3>1. run'[v] = run[v]
      BY <2>4, <2>7
    <3>2. run[v].id \in Id /\ campaign[run[v].id].executed
      BY <3>1 DEF SeriesInv, Pointers, VerdictFirst
    <3> QED BY <2>5, <3>1, <3>2
  <2> QED BY <2>2, <2>5, <2>6, <2>8, <2>9 DEF SeriesInv, TypeOK
<1> QED BY <1>1, <1>2, <1>3

(* A worker that only goes elsewhere. *)
LEMMA GoneStep ==
  ASSUME SeriesInv, NEW w \in Runner, NEW to \in {"idle", "purging"}, run[w].at # "idle",
         Goes(w, to), UNCHANGED <<campaign, resend>>
  PROVE  SeriesInv'
<1>1. /\ run' \in [Runner -> Job]
      /\ \A v \in Runner \ {w} : run'[v] = run[v]
      /\ to = "idle" => run'[w].at = "idle"
      /\ to # "idle" => run'[w].at = to /\ run'[w].id = run[w].id
  <2>1. CASE to = "idle"
    BY <2>1 DEF SeriesInv, TypeOK, Goes, Job, Idle
  <2>2. CASE to # "idle"
    BY <2>2 DEF SeriesInv, TypeOK, Goes, Job
  <2> QED BY <2>1, <2>2
<1>2. Id' = Id
  BY DEF Id
<1>3. Pointers'
  BY <1>1, <1>2 DEF SeriesInv, Pointers
<1>4. VerdictFirst'
  <2> SUFFICES ASSUME NEW v \in Runner, run'[v].at \in {"finished", "cloning"}
               PROVE  campaign'[run'[v].id].executed
    BY DEF VerdictFirst
  <2>1. v # w
    BY <1>1
  <2> QED BY <1>1, <2>1 DEF SeriesInv, VerdictFirst
<1> QED BY <1>1, <1>2, <1>3, <1>4 DEF SeriesInv, TypeOK, ParentIsMarked, OneSuccessor

(* The successor: the first worker marks the row it clones, and no other row *)
(* names it as its parent, because a parent is marked.                       *)
LEMMA CloneStep ==
  ASSUME SeriesAssumption, SeriesInv, NEW w \in Runner, CloneCampaignForNextRun(w)
  PROVE  SeriesInv'
<1> DEFINE i == run[w].id
           c == Of(w)
           marked == [c EXCEPT !.spawned = TRUE]
           child == Row(c.text, c.doc, c.repeats, i)
           new == Len(campaign) + 1
<1>0. i \in Id /\ i \in Nat /\ c \in Camp /\ c = campaign[i] /\ c.executed /\ run[w].at = "cloning"
  BY RowOf DEF CloneCampaignForNextRun, SeriesInv, Pointers, VerdictFirst, Of
<1>1. CASE MayClone(c)
  <2>0. ~c.spawned
    BY <1>1 DEF MayClone
  <2>1. marked \in Camp /\ marked.spawned /\ marked.executed /\ marked.from = c.from
    BY <1>0 DEF Camp
  <2>2. child \in Camp /\ child.from = i
    <3>1. c.text \in Text /\ c.doc \in Doc \cup {None} /\ c.repeats \in BOOLEAN
      BY <1>0 DEF Camp
    <3>2. i \in Nat \cup {None}
      BY <1>0
    <3> HIDE DEF c, i
    <3> QED BY <3>1, <3>2, RowType
  <2>3. campaign' = Append([campaign EXCEPT ![i] = marked], child) /\ Goes(w, "idle") /\ UNCHANGED resend
    BY <1>1, <1>0 DEF CloneCampaignForNextRun, Of, Camp
  <2> HIDE DEF marked, child
  <2>4. campaign' \in Seq(Camp) /\ Id' = Id \cup {new} /\ new \notin Id
    BY <1>0, <2>1, <2>2, <2>3 DEF SeriesInv, TypeOK, Id
  <2>5. /\ campaign'[new] = child /\ campaign'[i] = marked
        /\ \A j \in Id \ {i} : campaign'[j] = campaign[j]
    BY <1>0, <2>1, <2>2, <2>3 DEF SeriesInv, TypeOK, Id
  <2>6. \A j \in Id : campaign'[j].from = campaign[j].from
    BY <1>0, <2>1, <2>5
  <2>7. ParentIsMarked'
    BY <1>0, <2>1, <2>2, <2>4, <2>5, <2>6 DEF SeriesInv, ParentIsMarked
  <2>8. \A j \in Id : campaign[j].from # i
    BY <1>0, <2>0 DEF SeriesInv, ParentIsMarked, SeriesAssumption
  <2>9. OneSuccessor'
    BY <2>2, <2>4, <2>5, <2>6, <2>8 DEF SeriesInv, OneSuccessor
  <2>10. run' \in [Runner -> Job] /\ \A v \in Runner : run'[v] = run[v] \/ run'[v].at = "idle"
    BY <2>3 DEF SeriesInv, TypeOK, Goes, Job, Idle
  <2>11. Pointers'
    BY <2>3, <2>4, <2>10 DEF SeriesInv, Pointers
  <2>12. VerdictFirst'
    <3> SUFFICES ASSUME NEW v \in Runner, run'[v].at \in {"finished", "cloning"}
                 PROVE  campaign'[run'[v].id].executed
      BY DEF VerdictFirst
    <3>1. run'[v] = run[v]
      BY <2>10
    <3>2. run[v].id \in Id /\ campaign[run[v].id].executed
      BY <3>1 DEF SeriesInv, Pointers, VerdictFirst
    <3> QED BY <2>1, <2>5, <3>1, <3>2
  <2> QED BY <2>3, <2>4, <2>7, <2>9, <2>10, <2>11, <2>12 DEF SeriesInv, TypeOK
<1>2. CASE ~MayClone(c)
  <2>1. Goes(w, "idle") /\ UNCHANGED <<campaign, resend>>
    BY <1>2 DEF CloneCampaignForNextRun
  <2> QED BY <1>0, <2>1, GoneStep
<1> QED BY <1>1, <1>2

LEMMA PurgeStep ==
  ASSUME SeriesInv, NEW w \in Runner, PurgeDocument(w)
  PROVE  SeriesInv'
<1>1. run[w].at # "idle" /\ campaign[run[w].id] \in Camp
  BY RowOf DEF PurgeDocument, SeriesInv, Pointers
<1>2. Keeps(campaign[run[w].id], [campaign[run[w].id] EXCEPT !.purged = (run[w].doc # None)])
  BY <1>1 DEF Keeps, Camp
<1> QED BY <1>1, <1>2, WriteStep DEF PurgeDocument

-----------------------------------------------------------------------------
LEMMA SeriesInit == Init => SeriesInv
<1> SUFFICES ASSUME Init PROVE SeriesInv
  OBVIOUS
<1>1. campaign = <<>> /\ Id = {}
  BY DEF Init, Id
<1>2. TypeOK
  BY <1>1 DEF Init, TypeOK, Idle, Job
<1> QED BY <1>1, <1>2 DEF Init, SeriesInv, Pointers, VerdictFirst, ParentIsMarked, OneSuccessor, Idle

LEMMA SeriesStep == ASSUME SeriesAssumption, SeriesInv, [Next]_vars PROVE SeriesInv'
<1>1. CASE OperatorStep
  <2>1. ASSUME NEW d \in Doc, Upload(d) PROVE SeriesInv'
    BY <2>1 DEF Upload, SeriesInv, TypeOK, Pointers, VerdictFirst, ParentIsMarked, OneSuccessor, Id
  <2>2. ASSUME NEW i \in Id,
               ScheduleCampaign(i) \/ RequestCancel(i) \/ RunNow(i) \/ RetryFailed(i)
        PROVE  SeriesInv'
    BY <2>2, ChangeStep
  <2> QED BY <1>1, <2>1, <2>2, ComposerStep, ResendStep DEF OperatorStep
<1>2. ASSUME NEW w \in Runner, WorkerStep(w) PROVE SeriesInv'
  <2>1. CASE RenewCampaignLease(w)
    <3>1. run[w].id \in Id
      BY <2>1 DEF RenewCampaignLease, SeriesInv, Pointers
    <3> QED BY <2>1, <3>1, LeaseStep
  <2> QED BY <1>2, <2>1, SettleStep, SendStep, CloneStep, PurgeStep DEF WorkerStep
<1>3. ASSUME NEW w \in Runner, Crash(w) \/ CloneFails(w) PROVE SeriesInv'
  <2>1. CASE run[w].at = "idle"
    <3>1. Crash(w) /\ Goes(w, "idle") /\ UNCHANGED <<campaign, resend>>
      BY <1>3, <2>1 DEF Crash, CloneFails
    <3>2. run' = [run EXCEPT ![w] = Idle]
      BY <3>1 DEF Goes
    <3>3. run' \in [Runner -> Job] /\ \A v \in Runner : run'[v] = run[v] \/ run'[v].at = "idle"
      BY <3>2 DEF SeriesInv, TypeOK, Job, Idle
    <3> QED BY <3>1, <3>3 DEF SeriesInv, TypeOK, Pointers, VerdictFirst, ParentIsMarked, OneSuccessor, Id
  <2>2. CASE run[w].at # "idle"
    <3>1. (Goes(w, "idle") \/ Goes(w, "purging")) /\ UNCHANGED <<campaign, resend>>
      BY <1>3 DEF Crash, CloneFails
    <3> QED BY <2>2, <3>1, GoneStep
  <2> QED BY <2>1, <2>2
<1>4. ASSUME NEW w \in Runner, NEW i \in Id, ClaimDueCampaigns(w, i) PROVE SeriesInv'
  BY <1>4, LeaseStep
<1>5. ASSUME NEW i \in Id, LeaseExpires(i) PROVE SeriesInv'
  <2>1. Keeps(campaign[i], [campaign[i] EXCEPT !.expired = TRUE])
    BY RowOf DEF SeriesInv, Keeps, Camp
  <2> QED BY <1>5, <2>1, RewriteStep DEF LeaseExpires, Rewrites
<1>6. CASE SeriesEnds \/ UNCHANGED vars
  BY <1>6 DEF SeriesEnds, vars, SeriesInv, TypeOK, Pointers, VerdictFirst, ParentIsMarked,
       OneSuccessor, Id
<1> QED BY <1>1, <1>2, <1>3, <1>4, <1>5, <1>6 DEF Next

\* A series does not fork: however many workers settle an occurrence, in
\* whatever order they lose and regain its lease, and however often an operator
\* runs it again, one row at most is cloned from it (CloneCampaignForNextRun).
THEOREM SeriesDoesNotFork == ASSUME SeriesAssumption PROVE Spec => []OneSuccessor
<1>1. SeriesInv => OneSuccessor
  BY DEF SeriesInv
<1>2. SeriesInv /\ [Next]_vars => SeriesInv'
  BY SeriesStep
<1> QED BY <1>1, <1>2, SeriesInit, PTL DEF Spec
=============================================================================
