---------------------------- MODULE Outreach_proofs ----------------------------
(***************************************************************************)
(* Proofs about Outreach for every value of its constants: a Story is      *)
(* shown once to a number's followers, its report has each view once, and  *)
(* the next run of a campaign that repeats is the first one due.           *)
(***************************************************************************)
EXTENDS Outreach, FiniteSetTheorems, WellFoundedInduction, TLAPS

-----------------------------------------------------------------------------
(***************************************************************************)
(* A Story, for any number of sending numbers, viewers, attempts and       *)
(* goroutines. A publication has one message id, minted at the first       *)
(* attempt and found again by every later one; what has to be invariant is *)
(* that no copy of it is lost. Its variables, by their names there:        *)
(***************************************************************************)
camp == x1
pub == x2
msg == x3
run == x4
stopping == x5
job == x6
minted == x7
shown == x8
takenDown == x9
views == x10
frozen == x11
counted == x12
spent == x13

USE DEF camp, pub, msg, run, stopping, job, minted, shown, takenDown, views, frozen, counted, spent

\* The sizes Story speaks of are those the library's theorems are about.
LEMMA StorySizes == ASSUME NEW X PROVE Y!Cardinality(X) = Cardinality(X)
BY Zenon DEF Y!Cardinality, Cardinality

CampRow ==
    [status : {"scheduled", "running", "cancelled", "failed", "partial", "completed",
               "expired", "gone"},
     cancel : BOOLEAN, lease : {"none", "live"}]

Publication ==
    [status : {"none", "pending", "processing", "published", "failed", "cancelled",
               "deleted", "expired"},
     attempt : Nat, id : {Y!NoId, 1}, lease : {"none", "live"}, due : BOOLEAN,
     ends : {"never", "ahead", "over", "closed"}]

Sending == {"push", "ok", "note", "error"}
Goroutine == [at : {"none", "claimed"} \cup Sending, id : {Y!NoId, 1}]

StoryTypes ==
    /\ camp \in CampRow
    /\ pub \in [Account -> Publication]
    /\ job \in [Account -> Goroutine]
    /\ minted \in [Account -> {0, 1}]

(* The row carries the id that was minted, from before it is first used.    *)
RowHasId == \A a \in Account : pub[a].status # "none" => pub[a].id = minted[a]

(* A row is missing before it is seeded, or because the campaign was        *)
(* deleted; a deleted campaign is never seeded again.                       *)
NoRowNoId ==
    \A a \in Account : pub[a].status = "none" /\ camp.status # "gone" =>
        minted[a] = 0 /\ job[a].at = "none"

(* A goroutine starts with the row's id and pushes under the minted one.    *)
JobHasId ==
    \A a \in Account :
        /\ job[a].at = "claimed" => job[a].id = minted[a]
        /\ job[a].at \in Sending => job[a].id = 1 /\ minted[a] = 1

ShownFirst == \A k \in shown : k[2] = 1 /\ k = <<k[1], k[2]>>

StoryInv == StoryTypes /\ RowHasId /\ NoRowNoId /\ JobHasId /\ ShownFirst

-----------------------------------------------------------------------------
(* What a statement leaves of a row *)

SameRow(r, q) == q \in Publication /\ (q.status = "none" <=> r.status = "none") /\ q.id = r.id

LEMMA RowOps ==
  ASSUME NEW r \in Publication
  PROVE  /\ SameRow(r, Y!Swept(r)) /\ r \in Publication
         /\ r.status # "none" =>
                /\ SameRow(r, Y!Claimed(r)) /\ SameRow(r, Y!Failed(r)) /\ SameRow(r, Y!Cancelled(r))
                /\ \A id \in {1} : Y!Published(r, id) \in Publication
                                   /\ Y!Published(r, id).status # "none" /\ Y!Published(r, id).id = id
<1>1. SameRow(r, Y!Swept(r))
  BY DEF SameRow, Y!Swept, Publication
<1>2. ASSUME r.status # "none" PROVE SameRow(r, Y!Claimed(r))
  <2>1. r.attempt + 1 \in Nat
    BY DEF Publication
  <2> QED BY <1>2, <2>1 DEF SameRow, Y!Claimed, Publication
<1>3. ASSUME r.status # "none" PROVE SameRow(r, Y!Failed(r))
  <2>1. CASE r.attempt < MaxAttempts
    BY <1>3, <2>1 DEF SameRow, Y!Failed, Publication
  <2>2. CASE ~(r.attempt < MaxAttempts)
    BY <1>3, <2>2 DEF SameRow, Y!Failed, Publication
  <2> QED BY <2>1, <2>2
<1>4. ASSUME r.status # "none" PROVE SameRow(r, Y!Cancelled(r))
  BY <1>4 DEF SameRow, Y!Cancelled, Publication
<1>5. \A id \in {1} : /\ Y!Published(r, id) \in Publication
                      /\ Y!Published(r, id).status # "none" /\ Y!Published(r, id).id = id
  BY DEF Y!Published, Publication, Y!NoId
<1> QED BY <1>1, <1>2, <1>3, <1>4, <1>5

RowsSame == pub' \in [Account -> Publication] /\ \A a \in Account : SameRow(pub[a], pub'[a])

LEMMA UpdateSame ==
  ASSUME StoryTypes, NEW a \in Account, NEW new, Y!Update(a, new),
         pub[a].status # "none" => SameRow(pub[a], new)
  PROVE  RowsSame
<1>1. CASE pub[a].status = "none"
  BY <1>1 DEF StoryTypes, Y!Update, RowsSame, SameRow
<1>2. CASE pub[a].status # "none"
  BY <1>2 DEF StoryTypes, Y!Update, RowsSame, SameRow
<1> QED BY <1>1, <1>2

LEMMA CloseSame == ASSUME StoryTypes, pub' = Y!CloseOpen PROVE RowsSame
<1>1. \A a \in Account : SameRow(pub[a], pub'[a])
  <2> SUFFICES ASSUME NEW a \in Account PROVE SameRow(pub[a], pub'[a])
    OBVIOUS
  <2>1. pub[a] \in Publication
    BY DEF StoryTypes
  <2>2. \/ pub'[a] = Y!Cancelled(pub[a]) /\ pub[a].status # "none"
        \/ pub'[a] = pub[a]
    BY DEF Y!CloseOpen
  <2> QED BY <2>1, <2>2, RowOps DEF SameRow
<1>2. pub' = [a \in Account |-> pub'[a]]
  BY DEF Y!CloseOpen
<1>3. \A a \in Account : pub'[a] \in Publication
  BY <1>1 DEF SameRow
<1> HIDE DEF Y!CloseOpen
<1> QED BY <1>1, <1>2, <1>3 DEF RowsSame

LEMMA SameIsSame == ASSUME StoryTypes, UNCHANGED pub PROVE RowsSame
BY DEF StoryTypes, RowsSame, SameRow

(* A goroutine goes on under its id, or ends.                               *)
JobsGoOn ==
    /\ job' \in [Account -> Goroutine]
    /\ \A a \in Account :
           \/ job'[a].at = "none" \/ job'[a] = job[a]
           \/ job[a].at \in Sending /\ job'[a].at \in Sending /\ job'[a].id = job[a].id

LEMMA JobEnds ==
  ASSUME StoryTypes, NEW a \in Account, NEW at \in {"none"} \cup Sending, NEW id,
         Y!SetJob(a, at, id), at = "none" => id = Y!NoId,
         at # "none" => job[a].at \in Sending /\ id = job[a].id
  PROVE  JobsGoOn
<1>1. [at |-> at, id |-> id] \in Goroutine
  BY DEF StoryTypes, Goroutine
<1>2. job' = [job EXCEPT ![a] = [at |-> at, id |-> id]]
  BY DEF Y!SetJob
<1>3. job' \in [Account -> Goroutine]
  BY <1>1, <1>2 DEF StoryTypes
<1>4. \A b \in Account \ {a} : job'[b] = job[b]
  BY <1>2 DEF StoryTypes
<1>5. job'[a].at = at /\ job'[a].id = id
  BY <1>2 DEF StoryTypes
<1> QED BY <1>3, <1>4, <1>5 DEF JobsGoOn

LEMMA SameJobs == ASSUME StoryTypes, UNCHANGED job PROVE JobsGoOn
BY DEF StoryTypes, JobsGoOn

GoneStays == camp' \in CampRow /\ (camp.status = "gone" <=> camp'.status = "gone")

LEMMA SameCamp == ASSUME StoryTypes, UNCHANGED camp PROVE GoneStays
BY DEF StoryTypes, GoneStays

LEMMA SetCampStays ==
  ASSUME StoryTypes, NEW s \in {"failed", "cancelled", "partial", "completed"}, Y!SetCamp(s)
  PROVE  GoneStays
BY DEF StoryTypes, GoneStays, Y!SetCamp, CampRow

(* A step that mints nothing and shows nothing. *)
LEMMA QuietStep ==
  ASSUME StoryInv, RowsSame, JobsGoOn, GoneStays, UNCHANGED <<minted, shown>>
  PROVE  StoryInv'
<1>1. StoryTypes'
  BY DEF StoryInv, StoryTypes, RowsSame, JobsGoOn, GoneStays
<1>2. RowHasId'
  BY DEF StoryInv, RowHasId, RowsSame, SameRow
<1>3. NoRowNoId'
  BY DEF StoryInv, NoRowNoId, RowsSame, SameRow, JobsGoOn, GoneStays, Sending
<1>4. JobHasId'
  BY DEF StoryInv, JobHasId, JobsGoOn, Sending
<1> QED BY <1>1, <1>2, <1>3, <1>4 DEF StoryInv, ShownFirst

-----------------------------------------------------------------------------
(* The steps that are not quiet *)

LEMMA SeedStep == ASSUME StoryInv, Y!Seed PROVE StoryInv'
<1>1. PICK a \in Account :
         /\ pub[a].status = "none"
         /\ pub' = [pub EXCEPT ![a] = [Y!NoRow EXCEPT !.status = "pending"]]
  BY DEF Y!Seed
<1>2. pub'[a].status = "pending" /\ pub'[a].id = 0 /\ \A b \in Account \ {a} : pub'[b] = pub[b]
  BY <1>1 DEF StoryInv, StoryTypes, Y!NoRow, Y!NoId
<1>3. pub' \in [Account -> Publication]
  BY <1>1 DEF StoryInv, StoryTypes, Y!NoRow, Y!NoId, Publication
<1>4. minted[a] = 0
  BY <1>1 DEF Y!Seed, StoryInv, NoRowNoId
<1>5. UNCHANGED <<camp, job, minted, shown>>
  BY DEF Y!Seed, Y!phone
<1> QED BY <1>2, <1>3, <1>4, <1>5 DEF StoryInv, StoryTypes, RowHasId, NoRowNoId, JobHasId, ShownFirst

LEMMA ClaimStep == ASSUME StoryInv, Y!ClaimPublications PROVE StoryInv'
<1>1. PICK S \in SUBSET {a \in Account : Y!Claimable(pub[a])} :
         /\ pub' = [a \in Account |-> IF a \in S THEN Y!Claimed(pub[a]) ELSE pub[a]]
         /\ job' = [a \in Account |->
                        IF a \in S THEN [at |-> "claimed", id |-> pub[a].id] ELSE Y!NoJob]
  BY DEF Y!ClaimPublications, Y!kSubset
<1>2. \A a \in S : pub[a].status # "none" /\ a \in Account
  BY <1>1 DEF Y!Claimable
<1>3. \A a \in Account : pub'[a] \in Publication /\ SameRow(pub[a], pub'[a])
  <2> SUFFICES ASSUME NEW a \in Account PROVE pub'[a] \in Publication /\ SameRow(pub[a], pub'[a])
    OBVIOUS
  <2>1. pub[a] \in Publication
    BY DEF StoryInv, StoryTypes
  <2>2. CASE a \in S
    BY <1>1, <1>2, <2>1, <2>2, RowOps DEF SameRow
  <2>3. CASE a \notin S
    BY <1>1, <2>1, <2>3 DEF SameRow
  <2> QED BY <2>2, <2>3
<1>4. pub' \in [Account -> Publication]
  BY <1>1, <1>3
<1>5. \A a \in Account : /\ job'[a] \in Goroutine
                         /\ a \in S => job'[a].at = "claimed" /\ job'[a].id = pub[a].id
                         /\ a \notin S => job'[a].at = "none"
  BY <1>1 DEF StoryInv, StoryTypes, Goroutine, Publication, Y!NoJob, Y!NoId
<1>6. job' \in [Account -> Goroutine]
  BY <1>1, <1>5
<1>7. UNCHANGED <<camp, minted, shown>>
  BY DEF Y!ClaimPublications, Y!phone
<1>8. StoryTypes' /\ ShownFirst'
  BY <1>4, <1>6, <1>7 DEF StoryInv, StoryTypes, ShownFirst
<1>9. RowHasId'
  BY <1>3, <1>7 DEF StoryInv, RowHasId, SameRow
<1>10. NoRowNoId'
  BY <1>2, <1>3, <1>5, <1>7 DEF StoryInv, NoRowNoId, SameRow
<1>11. JobHasId'
  BY <1>2, <1>5, <1>7 DEF StoryInv, JobHasId, RowHasId, Sending
<1> QED BY <1>8, <1>9, <1>10, <1>11 DEF StoryInv

LEMMA PrepareStep == ASSUME StoryInv, NEW a \in Account, Y!Prepare(a) PROVE StoryInv'
<1>0. job[a].at = "claimed" /\ UNCHANGED <<camp, shown>>
  BY DEF Y!Prepare
<1>1. Y!IdFor(a) = 1
  BY <1>0 DEF Y!IdFor, StoryInv, StoryTypes, JobHasId, Y!NoId
<1>2. minted' = [minted EXCEPT ![a] = 1]
  <2>1. minted' = [minted EXCEPT ![a] = IF 1 > @ THEN 1 ELSE @]
    BY <1>1 DEF Y!Prepare
  <2>2. (IF 1 > minted[a] THEN 1 ELSE minted[a]) = 1
    BY DEF StoryInv, StoryTypes
  <2> QED BY <2>1, <2>2
<1>3. Y!SetJob(a, "push", 1) /\ Y!Update(a, [pub[a] EXCEPT !.id = 1])
  BY <1>1 DEF Y!Prepare
<1>4. job' \in [Account -> Goroutine] /\ job'[a].at = "push" /\ job'[a].id = 1
      /\ \A b \in Account \ {a} : job'[b] = job[b]
  BY <1>3 DEF Y!SetJob, StoryInv, StoryTypes, Goroutine, Sending, Y!NoId
<1>5. /\ pub' \in [Account -> Publication]
      /\ \A b \in Account \ {a} : pub'[b] = pub[b]
      /\ pub'[a].status = pub[a].status
      /\ pub[a].status # "none" => pub'[a].id = 1
  <2>1. pub[a] \in Publication /\ [pub[a] EXCEPT !.id = 1] \in Publication
    BY DEF StoryInv, StoryTypes, Publication, Y!NoId
  <2>2. CASE pub[a].status = "none"
    BY <1>3, <2>2 DEF Y!Update, StoryInv, StoryTypes
  <2>3. CASE pub[a].status # "none"
    BY <1>3, <2>1, <2>3 DEF Y!Update, StoryInv, StoryTypes, Publication
  <2> QED BY <2>2, <2>3
<1>6. minted' \in [Account -> {0, 1}] /\ minted'[a] = 1
      /\ \A b \in Account \ {a} : minted'[b] = minted[b]
  BY <1>2 DEF StoryInv, StoryTypes
<1>7. StoryTypes' /\ ShownFirst'
  BY <1>0, <1>4, <1>5, <1>6 DEF StoryInv, StoryTypes, ShownFirst
<1>8. RowHasId'
  BY <1>5, <1>6 DEF StoryInv, RowHasId
<1>9. NoRowNoId'
  BY <1>0, <1>4, <1>5, <1>6 DEF StoryInv, NoRowNoId
<1>10. JobHasId'
  BY <1>4, <1>6 DEF StoryInv, JobHasId, Sending
<1> QED BY <1>7, <1>8, <1>9, <1>10 DEF StoryInv

LEMMA LandStep == ASSUME StoryInv, NEW a \in Account, Y!PushLands(a) PROVE StoryInv'
<1>1. job[a].id = 1 /\ shown' = shown \cup {<<a, job[a].id>>}
  BY DEF Y!PushLands, StoryInv, JobHasId, Sending
<1>2. ShownFirst'
  BY <1>1 DEF StoryInv, ShownFirst
<1> QED BY <1>2 DEF Y!PushLands, Y!rows, Y!worker, StoryInv, StoryTypes, RowHasId, NoRowNoId, JobHasId

LEMMA DeleteStep == ASSUME StoryInv, Y!Delete PROVE StoryInv'
<1>1. camp' \in CampRow /\ camp'.status = "gone"
  BY DEF Y!Delete, CampRow
<1>2. pub' \in [Account -> Publication] /\ \A a \in Account : pub'[a].status = "none"
  BY DEF Y!Delete, Y!NoRow, Publication, Y!NoId
<1>3. UNCHANGED <<job, minted, shown>>
  BY DEF Y!Delete, Y!worker, Y!phone
<1> QED BY <1>1, <1>2, <1>3 DEF StoryInv, StoryTypes, RowHasId, NoRowNoId, JobHasId, ShownFirst

-----------------------------------------------------------------------------
LEMMA StoryInit == Y!Init => StoryInv
BY DEF Y!Init, StoryInv, StoryTypes, RowHasId, NoRowNoId, JobHasId, ShownFirst, CampRow, Publication,
    Goroutine, Y!NoRow, Y!NoJob, Y!NoId, Sending

LEMMA VerdictType == Y!Verdict \in {"failed", "cancelled", "partial", "completed"}
BY DEF Y!Verdict

LEMMA RunSteps == ASSUME StoryInv, Y!RunStep \/ Y!ClaimCampaign \/ Y!MediaFails PROVE StoryInv'
<1>0. StoryTypes
  BY DEF StoryInv
<1>1. CASE Y!Start \/ Y!SeededBefore \/ Y!CancelSeen \/ Y!BatchEnds \/ Y!Stopped
  <2>1. UNCHANGED <<pub, job, camp, minted, shown>>
    BY <1>1 DEF Y!Start, Y!SeededBefore, Y!CancelSeen, Y!BatchEnds, Y!Stopped, Y!rows, Y!phone
  <2> QED BY <1>0, <2>1, SameIsSame, SameJobs, SameCamp, QuietStep
<1>2. CASE Y!CancelRemaining
  <2>1. pub' = Y!CloseOpen /\ UNCHANGED <<job, camp, minted, shown>>
    BY <1>2 DEF Y!CancelRemaining, Y!phone
  <2> QED BY <1>0, <2>1, CloseSame, SameJobs, SameCamp, QuietStep
<1>3. CASE Y!ClaimCampaign \/ Y!CountPending \/ Y!Finish \/ Y!MediaFails
  <2>1. UNCHANGED <<pub, job, minted, shown>>
    BY <1>3 DEF Y!ClaimCampaign, Y!CountPending, Y!Finish, Y!MediaFails, Y!phone
  <2>2. GoneStays
    <3>1. CASE Y!ClaimCampaign
      BY <1>0, <3>1 DEF Y!ClaimCampaign, GoneStays, StoryTypes, CampRow
    <3>2. CASE Y!CountPending
      <4>1. camp' = [camp EXCEPT !.lease = "none"] \/ camp' = camp
        BY <3>2 DEF Y!CountPending
      <4>2. CASE camp' = [camp EXCEPT !.lease = "none"]
        BY <1>0, <4>2 DEF GoneStays, StoryTypes, CampRow
      <4> QED BY <1>0, <4>1, <4>2, SameCamp
    <3>3. CASE Y!Finish
      BY <1>0, <3>3, VerdictType, SetCampStays DEF Y!Finish
    <3>4. CASE Y!MediaFails
      BY <1>0, <3>4, SetCampStays DEF Y!MediaFails
    <3> QED BY <1>3, <3>1, <3>2, <3>3, <3>4
  <2> QED BY <1>0, <2>1, <2>2, SameIsSame, SameJobs, QuietStep
<1> QED BY <1>1, <1>2, <1>3, SeedStep, ClaimStep DEF Y!RunStep

LEMMA JobSteps == ASSUME StoryInv, NEW a \in Account, Y!JobStep(a) PROVE StoryInv'
<1>0. StoryTypes /\ pub[a] \in Publication
  BY DEF StoryInv, StoryTypes
<1>1. UNCHANGED camp /\ GoneStays
  BY <1>0, SameCamp DEF Y!JobStep, Y!Refuse, Y!Prepare, Y!PushAnswered, Y!PushFails, Y!MarkPublished, Y!MarkFailed,
       Y!RecordOwnStory, Y!GivenUp, Y!rows
<1>2. CASE Y!Refuse(a) \/ Y!MarkFailed(a) \/ Y!GivenUp(a)
  <2>1. Y!Update(a, Y!Failed(pub[a])) \/ UNCHANGED pub
    BY <1>2 DEF Y!Refuse, Y!MarkFailed, Y!GivenUp
  <2>2. RowsSame
    BY <1>0, <2>1, UpdateSame, SameIsSame, RowOps
  <2>3. Y!SetJob(a, "none", Y!NoId) /\ UNCHANGED <<minted, shown>>
    BY <1>2 DEF Y!Refuse, Y!MarkFailed, Y!GivenUp, Y!phone
  <2>4. JobsGoOn
    BY <1>0, <2>3, JobEnds
  <2> QED BY <1>1, <2>2, <2>3, <2>4, QuietStep
<1>3. CASE Y!PushAnswered(a) \/ Y!PushFails(a)
  <2>1. UNCHANGED <<pub, minted, shown>> /\ job[a].at \in Sending
    BY <1>3 DEF Y!PushAnswered, Y!PushFails, Y!rows, Y!phone, Sending
  <2>2. Y!SetJob(a, "ok", job[a].id) \/ Y!SetJob(a, "error", job[a].id)
    BY <1>3 DEF Y!PushAnswered, Y!PushFails
  <2>3. "ok" \in Sending /\ "error" \in Sending /\ "ok" # "none" /\ "error" # "none"
    BY DEF Sending
  <2>4. JobsGoOn
    BY <1>0, <2>1, <2>2, <2>3, JobEnds
  <2> QED BY <1>0, <1>1, <2>1, <2>4, SameIsSame, QuietStep
<1>4. CASE Y!MarkPublished(a)
  <2>1. /\ job[a].at \in Sending /\ job[a].id = 1 /\ minted[a] = 1
        /\ Y!Update(a, Y!Published(pub[a], job[a].id)) /\ Y!SetJob(a, "note", job[a].id)
        /\ UNCHANGED <<minted, shown>>
    BY <1>4 DEF Y!MarkPublished, Sending, StoryInv, JobHasId, Y!phone
  <2>2. pub[a].status # "none" => SameRow(pub[a], Y!Published(pub[a], job[a].id))
    BY <1>0, <2>1, RowOps DEF SameRow, StoryInv, RowHasId
  <2>3. RowsSame
    BY <1>0, <2>1, <2>2, UpdateSame
  <2>4. "note" \in Sending /\ "note" # "none"
    BY DEF Sending
  <2>5. JobsGoOn
    BY <1>0, <2>1, <2>4, JobEnds
  <2> QED BY <1>1, <2>1, <2>3, <2>5, QuietStep
<1>5. CASE Y!RecordOwnStory(a)
  <2>1. Y!SetJob(a, "none", Y!NoId) /\ UNCHANGED <<pub, minted, shown>>
    BY <1>5 DEF Y!RecordOwnStory, Y!phone
  <2>2. JobsGoOn
    BY <1>0, <2>1, JobEnds
  <2> QED BY <1>0, <1>1, <2>1, <2>2, SameIsSame, QuietStep
<1> QED BY <1>2, <1>3, <1>4, <1>5, PrepareStep DEF Y!JobStep

(* Leases, gaps, the clock of a status: a row goes on with its id. *)
LEMMA ClockSteps ==
  ASSUME StoryInv, NEW a \in Account, Y!LeaseEnds(a) \/ Y!GapPasses(a) \/ Y!TimePasses(a)
  PROVE  StoryInv'
<1>0. StoryTypes /\ pub[a] \in Publication
  BY DEF StoryInv, StoryTypes
<1>1. UNCHANGED <<camp, job, minted, shown>>
  BY DEF Y!LeaseEnds, Y!GapPasses, Y!TimePasses, Y!worker, Y!phone
<1>2. ASSUME NEW r \in Publication, pub' = [pub EXCEPT ![a] = r], SameRow(pub[a], r)
      PROVE  RowsSame
  BY <1>0, <1>2 DEF RowsSame, SameRow, StoryTypes
<1>3. CASE Y!LeaseEnds(a)
  <2>1. [pub[a] EXCEPT !.lease = "none"] \in Publication
        /\ SameRow(pub[a], [pub[a] EXCEPT !.lease = "none"])
    BY <1>0 DEF Publication, SameRow
  <2> QED BY <1>0, <1>1, <1>2, <1>3, <2>1, SameJobs, SameCamp, QuietStep DEF Y!LeaseEnds
<1>4. CASE Y!GapPasses(a)
  <2>1. [pub[a] EXCEPT !.due = TRUE] \in Publication
        /\ SameRow(pub[a], [pub[a] EXCEPT !.due = TRUE])
    BY <1>0 DEF Publication, SameRow
  <2> QED BY <1>0, <1>1, <1>2, <1>4, <2>1, SameJobs, SameCamp, QuietStep DEF Y!GapPasses
<1>5. CASE Y!TimePasses(a)
  <2>1. PICK hour \in BOOLEAN : pub' = [pub EXCEPT ![a].ends = Y!Later(@, hour)]
    BY <1>5 DEF Y!TimePasses
  <2>2. pub[a].ends \in {"never", "ahead", "over", "closed"}
    BY <1>0 DEF Publication
  <2>3. Y!Later(pub[a].ends, hour) \in {"never", "ahead", "over", "closed"}
    BY <2>2 DEF Y!Later
  <2> DEFINE e == Y!Later(pub[a].ends, hour)
             r == [pub[a] EXCEPT !.ends = e]
  <2>4. pub' = [pub EXCEPT ![a] = r]
    BY <2>1
  <2>5. e \in {"never", "ahead", "over", "closed"}
    BY <2>3
  <2> HIDE DEF e
  <2>6. r \in Publication /\ SameRow(pub[a], r)
    BY <1>0, <2>5 DEF Publication, SameRow
  <2> HIDE DEF r
  <2>7. RowsSame
    BY <1>2, <2>4, <2>6
  <2> QED BY <1>0, <1>1, <2>7, SameJobs, SameCamp, QuietStep
<1> QED BY <1>3, <1>4, <1>5

LEMMA OperatorSteps ==
  ASSUME StoryInv, Y!RequestCancel \/ Y!RunNow \/ Y!Stop \/ Y!Crash \/ Y!CampaignLeaseEnds
  PROVE  StoryInv'
<1>0. StoryTypes
  BY DEF StoryInv
<1>1. UNCHANGED <<minted, shown>>
  BY DEF Y!RequestCancel, Y!RunNow, Y!Stop, Y!Crash, Y!CampaignLeaseEnds, Y!phone
<1>2. RowsSame
  BY <1>0, CloseSame, SameIsSame DEF Y!RequestCancel, Y!RunNow, Y!Stop, Y!Crash, Y!CampaignLeaseEnds, Y!rows
<1>3. JobsGoOn
  <2>1. CASE Y!Crash
    BY <2>1 DEF Y!Crash, JobsGoOn, Y!NoJob, Y!NoId, Goroutine
  <2> QED BY <1>0, <2>1, SameJobs DEF Y!RequestCancel, Y!RunNow, Y!Stop, Y!CampaignLeaseEnds, Y!worker
<1>4. GoneStays
  <2>1. CASE Y!RequestCancel
    <3>1. /\ camp.status \in {"scheduled", "running"}
          /\ camp' = [camp EXCEPT !.cancel = TRUE, !.status = "cancelled"]
             \/ camp' = [camp EXCEPT !.cancel = TRUE, !.status = camp.status]
      <4>1. CASE camp.status = "scheduled" \/ camp.lease # "live"
        BY <2>1, <4>1 DEF Y!RequestCancel
      <4>2. CASE ~(camp.status = "scheduled" \/ camp.lease # "live")
        BY <2>1, <4>2 DEF Y!RequestCancel
      <4> QED BY <4>1, <4>2
    <3>2. CASE camp' = [camp EXCEPT !.cancel = TRUE, !.status = "cancelled"]
      BY <1>0, <3>1, <3>2 DEF GoneStays, StoryTypes, CampRow
    <3>3. CASE camp' = [camp EXCEPT !.cancel = TRUE, !.status = camp.status]
      BY <1>0, <3>1, <3>3 DEF GoneStays, StoryTypes, CampRow
    <3> QED BY <3>1, <3>2, <3>3
  <2>2. CASE Y!RunNow
    BY <1>0, <2>2 DEF Y!RunNow, GoneStays, StoryTypes, CampRow
  <2>3. CASE Y!CampaignLeaseEnds
    BY <1>0, <2>3 DEF Y!CampaignLeaseEnds, GoneStays, StoryTypes, CampRow
  <2> QED BY <1>0, <2>1, <2>2, <2>3, SameCamp DEF Y!Stop, Y!Crash, Y!rows
<1> QED BY <1>1, <1>2, <1>3, <1>4, QuietStep

LEMMA SweepStep == ASSUME StoryInv, Y!ExpireStories PROVE StoryInv'
<1>0. StoryTypes
  BY DEF StoryInv
<1>1. pub' = [a \in Account |-> Y!Swept(pub[a])] /\ UNCHANGED <<job, minted, shown>>
  BY DEF Y!ExpireStories, Y!worker, Y!phone
<1>2. \A a \in Account : SameRow(pub[a], Y!Swept(pub[a]))
  BY <1>0, RowOps DEF StoryTypes
<1>3. RowsSame
  BY <1>1, <1>2 DEF RowsSame, SameRow
<1>4. \/ camp' = camp
      \/ camp' = [camp EXCEPT !.status = "expired"] /\ camp.status \in {"completed", "partial"}
  BY DEF Y!ExpireStories
<1>5. GoneStays
  <2>1. CASE camp' = [camp EXCEPT !.status = "expired"] /\ camp.status \in {"completed", "partial"}
    BY <1>0, <2>1 DEF GoneStays, StoryTypes, CampRow
  <2> QED BY <1>0, <1>4, <2>1, SameCamp
<1> QED BY <1>0, <1>1, <1>3, <1>5, SameJobs, QuietStep

LEMMA PhoneSteps ==
  ASSUME StoryInv, NEW a \in Account, NEW id,
         \/ Y!TakeDown(a, id) \/ Y!RevokeArrives(a, id)
         \/ \E v \in Viewer, inside \in BOOLEAN : Y!RecordStoryView(a, id, v, inside)
  PROVE  StoryInv'
<1>0. StoryTypes /\ pub[a] \in Publication
  BY DEF StoryInv, StoryTypes
<1>1. UNCHANGED <<camp, job, minted, shown>>
  BY DEF Y!TakeDown, Y!RevokeArrives, Y!RecordStoryView, Y!rows, Y!worker, Y!phone
<1>2. RowsSame
  <2>1. CASE Y!RevokeArrives(a, id)
    <3>1. \/ pub' = pub
          \/ /\ pub[a].status \in {"published", "processing"}
             /\ pub' = [pub EXCEPT ![a] = [@ EXCEPT !.status = "deleted", !.ends = "over",
                                                    !.lease = "none", !.due = TRUE]]
      BY <2>1 DEF Y!RevokeArrives
    <3> DEFINE r == [pub[a] EXCEPT !.status = "deleted", !.ends = "over",
                                   !.lease = "none", !.due = TRUE]
    <3>2. pub[a].status \in {"published", "processing"} => SameRow(pub[a], r)
      BY <1>0 DEF SameRow, Publication
    <3>3. \/ pub' = pub
          \/ pub[a].status \in {"published", "processing"} /\ pub' = [pub EXCEPT ![a] = r]
      BY <3>1
    <3> HIDE DEF r
    <3>4. CASE pub' = pub
      BY <1>0, <3>4, SameIsSame
    <3>5. CASE pub[a].status \in {"published", "processing"} /\ pub' = [pub EXCEPT ![a] = r]
      BY <1>0, <3>2, <3>5 DEF RowsSame, SameRow, StoryTypes
    <3> QED BY <3>3, <3>4, <3>5
  <2> QED BY <1>0, <2>1, SameIsSame DEF Y!TakeDown, Y!RecordStoryView, Y!rows
<1> QED BY <1>0, <1>1, <1>2, SameJobs, SameCamp, QuietStep

LEMMA StoryStep == ASSUME StoryInv, [Y!Next]_(Y!vars) PROVE StoryInv'
<1>1. CASE UNCHANGED Y!vars
  BY <1>1 DEF Y!vars, Y!rows, Y!worker, Y!phone, StoryInv, StoryTypes, RowHasId, NoRowNoId, JobHasId, ShownFirst
<1>2. CASE Y!Next
  BY <1>2, RunSteps, JobSteps, LandStep, ClockSteps, OperatorSteps, DeleteStep, SweepStep,
     PhoneSteps DEF Y!Next
<1> QED BY <1>1, <1>2

LEMMA OneId == StoryInv => Y!OneStoryPerNumber
<1> SUFFICES ASSUME StoryInv, NEW a \in Account
             PROVE  Cardinality({k \in shown : k[1] = a}) <= 1
  BY StorySizes DEF Y!OneStoryPerNumber
<1> DEFINE S == {k \in shown : k[1] = a}
<1>1. S \in SUBSET {<<a, 1>>}
  BY DEF StoryInv, ShownFirst
<1>2. IsFiniteSet({<<a, 1>>}) /\ Cardinality({<<a, 1>>}) = 1
  BY FS_Singleton
<1> HIDE DEF S
<1>3. Cardinality(S) <= 1
  BY <1>1, <1>2, FS_Subset
<1> QED BY <1>3 DEF S

-----------------------------------------------------------------------------
(***************************************************************************)
(* What the report of a Story counts. While the campaign is there, a       *)
(* status either has its viewers still, all that were ever accepted, or it *)
(* has one final figure, which is their number, and accepts no more.       *)
(***************************************************************************)
Status == Account \X {Y!NoId, 1}

Reported ==
  camp.status # "gone" =>
      \A k \in Status :
          \/ Y!Figures(k) = {} /\ Y!On(views, k) = Y!On(counted, k)
          \/ Y!Figures(k) = {<<k[1], k[2], Y!Cardinality(Y!On(counted, k))>>}

LEMMA ReportInit == Y!Init => Reported
BY DEF Y!Init, Reported, Y!On, Y!Figures

\* A campaign that was deleted is gone for good.
LEMMA GoneForGood ==
  ASSUME StoryTypes, Y!Next, camp.status = "gone"
  PROVE  camp'.status = "gone"
<1>0. camp \in CampRow
  BY DEF StoryTypes
<1>1. CASE Y!RunStep \/ Y!MediaFails
  <2>1. \/ UNCHANGED camp
        \/ camp' = [camp EXCEPT !.lease = "none"]
        \/ \E s : Y!SetCamp(s)
    BY <1>1 DEF Y!RunStep, Y!Start, Y!CancelRemaining, Y!Seed, Y!SeededBefore, Y!CancelSeen,
         Y!ClaimPublications, Y!BatchEnds, Y!CountPending, Y!Finish, Y!Stopped, Y!MediaFails, Y!rows
  <2>2. CASE camp' = [camp EXCEPT !.lease = "none"]
    BY <1>0, <2>2 DEF CampRow
  <2> QED BY <2>1, <2>2 DEF Y!SetCamp
<1>2. CASE Y!Stop \/ Y!Crash \/ Y!Delete
  BY <1>2 DEF Y!Stop, Y!Crash, Y!Delete, Y!rows
<1>3. CASE Y!ClaimCampaign \/ Y!RequestCancel \/ Y!RunNow
  BY <1>3 DEF Y!ClaimCampaign, Y!RequestCancel, Y!RunNow
<1>4. CASE Y!CampaignLeaseEnds
  BY <1>0, <1>4 DEF Y!CampaignLeaseEnds, CampRow
<1>5. CASE Y!ExpireStories
  BY <1>5 DEF Y!ExpireStories
<1>6. ASSUME NEW a \in Account,
             \/ Y!JobStep(a) \/ Y!PushLands(a) \/ Y!LeaseEnds(a) \/ Y!GapPasses(a) \/ Y!TimePasses(a)
      PROVE  UNCHANGED camp
  BY <1>6 DEF Y!JobStep, Y!Refuse, Y!Prepare, Y!PushAnswered, Y!PushFails, Y!MarkPublished,
       Y!MarkFailed, Y!RecordOwnStory, Y!GivenUp, Y!PushLands, Y!LeaseEnds, Y!GapPasses,
       Y!TimePasses, Y!rows
<1>7. ASSUME NEW a \in Account, NEW id,
             \/ Y!TakeDown(a, id) \/ Y!RevokeArrives(a, id)
             \/ \E v \in Viewer, inside \in BOOLEAN : Y!RecordStoryView(a, id, v, inside)
      PROVE  UNCHANGED camp
  BY <1>7 DEF Y!TakeDown, Y!RevokeArrives, Y!RecordStoryView, Y!rows
<1> QED BY <1>1, <1>2, <1>3, <1>4, <1>5, <1>6, <1>7 DEF Y!Next

\* Three statements touch what is counted.
LEMMA TallySteps ==
  ASSUME Y!Next
  PROVE  \/ UNCHANGED <<views, frozen, counted>>
         \/ Y!Delete \/ Y!ExpireStories
         \/ \E a \in Account : \E id, v, inside :
                Y!RecordStoryView(a, id, v, inside)
<1>1. CASE \/ Y!ClaimCampaign \/ Y!RunStep \/ Y!MediaFails \/ Y!Stop \/ Y!Crash
           \/ Y!CampaignLeaseEnds \/ Y!RequestCancel \/ Y!RunNow
  BY <1>1 DEF Y!ClaimCampaign, Y!RunStep, Y!MediaFails, Y!Stop, Y!Crash, Y!CampaignLeaseEnds,
       Y!RequestCancel, Y!RunNow, Y!Start, Y!CancelRemaining, Y!Seed, Y!SeededBefore, Y!CancelSeen,
       Y!ClaimPublications, Y!BatchEnds, Y!CountPending, Y!Finish, Y!Stopped, Y!tally
<1>2. ASSUME NEW a \in Account,
             \/ Y!JobStep(a) \/ Y!PushLands(a) \/ Y!LeaseEnds(a) \/ Y!GapPasses(a) \/ Y!TimePasses(a)
      PROVE  UNCHANGED <<views, frozen, counted>>
  BY <1>2 DEF Y!JobStep, Y!Refuse, Y!Prepare, Y!PushAnswered, Y!PushFails, Y!MarkPublished,
       Y!MarkFailed, Y!RecordOwnStory, Y!GivenUp, Y!PushLands, Y!LeaseEnds, Y!GapPasses,
       Y!TimePasses, Y!tally
<1>3. ASSUME NEW a \in Account, NEW id, Y!TakeDown(a, id) \/ Y!RevokeArrives(a, id)
      PROVE  UNCHANGED <<views, frozen, counted>>
  BY <1>3 DEF Y!TakeDown, Y!RevokeArrives, Y!tally
<1> QED BY <1>1, <1>2, <1>3 DEF Y!Next

\* A view is one more of its status for the table and for the count, and is only
\* accepted while no figure of that status is final.
LEMMA ViewCounts ==
  ASSUME StoryInv, Reported, NEW a \in Account, NEW id, NEW v, NEW inside,
         Y!RecordStoryView(a, id, v, inside)
  PROVE  Reported'
<1>1. /\ Y!Figures(<<a, id>>) = {}
      /\ views' = views \cup {<<a, id, v>>} /\ counted' = counted \cup {<<a, id, v>>}
      /\ UNCHANGED <<camp, frozen>>
  BY DEF Y!RecordStoryView, Y!Accepts, Y!rows
<1> SUFFICES ASSUME camp.status # "gone", NEW k \in Status
             PROVE  \/ (Y!Figures(k) = {} /\ Y!On(views, k) = Y!On(counted, k))'
                    \/ (Y!Figures(k) = {<<k[1], k[2], Y!Cardinality(Y!On(counted, k))>>})'
  BY <1>1 DEF Reported
<1>2. Y!Figures(k)' = Y!Figures(k)
  BY <1>1 DEF Y!Figures, Y!On
<1>3. CASE k = <<a, id>>
  <2>1. Y!On(views, k) = Y!On(counted, k)
    BY <1>1, <1>3 DEF Reported
  <2>2. (Y!On(views, k) = Y!On(counted, k))'
    BY <1>1, <2>1 DEF Y!On
  <2> QED BY <1>1, <1>2, <1>3, <2>2
<1>4. CASE k # <<a, id>>
  <2>1. Y!On(views, k)' = Y!On(views, k) /\ Y!On(counted, k)' = Y!On(counted, k)
    BY <1>1, <1>4 DEF Y!On
  <2>2. \/ Y!Figures(k) = {} /\ Y!On(views, k) = Y!On(counted, k)
        \/ Y!Figures(k) = {<<k[1], k[2], Y!Cardinality(Y!On(counted, k))>>}
    BY DEF Reported
  <2> QED BY <1>2, <2>1, <2>2
<1> QED BY <1>3, <1>4

\* The sweep freezes a figure once, from viewers that are all there, and drops
\* only the viewers of what has a figure.
LEMMA SweepCounts ==
  ASSUME StoryInv, Reported, camp.status # "gone", Y!ExpireStories
  PROVE  Reported'
<1> DEFINE new == {k \in Y!Closing : Y!Figures(k) = {}}
<1>1. /\ frozen' = frozen \cup {<<k[1], k[2], Y!Cardinality(Y!On(views, k))>> : k \in new}
      /\ views' = {w \in views : ~\E s \in frozen' : <<s[1], s[2]>> = <<w[1], w[2]>>}
      /\ counted' = counted
  BY DEF Y!ExpireStories
<1>2. \A k \in new : k = <<k[1], k[2]>>
  BY DEF Y!Closing
<1> SUFFICES ASSUME NEW k \in Status
             PROVE  \/ (Y!Figures(k) = {} /\ Y!On(views, k) = Y!On(counted, k))'
                    \/ (Y!Figures(k) = {<<k[1], k[2], Y!Cardinality(Y!On(counted, k))>>})'
  BY DEF Reported
<1>3. k = <<k[1], k[2]>>
  BY DEF Status
<1>4. \/ Y!Figures(k) = {} /\ Y!On(views, k) = Y!On(counted, k)
      \/ Y!Figures(k) = {<<k[1], k[2], Y!Cardinality(Y!On(counted, k))>>}
  BY DEF Reported
<1>5. Y!On(counted, k)' = Y!On(counted, k)
  BY <1>1 DEF Y!On
<1>6. CASE k \in new
  <2>1. Y!Figures(k) = {} /\ Y!On(views, k) = Y!On(counted, k)
    BY <1>4, <1>6
  <2> DEFINE f == <<k[1], k[2], Y!Cardinality(Y!On(views, k))>>
  <2>2. f \in frozen'
    BY <1>1, <1>6
  <2>3. \A s \in frozen' : <<s[1], s[2]>> = k => s = f
    <3> SUFFICES ASSUME NEW s \in frozen', <<s[1], s[2]>> = k PROVE s = f
      OBVIOUS
    <3>1. s \notin frozen
      BY <2>1 DEF Y!Figures, Y!On
    <3>2. PICK q \in new : s = <<q[1], q[2], Y!Cardinality(Y!On(views, q))>>
      BY <1>1, <3>1
    <3>3. <<s[1], s[2]>> = <<q[1], q[2]>>
      BY <3>2
    <3>4. q = k
      BY <1>2, <3>3
    <3> QED BY <3>2, <3>4
  <2>4. <<f[1], f[2]>> = k
    BY <1>3
  <2> HIDE DEF f
  <2>5. Y!Figures(k)' = {f}
    BY <2>2, <2>3, <2>4 DEF Y!Figures, Y!On
  <2> QED BY <1>5, <2>1, <2>5 DEF f
<1>7. CASE k \notin new
  <2>1. Y!Figures(k)' = Y!Figures(k)
    <3>1. \A s : s \in frozen' /\ <<s[1], s[2]>> = k => s \in frozen
      <4> SUFFICES ASSUME NEW s \in frozen', <<s[1], s[2]>> = k, s \notin frozen PROVE FALSE
        OBVIOUS
      <4>1. PICK q \in new : s = <<q[1], q[2], Y!Cardinality(Y!On(views, q))>>
        BY <1>1
      <4>2. <<s[1], s[2]>> = <<q[1], q[2]>>
        BY <4>1
      <4>3. q = k
        BY <1>2, <4>2
      <4> QED BY <1>7, <4>3
    <3>2. frozen \subseteq frozen'
      BY <1>1
    <3> QED BY <3>1, <3>2 DEF Y!Figures, Y!On
  <2>2. CASE Y!Figures(k) = {} /\ Y!On(views, k) = Y!On(counted, k)
    <3>1. \A s \in frozen' : <<s[1], s[2]>> # k
      BY <2>1, <2>2 DEF Y!Figures, Y!On
    <3> DEFINE dropped == {w \in views : \E s \in frozen' : <<s[1], s[2]>> = <<w[1], w[2]>>}
    <3>2. \A w \in dropped : <<w[1], w[2]>> # k
      BY <3>1
    <3>3. views' = views \ dropped
      BY <1>1
    <3> HIDE DEF dropped
    <3>4. Y!On(views, k)' = Y!On(views, k)
      BY <3>2, <3>3 DEF Y!On
    <3> QED BY <1>5, <2>1, <2>2, <3>4
  <2> QED BY <1>4, <1>5, <2>1, <2>2
<1> QED BY <1>6, <1>7

LEMMA ReportStep == ASSUME StoryInv, Reported, [Y!Next]_(Y!vars) PROVE Reported'
<1>0. StoryTypes
  BY DEF StoryInv
<1>1. ASSUME UNCHANGED <<views, frozen, counted>>, camp'.status # "gone" => camp.status # "gone"
      PROVE  Reported'
  BY <1>1 DEF Reported, Y!Figures, Y!On
<1>2. CASE UNCHANGED Y!vars
  BY <1>1, <1>2 DEF Y!vars, Y!rows, Y!tally
<1>3. CASE Y!Next
  <2>1. CASE UNCHANGED <<views, frozen, counted>>
    BY <1>0, <1>1, <1>3, <2>1, GoneForGood
  <2>2. CASE Y!Delete
    BY <2>2 DEF Y!Delete, Reported
  <2>3. CASE Y!ExpireStories
    <3>1. CASE camp.status = "gone"
      BY <1>0, <1>3, <3>1, GoneForGood DEF Reported
    <3> QED BY <2>3, <3>1, SweepCounts
  <2> QED BY <1>3, <2>1, <2>2, <2>3, TallySteps, ViewCounts
<1> QED BY <1>2, <1>3

LEMMA OneCount == StoryInv /\ Reported => Y!ReportAddsUp
<1> SUFFICES ASSUME StoryInv, Reported, camp.status # "gone" PROVE Y!ReportAddsUp
  BY DEF Y!ReportAddsUp
<1>1. Y!Keys \subseteq Status
  BY DEF Y!Keys, Status, StoryInv, StoryTypes, Publication
<1>2. \A k \in Y!Keys : \/ Y!Figures(k) = {} /\ Y!On(views, k) = Y!On(counted, k)
                        \/ Y!Figures(k) = {<<k[1], k[2], Y!Cardinality(Y!On(counted, k))>>}
  BY <1>1 DEF Reported
<1>3. ASSUME NEW k \in Y!Keys PROVE Y!FigureOf(k) = {Y!Cardinality(Y!On(counted, k))}
  <2>1. CASE Y!Figures(k) = {} /\ Y!On(views, k) = Y!On(counted, k)
    BY <2>1 DEF Y!FigureOf
  <2>2. CASE Y!Figures(k) = {<<k[1], k[2], Y!Cardinality(Y!On(counted, k))>>}
    <3>1. Y!FigureOf(k) = {s[3] : s \in Y!Figures(k)}
      BY <2>2 DEF Y!FigureOf
    <3> QED BY <2>2, <3>1
  <2> QED BY <1>2, <2>1, <2>2
<1>4. ASSUME Y!UniqueKnown PROVE Y!People(views) = Y!People(counted)
  <2>1. \A k \in Y!Keys : Y!On(views, k) = Y!On(counted, k)
    BY <1>2, <1>4 DEF Y!UniqueKnown
  <2>2. \A w : <<w[1], w[2]>> \in Y!Keys => (w \in views <=> w \in counted)
    BY <2>1 DEF Y!On
  <2> QED BY <2>2 DEF Y!People
<1> QED BY <1>3, <1>4 DEF Y!ReportAddsUp

-----------------------------------------------------------------------------
(***************************************************************************)
(* A campaign that repeats, for any calendar whose months have 28 to 31    *)
(* days, any rule and any delay: the next run is the first instant of the  *)
(* rule after the run before it was over. The code never searches: it      *)
(* takes the candidate of the day, week or month at hand, or the one after *)
(* it. Days and months are found by least elements of sets of numbers.     *)
(* Its variables, by their names there:                                    *)
(***************************************************************************)
rule == x1
due == x2
last == x3

USE DEF rule, due, last

\* A nonempty set of numbers has a least one.
LEMMA NatMin ==
  ASSUME NEW T \in SUBSET Nat, T # {}
  PROVE  \E n \in T : \A k \in T : n <= k
<1> DEFINE Less == {ss \in Nat \X Nat : ss[1] < ss[2]}
<1>1. IsWellFoundedOn(Less, Nat)
  BY NatLessThanWellFounded DEF OpToRel
<1>2. \A i, j \in Nat : i < j => <<i, j>> \in Less
  OBVIOUS
<1> HIDE DEF Less
<1>3. PICK n \in T : \A k \in T : ~(<<k, n>> \in Less)
  BY <1>1, WFMin
<1>4. \A k \in T : ~(k < n)
  BY <1>2, <1>3
<1> QED BY <1>4

\* The months follow one another: least counterexample.
LEMMA MonthsInOrder ==
  \A i, j \in 1..Months : i < j => Starts[i] + 28 <= Starts[j]
<1>0. /\ Months \in Nat \ {0} /\ Starts \in [1..Months -> Nat]
      /\ \A m \in 1..(Months - 1) : Starts[m + 1] - Starts[m] \in 28..31
  BY RecurrenceAssumption DEF R!RecurrenceAssumption, R!Month
<1> DEFINE Bad == {j \in 1..Months : \E i \in 1..(j - 1) : ~(Starts[i] + 28 <= Starts[j])}
<1>1. Bad = {}
  <2> SUFFICES ASSUME Bad # {} PROVE FALSE
    OBVIOUS
  <2>1. Bad \in SUBSET Nat
    BY <1>0
  <2>2. PICK j \in Bad : \A k \in Bad : j <= k
    BY <2>1, NatMin
  <2>3. PICK i \in 1..(j - 1) : ~(Starts[i] + 28 <= Starts[j])
    BY <2>2
  <2>4. j \in 1..Months /\ j - 1 \in 1..Months /\ j - 1 \in 1..(Months - 1) /\ i \in 1..Months
    BY <1>0, <2>2, <2>3
  <2>5. Starts[j - 1] + 28 <= Starts[j]
    <3>1. Starts[(j - 1) + 1] - Starts[j - 1] \in 28..31
      BY <1>0, <2>4
    <3>2. (j - 1) + 1 = j
      BY <2>4
    <3> QED BY <1>0, <2>4, <3>1, <3>2
  <2>6. CASE i = j - 1
    BY <2>3, <2>5, <2>6
  <2>7. CASE i < j - 1
    <3>1. j - 1 \notin Bad
      BY <1>0, <2>2, <2>4
    <3>2. Starts[i] + 28 <= Starts[j - 1]
      BY <2>3, <2>4, <2>7, <3>1
    <3>3. Starts[i] \in Nat /\ Starts[j] \in Nat /\ Starts[j - 1] \in Nat
      BY <1>0, <2>4
    <3> QED BY <2>3, <2>5, <3>2, <3>3
  <2> QED BY <2>3, <2>4, <2>6, <2>7
<1> SUFFICES ASSUME NEW i \in 1..Months, NEW j \in 1..Months, i < j
             PROVE  Starts[i] + 28 <= Starts[j]
  OBVIOUS
<1>2. j \notin Bad
  BY <1>1
<1>3. i \in 1..(j - 1)
  BY <1>0
<1> QED BY <1>2, <1>3

\* The month of a day, and no other, begins before it and ends after it.
LEMMA TheMonth ==
  ASSUME NEW d \in Nat, d < Starts[Months]
  PROVE  /\ R!MonthOf(d) \in 1..(Months - 1)
         /\ Starts[R!MonthOf(d)] <= d /\ d < Starts[R!MonthOf(d) + 1]
<1>0. Months \in Nat \ {0} /\ Starts \in [1..Months -> Nat] /\ Starts[1] = 0
  BY RecurrenceAssumption DEF R!RecurrenceAssumption, R!Month
<1> DEFINE After == {n \in 1..Months : d < Starts[n]}
<1>1. After \in SUBSET Nat /\ Months \in After
  BY <1>0
<1>2. PICK n \in After : \A k \in After : n <= k
  BY <1>1, NatMin
<1>3. n # 1
  BY <1>0, <1>2
<1>4. n - 1 \in 1..(Months - 1) /\ (n - 1) + 1 = n /\ n - 1 \in 1..Months /\ n - 1 \notin After
  BY <1>0, <1>2, <1>3
<1>5. Starts[n - 1] <= d /\ d < Starts[(n - 1) + 1]
  BY <1>0, <1>2, <1>4
<1>6. \E m \in 1..(Months - 1) : Starts[m] <= d /\ d < Starts[m + 1]
  BY <1>4, <1>5
<1> QED BY <1>6 DEF R!MonthOf

LEMMA MonthsGrow ==
  ASSUME NEW d \in Nat, NEW e \in Nat, d < Starts[Months], e < Starts[Months], d <= e
  PROVE  R!MonthOf(d) <= R!MonthOf(e)
<1> DEFINE m == R!MonthOf(d)
           n == R!MonthOf(e)
<1>0. Months \in Nat \ {0} /\ Starts \in [1..Months -> Nat]
  BY RecurrenceAssumption DEF R!RecurrenceAssumption, R!Month
<1>1. m \in 1..(Months - 1) /\ n \in 1..(Months - 1) /\ Starts[m] <= d /\ e < Starts[n + 1]
  BY TheMonth
<1> HIDE DEF m, n
<1> SUFFICES ASSUME n < m PROVE FALSE
  BY <1>1 DEF m, n
<1>2. n + 1 \in 1..Months /\ m \in 1..Months /\ n + 1 <= m
  BY <1>0, <1>1
<1>3. Starts[n + 1] <= Starts[m]
  <2>1. CASE n + 1 = m
    BY <1>0, <1>2, <2>1
  <2>2. CASE n + 1 < m
    BY <1>0, <1>2, <2>2, MonthsInOrder
  <2> QED BY <1>2, <2>1, <2>2
<1> QED BY <1>0, <1>1, <1>2, <1>3

\* The day of a monthly rule in month m.
RuleDay(r, m) == Starts[m] + (IF r.day > R!DaysIn(m) THEN R!DaysIn(m) ELSE r.day) - 1

LEMMA DayOfMonth ==
  ASSUME NEW r \in Rule, NEW m \in 1..(Months - 1)
  PROVE  /\ RuleDay(r, m) \in Nat
         /\ Starts[m] <= RuleDay(r, m) /\ RuleDay(r, m) < Starts[m + 1]
         /\ RuleDay(r, m) < Starts[Months]
         /\ R!MonthOf(RuleDay(r, m)) = m
<1> DEFINE len == R!DaysIn(m)
           day == r.day
<1>0. /\ Months \in Nat \ {0} /\ Starts \in [1..Months -> Nat] /\ day \in 1..31
      /\ len \in 28..31 /\ m \in 1..Months /\ m + 1 \in 1..Months
  BY RecurrenceAssumption DEF R!RecurrenceAssumption, R!Month, R!DaysIn
<1>1. Starts[m] \in Nat /\ Starts[m + 1] \in Nat /\ Starts[m + 1] = Starts[m] + len
      /\ Starts[Months] \in Nat
  BY <1>0 DEF R!DaysIn
<1>2. RuleDay(r, m) \in Nat /\ Starts[m] <= RuleDay(r, m) /\ RuleDay(r, m) < Starts[m + 1]
  <2> DEFINE first == Starts[m]
             next == Starts[m + 1]
             d == RuleDay(r, m)
  <2>1. d = IF day > len THEN first + len - 1 ELSE first + day - 1
    BY DEF RuleDay
  <2>2. first \in Nat /\ next = first + len /\ day \in 1..31 /\ len \in 28..31
    BY <1>0, <1>1
  <2> HIDE DEF len, day, first, next, d
  <2>3. d \in Nat /\ first <= d /\ d < next
    BY <2>1, <2>2
  <2> QED BY <2>3 DEF first, next, d
<1> HIDE DEF len, day
<1>3. Starts[m + 1] <= Starts[Months]
  <2>1. CASE m + 1 = Months
    BY <1>1, <2>1
  <2>2. CASE m + 1 < Months
    BY <1>0, <1>1, <2>2, MonthsInOrder
  <2> QED BY <1>0, <2>1, <2>2
<1>4. RuleDay(r, m) < Starts[Months]
  BY <1>1, <1>2, <1>3
<1> DEFINE d == RuleDay(r, m)
           n == R!MonthOf(d)
<1>5. n \in 1..(Months - 1) /\ Starts[n] <= d /\ d < Starts[n + 1]
  BY <1>2, <1>4, TheMonth
<1> HIDE DEF d, n
<1>6. ~(n < m)
  <2> SUFFICES ASSUME n < m PROVE FALSE
    OBVIOUS
  <2>1. n + 1 \in 1..Months /\ (n + 1 = m \/ n + 1 < m)
    BY <1>0, <1>5
  <2>2. Starts[n + 1] <= Starts[m]
    BY <1>0, <1>1, <2>1, MonthsInOrder
  <2> QED BY <1>0, <1>1, <1>2, <1>5, <2>1, <2>2 DEF d
<1>7. ~(m < n)
  <2> SUFFICES ASSUME m < n PROVE FALSE
    OBVIOUS
  <2>1. n \in 1..Months /\ (m + 1 = n \/ m + 1 < n)
    BY <1>0, <1>5
  <2>2. Starts[m + 1] <= Starts[n]
    BY <1>0, <1>1, <2>1, MonthsInOrder
  <2> QED BY <1>0, <1>1, <1>2, <1>5, <2>1, <2>2 DEF d
<1>8. n = m
  BY <1>0, <1>5, <1>6, <1>7
<1> QED BY <1>2, <1>4, <1>8 DEF d, n

\* A monthly rule falls on one day of each month.
LEMMA FallsMonthly ==
  ASSUME NEW r \in Rule, r.frequency = "monthly", NEW d \in Nat, d < Starts[Months]
  PROVE  R!Falls(r, d) <=> d = RuleDay(r, R!MonthOf(d))
<1> DEFINE m == R!MonthOf(d)
           len == R!DaysIn(m)
           day == r.day
<1>1. m \in 1..(Months - 1) /\ Starts[m] <= d /\ d < Starts[m + 1]
  BY TheMonth
<1>2. /\ Starts \in [1..Months -> Nat] /\ day \in 1..31 /\ Months \in Nat \ {0}
  BY RecurrenceAssumption DEF R!RecurrenceAssumption, R!Month
<1>3. R!Falls(r, d) <=> \/ d - Starts[m] + 1 = day
                        \/ day > len /\ d - Starts[m] + 1 = len
  BY DEF R!Falls
<1>4. RuleDay(r, m) = IF day > len THEN Starts[m] + len - 1 ELSE Starts[m] + day - 1
  BY DEF RuleDay
<1> DEFINE first == Starts[m]
<1>5. first \in Nat /\ Starts[m + 1] = first + len /\ len \in Int
  <2> HIDE DEF m
  <2>1. Starts[m] \in Nat /\ Starts[m + 1] \in Nat
    BY <1>1, <1>2
  <2> QED BY <2>1 DEF R!DaysIn
<1>6. R!Falls(r, d) <=> d = RuleDay(r, m)
  <2>1. d < first + len
    BY <1>1, <1>5
  <2> HIDE DEF m, len, day, first
  <2>2. R!Falls(r, d) <=> \/ d - first + 1 = day
                          \/ day > len /\ d - first + 1 = len
    BY <1>3 DEF first
  <2>3. RuleDay(r, m) = IF day > len THEN first + len - 1 ELSE first + day - 1
    BY <1>4 DEF first
  <2>4. CASE day > len
    BY <1>2, <1>5, <2>1, <2>2, <2>3, <2>4
  <2>5. CASE ~(day > len)
    BY <1>2, <1>5, <2>2, <2>3, <2>5
  <2> QED BY <2>4, <2>5
<1> QED BY <1>6

LEMMA RuleIs ==
  ASSUME NEW r \in Rule
  PROVE  /\ r.minute \in Nat /\ r.minute < 1440
         /\ r.weekday \in 0..6 /\ FirstWeekday \in 0..6
         /\ r.frequency \in {"daily", "weekly", "monthly"} /\ r.until \in Int
<1> DEFINE min == r.minute
<1>1. min \in 0..(1440 - 1)
  BY RecurrenceAssumption DEF R!RecurrenceAssumption, R!MinutesADay
<1>2. r.weekday \in 0..6 /\ FirstWeekday \in 0..6
  BY RecurrenceAssumption DEF R!RecurrenceAssumption
<1>3. r.frequency \in {"daily", "weekly", "monthly"} /\ r.until \in Int
  BY RecurrenceAssumption DEF R!RecurrenceAssumption
<1>4. min \in Nat /\ min < 1440
  <2> HIDE DEF min
  <2> QED BY <1>1
<1> QED BY <1>2, <1>3, <1>4

\* The first instant of the rule after an instant.
FirstIs(r, over, i) ==
  /\ i \in R!Occurrences(r) /\ i > over
  /\ \A j \in R!Occurrences(r) : j > over => i <= j

\* The calendar goes on for a month after the day of a run.
InCalendar(over) == over \in Nat /\ Months > 1 /\ R!DayOf(over) < Starts[Months - 1]

LEMMA DayIs ==
  ASSUME NEW over, InCalendar(over)
  PROVE  /\ R!DayOf(over) \in Nat /\ R!DayOf(over) + 28 < Starts[Months]
         /\ R!DayOf(over) * 1440 <= over /\ over < R!DayOf(over) * 1440 + 1440
         /\ Starts[Months] \in Nat
<1> DEFINE d == over \div 1440
<1>1. d \in Nat /\ d * 1440 <= over /\ over < d * 1440 + 1440
  BY DEF InCalendar
<1>2. R!DayOf(over) = d
  BY DEF R!DayOf, R!MinutesADay
<1> HIDE DEF d
<1>3. /\ Months - 1 \in 1..Months /\ Months \in 1..Months /\ Months - 1 < Months
      /\ Starts \in [1..Months -> Nat]
  BY RecurrenceAssumption DEF InCalendar, R!RecurrenceAssumption, R!Month
<1>4. Starts[Months - 1] \in Nat /\ Starts[Months] \in Nat
  BY <1>3
<1>5. Starts[Months - 1] + 28 <= Starts[Months]
  BY <1>3, MonthsInOrder
<1>6. d < Starts[Months - 1]
  BY <1>2 DEF InCalendar
<1> QED BY <1>1, <1>2, <1>4, <1>5, <1>6

\* An instant of the rule is the first if no day of the rule from the day of
\* the run up to it has an instant after the run.
LEMMA FirstDay ==
  ASSUME NEW r \in Rule, NEW over, InCalendar(over),
         NEW D \in Nat, D < Starts[Months], R!Falls(r, D), D * 1440 + r.minute > over,
         \A d \in Nat : R!DayOf(over) <= d /\ d < D /\ d < Starts[Months] /\ R!Falls(r, d) =>
                            ~(d * 1440 + r.minute > over)
  PROVE  FirstIs(r, over, D * 1440 + r.minute)
<1> DEFINE min == r.minute
           d0 == R!DayOf(over)
<1>1. /\ Starts[Months] \in Nat /\ d0 \in Nat /\ over \in Nat /\ min \in Nat /\ min < 1440
      /\ d0 * 1440 <= over
  BY DayIs, RuleIs DEF InCalendar
<1>2. R!Occurrences(r) = {d * 1440 + min : d \in {e \in 0..(Starts[Months] - 1) : R!Falls(r, e)}}
  BY DEF R!Occurrences, R!MinutesADay
<1>3. D \in 0..(Starts[Months] - 1)
  BY <1>1
<1>4. D * 1440 + min \in R!Occurrences(r)
  BY <1>2, <1>3
<1>5. ASSUME NEW j \in R!Occurrences(r), j > over PROVE D * 1440 + min <= j
  <2>1. PICK d \in 0..(Starts[Months] - 1) : R!Falls(r, d) /\ j = d * 1440 + min
    BY <1>2
  <2>2. d \in Nat /\ d < Starts[Months]
    BY <1>1
  <2>3. d0 <= d
    <3> HIDE DEF d0, min
    <3> QED BY <1>1, <1>5, <2>1, <2>2
  <2>4. ~(d < D)
    BY <1>5, <2>1, <2>2, <2>3
  <2> HIDE DEF d0, min
  <2> QED BY <1>1, <2>1, <2>2, <2>4
<1> QED BY <1>4, <1>5 DEF FirstIs

LEMMA DailyFirst ==
  ASSUME NEW r \in Rule, r.frequency = "daily", NEW over, InCalendar(over)
  PROVE  FirstIs(r, over, R!NextDaily(r, over))
<1> DEFINE min == r.minute
           d0 == R!DayOf(over)
<1>1. /\ Starts[Months] \in Nat /\ d0 \in Nat /\ over \in Nat /\ min \in Nat /\ min < 1440
      /\ d0 + 28 < Starts[Months] /\ d0 * 1440 <= over /\ over < d0 * 1440 + 1440
  BY DayIs, RuleIs DEF InCalendar
<1>2. \A d : R!Falls(r, d)
  BY DEF R!Falls
<1>3. R!NextDaily(r, over) = IF d0 * 1440 + min > over THEN d0 * 1440 + min
                             ELSE d0 * 1440 + min + 1440
  BY DEF R!NextDaily, R!AtTime, R!MinutesADay
<1>4. CASE d0 * 1440 + min > over
  <2>1. d0 < Starts[Months]
    BY <1>1
  <2>2. \A d \in Nat : ~(d0 <= d /\ d < d0)
    BY <1>1
  <2>3. FirstIs(r, over, d0 * 1440 + min)
    BY <1>1, <1>2, <1>4, <2>1, <2>2, FirstDay
  <2> QED BY <1>3, <1>4, <2>3
<1>5. CASE ~(d0 * 1440 + min > over)
  <2> DEFINE D == d0 + 1
  <2>1. D \in Nat /\ D < Starts[Months] /\ D * 1440 + min > over
        /\ D * 1440 + min = d0 * 1440 + min + 1440
    <3> HIDE DEF d0, min
    <3> QED BY <1>1
  <2>2. \A d \in Nat : d0 <= d /\ d < D => d = d0
    BY <1>1
  <2>3. FirstIs(r, over, D * 1440 + min)
    <3> HIDE DEF D
    <3> QED BY <1>2, <1>5, <2>1, <2>2, FirstDay
  <2> QED BY <1>3, <1>5, <2>1, <2>3
<1> QED BY <1>4, <1>5

\* Days from day d0 to the next one of weekday w.
LEMMA Week ==
  ASSUME NEW d0 \in Nat, NEW w \in 0..6, NEW f \in 0..6,
         NEW delta, delta = (w - ((d0 + f) % 7) + 7) % 7
  PROVE  /\ delta \in 0..6 /\ (d0 + delta + f) % 7 = w /\ (d0 + delta + 7 + f) % 7 = w
         /\ \A d \in Nat : d0 <= d /\ d < d0 + delta + 7 /\ (d + f) % 7 = w => d = d0 + delta
<1> DEFINE s == d0 + f
           q == s \div 7
           v == s % 7
<1>1. s \in Nat /\ q \in Nat /\ v \in 0..6 /\ s = 7 * q + v
  OBVIOUS
<1>0. delta = (w - v + 7) % 7
  OBVIOUS
<1> HIDE DEF q, v
<1>2. delta \in 0..6 /\ (delta = w - v \/ delta = w - v + 7)
  <2>1. CASE w >= v
    <3>1. w - v + 7 = 7 * 1 + (w - v) /\ w - v \in 0..6
      BY <1>1, <2>1
    <3> QED BY <1>0, <3>1
  <2>2. CASE w < v
    <3>1. w - v + 7 \in 0..6
      BY <1>1, <2>2
    <3> QED BY <1>0, <3>1
  <2> QED BY <1>1, <2>1, <2>2
<1>3. \A k \in Nat, x \in 0..6 : (7 * k + x) % 7 = x
  OBVIOUS
<1>4. PICK k \in Nat : d0 + delta + f = 7 * k + w
  <2>1. CASE delta = w - v
    <3>1. d0 + delta + f = 7 * q + w
      BY <1>1, <2>1
    <3> QED BY <1>1, <3>1
  <2>2. CASE delta = w - v + 7
    <3>1. d0 + delta + f = 7 * (q + 1) + w /\ q + 1 \in Nat
      BY <1>1, <2>2
    <3> QED BY <3>1
  <2> QED BY <1>2, <2>1, <2>2
<1>5. (d0 + delta + f) % 7 = w
  BY <1>3, <1>4
<1>6. (d0 + delta + 7 + f) % 7 = w
  <2>1. d0 + delta + 7 + f = 7 * (k + 1) + w /\ k + 1 \in Nat
    BY <1>2, <1>4
  <2> QED BY <1>3, <2>1
<1>7. ASSUME NEW d \in Nat, d0 <= d, d < d0 + delta + 7, (d + f) % 7 = w
      PROVE  d = d0 + delta
  <2> DEFINE g == d + f
             p == g \div 7
  <2>1. p \in Nat /\ g = 7 * p + w
    BY <1>7
  <2> HIDE DEF p
  <2>2. d - (d0 + delta) = 7 * (p - k)
    BY <1>2, <1>4, <2>1
  <2>3. d - (d0 + delta) < 7 /\ -7 < d - (d0 + delta)
    BY <1>2, <1>7
  <2> QED BY <1>2, <2>1, <2>2, <2>3
<1> QED BY <1>2, <1>5, <1>6, <1>7

LEMMA WeeklyFirst ==
  ASSUME NEW r \in Rule, r.frequency = "weekly", NEW over, InCalendar(over)
  PROVE  FirstIs(r, over, R!NextWeekly(r, over))
<1> DEFINE min == r.minute
           w == r.weekday
           f == FirstWeekday
           d0 == R!DayOf(over)
           delta == (w - ((d0 + f) % 7) + 7) % 7
           D == d0 + delta
<1>1. /\ Starts[Months] \in Nat /\ d0 \in Nat /\ over \in Nat /\ min \in Nat /\ min < 1440
      /\ d0 + 28 < Starts[Months] /\ d0 * 1440 <= over /\ over < d0 * 1440 + 1440
      /\ w \in 0..6 /\ f \in 0..6
  BY DayIs, RuleIs DEF InCalendar
<1>2. \A d : R!Falls(r, d) <=> (d + f) % 7 = w
  BY DEF R!Falls, R!Weekday
<1>3. /\ delta \in 0..6 /\ (D + f) % 7 = w /\ (D + 7 + f) % 7 = w
      /\ \A d \in Nat : d0 <= d /\ d < D + 7 /\ (d + f) % 7 = w => d = D
  <2>1. delta = (w - ((d0 + f) % 7) + 7) % 7
    OBVIOUS
  <2> HIDE DEF d0, w, f, delta
  <2>2. d0 \in Nat /\ w \in 0..6 /\ f \in 0..6
    BY <1>1
  <2>3. /\ delta \in 0..6 /\ (d0 + delta + f) % 7 = w /\ (d0 + delta + 7 + f) % 7 = w
        /\ \A d \in Nat : d0 <= d /\ d < d0 + delta + 7 /\ (d + f) % 7 = w => d = d0 + delta
    BY <2>1, <2>2, Week
  <2> QED BY <2>3
<1>4. R!NextWeekly(r, over) = IF d0 * 1440 + min + delta * 1440 > over
                              THEN d0 * 1440 + min + delta * 1440
                              ELSE d0 * 1440 + min + delta * 1440 + 7 * 1440
  BY DEF R!NextWeekly, R!AtTime, R!MinutesADay, R!Weekday
<1> HIDE DEF delta
<1>5. /\ D \in Nat /\ D < Starts[Months] /\ D + 7 \in Nat /\ D + 7 < Starts[Months]
      /\ d0 * 1440 + min + delta * 1440 = D * 1440 + min
      /\ d0 * 1440 + min + delta * 1440 + 7 * 1440 = (D + 7) * 1440 + min
      /\ (D + 7) * 1440 + min > over
  <2> HIDE DEF d0, min
  <2> QED BY <1>1, <1>3
<1> HIDE DEF D
<1>6. CASE D * 1440 + min > over
  <2>1. \A d \in Nat : ~(d0 <= d /\ d < D /\ (d + f) % 7 = w)
    BY <1>1, <1>3, <1>5
  <2>2. FirstIs(r, over, D * 1440 + min)
    BY <1>2, <1>3, <1>5, <1>6, <2>1, FirstDay
  <2> QED BY <1>4, <1>5, <1>6, <2>2
<1>7. CASE ~(D * 1440 + min > over)
  <2> DEFINE E == D + 7
  <2>1. \A d \in Nat : d0 <= d /\ d < E /\ (d + f) % 7 = w => d = D
    BY <1>3
  <2>2. E \in Nat /\ E < Starts[Months] /\ E * 1440 + min > over /\ R!Falls(r, E)
    BY <1>2, <1>3, <1>5
  <2> HIDE DEF E
  <2>3. FirstIs(r, over, E * 1440 + min)
    BY <1>2, <1>7, <2>1, <2>2, FirstDay
  <2> QED BY <1>4, <1>5, <1>7, <2>3 DEF E
<1> QED BY <1>6, <1>7

LEMMA MonthlyFirst ==
  ASSUME NEW r \in Rule, r.frequency = "monthly", NEW over, InCalendar(over)
  PROVE  FirstIs(r, over, R!NextMonthly(r, over))
<1> DEFINE min == r.minute
           d0 == R!DayOf(over)
           m == R!MonthOf(d0)
           D == RuleDay(r, m)
           E == RuleDay(r, m + 1)
<1>1. /\ Starts[Months] \in Nat /\ d0 \in Nat /\ over \in Nat /\ min \in Nat /\ min < 1440
      /\ d0 < Starts[Months] /\ d0 * 1440 <= over /\ over < d0 * 1440 + 1440
      /\ d0 < Starts[Months - 1]
  BY DayIs, RuleIs DEF InCalendar
<1>2. m \in 1..(Months - 1) /\ Starts[m] <= d0 /\ d0 < Starts[m + 1]
  BY <1>1, TheMonth
<1>3. Months \in Nat /\ Starts \in [1..Months -> Nat]
  BY RecurrenceAssumption DEF R!RecurrenceAssumption, R!Month
<1>4. R!NextMonthly(r, over) = IF D * 1440 + min > over THEN D * 1440 + min ELSE E * 1440 + min
  BY DEF R!NextMonthly, R!MonthlyOn, R!MinutesADay, RuleDay
<1> HIDE DEF d0, min, m
<1>5. m + 1 \in 1..(Months - 1)
  <2> SUFFICES ASSUME m = Months - 1 PROVE FALSE
    BY <1>2, <1>3
  <2>1. Months - 1 \in 1..Months
    BY <1>2, <1>3
  <2>2. Starts[Months - 1] \in Nat
    BY <1>3, <2>1
  <2> QED BY <1>1, <1>2, <2>2
<1>6. /\ D \in Nat /\ Starts[m] <= D /\ D < Starts[m + 1] /\ D < Starts[Months]
      /\ E \in Nat /\ Starts[m + 1] <= E /\ E < Starts[Months]
      /\ R!MonthOf(D) = m /\ R!MonthOf(E) = m + 1
  BY <1>2, <1>5, DayOfMonth
<1>7. R!Falls(r, D) /\ R!Falls(r, E)
  BY <1>6, FallsMonthly
<1> HIDE DEF D, E
<1>8. Starts[m + 1] \in Nat
  BY <1>3, <1>5
<1>9. CASE D * 1440 + min > over
  <2>1. \A d \in Nat : d0 <= d /\ d < D /\ d < Starts[Months] => ~R!Falls(r, d)
    <3> SUFFICES ASSUME NEW d \in Nat, d0 <= d, d < D, d < Starts[Months], R!Falls(r, d)
                 PROVE  FALSE
      OBVIOUS
    <3>1. m <= R!MonthOf(d) /\ R!MonthOf(d) <= m /\ R!MonthOf(d) \in 1..(Months - 1)
      BY <1>1, <1>6, MonthsGrow, TheMonth DEF m
    <3>2. R!MonthOf(d) = m
      BY <1>2, <3>1
    <3>3. d = D
      BY <3>2, FallsMonthly DEF D
    <3> QED BY <1>6, <3>3
  <2>2. FirstIs(r, over, D * 1440 + min)
    BY <1>6, <1>7, <1>9, <2>1, FirstDay DEF min, d0
  <2> QED BY <1>4, <1>9, <2>2
<1>10. CASE ~(D * 1440 + min > over)
  <2>1. E * 1440 + min > over
    <3>1. d0 < E
      BY <1>1, <1>2, <1>6, <1>8
    <3> QED BY <1>1, <1>6, <3>1
  <2>2. \A d \in Nat : d0 <= d /\ d < E /\ d < Starts[Months] /\ R!Falls(r, d) => d = D
    <3> SUFFICES ASSUME NEW d \in Nat, d0 <= d, d < E, d < Starts[Months], R!Falls(r, d)
                 PROVE  d = D
      OBVIOUS
    <3>1. m <= R!MonthOf(d) /\ R!MonthOf(d) <= m + 1 /\ R!MonthOf(d) \in 1..(Months - 1)
      BY <1>1, <1>6, MonthsGrow, TheMonth DEF m
    <3>2. R!MonthOf(d) # m + 1
      <4> SUFFICES ASSUME R!MonthOf(d) = m + 1 PROVE FALSE
        OBVIOUS
      <4>1. d = E
        BY FallsMonthly DEF E
      <4> QED BY <1>6, <4>1
    <3>3. R!MonthOf(d) = m
      BY <1>2, <3>1, <3>2
    <3> QED BY <3>3, FallsMonthly DEF D
  <2>3. FirstIs(r, over, E * 1440 + min)
    BY <1>6, <1>7, <1>10, <2>1, <2>2, FirstDay DEF min, d0
  <2> QED BY <1>4, <1>10, <2>3
<1> QED BY <1>9, <1>10

\* NextOccurrence, without a search, is the first instant of the rule.
LEMMA NextIsFirst ==
  ASSUME NEW r \in Rule, NEW over, InCalendar(over)
  PROVE  FirstIs(r, over, R!NextOccurrence(r, over))
<1>1. CASE r.frequency = "daily"
  BY <1>1, DailyFirst DEF R!NextOccurrence
<1>2. CASE r.frequency = "weekly"
  BY <1>2, WeeklyFirst DEF R!NextOccurrence
<1>3. CASE r.frequency = "monthly"
  BY <1>3, MonthlyFirst DEF R!NextOccurrence
<1> QED BY <1>1, <1>2, <1>3, RuleIs

LEMMA Instants == ASSUME NEW r \in Rule PROVE R!Occurrences(r) \subseteq Nat
<1> SUFFICES ASSUME NEW i \in R!Occurrences(r) PROVE i \in Nat
  OBVIOUS
<1> DEFINE min == r.minute
<1>1. min \in Nat
  BY RuleIs
<1>2. Starts[Months] \in Nat
  BY RecurrenceAssumption DEF R!RecurrenceAssumption, R!Month
<1>3. PICK d \in 0..(Starts[Months] - 1) : i = d * 1440 + min
  BY DEF R!Occurrences, R!MinutesADay
<1>4. d \in Nat
  BY <1>2
<1> HIDE DEF min
<1> QED BY <1>1, <1>3, <1>4

LEMMA SpawnedIsFirst ==
  ASSUME NEW r \in Rule, NEW over, InCalendar(over)
  PROVE  /\ R!FirstAfter(r, over, R!Spawned(r, over))
         /\ R!Spawned(r, over) \in Nat \cup {None}
<1> DEFINE x == R!NextOccurrence(r, over)
           until == r.until
<1>1. x \in R!Occurrences(r) /\ x > over /\ \A j \in R!Occurrences(r) : j > over => x <= j
  BY NextIsFirst DEF FirstIs
<1>2. x \in Nat /\ R!Occurrences(r) \subseteq Nat /\ until \in Int
  BY <1>1, Instants, RuleIs
<1>3. R!Spawned(r, over) = IF x > until THEN None ELSE x
  BY DEF R!Spawned
<1>4. None \notin Int
  BY RecurrenceAssumption DEF R!RecurrenceAssumption
<1> DEFINE left == {i \in R!Occurrences(r) : i > over /\ i <= until}
<1>5. \A next : R!FirstAfter(r, over, next) <=>
          IF next = None THEN left = {} ELSE next \in left /\ \A i \in left : next <= i
  BY DEF R!FirstAfter
<1> HIDE DEF x, until
<1>6. CASE x > until
  <2>1. left = {}
    <3> SUFFICES ASSUME NEW i \in left PROVE FALSE
      OBVIOUS
    <3>1. x <= i /\ i <= until /\ i \in Nat
      BY <1>1, <1>2
    <3> QED BY <1>2, <1>6, <3>1
  <2> QED BY <1>3, <1>5, <1>6, <2>1
<1>7. CASE ~(x > until)
  <2>1. x \in left /\ \A i \in left : x <= i
    BY <1>1, <1>2, <1>7
  <2>2. x # None
    BY <1>2, <1>4
  <2>3. R!Spawned(r, over) = x
    BY <1>3, <1>7
  <2> HIDE DEF left
  <2> QED BY <1>2, <1>5, <2>1, <2>2, <2>3
<1> QED BY <1>6, <1>7

RecurrenceInv == rule \in Rule /\ due \in Nat \cup {None} /\ Months > 1

LEMMA RecurrenceInit == R!Init => RecurrenceInv
<1> SUFFICES ASSUME R!Init PROVE RecurrenceInv
  OBVIOUS
<1>1. rule \in Rule
  BY DEF R!Init
<1>2. PICK m \in R!Month \ {Months} : due = Starts[m] * 1440 + rule.minute
  BY DEF R!Init, R!MinutesADay
<1>3. Months \in Nat \ {0} /\ Starts \in [1..Months -> Nat] /\ m \in 1..Months /\ m # Months
  BY <1>2, RecurrenceAssumption DEF R!RecurrenceAssumption, R!Month
<1> DEFINE min == rule.minute
           start == Starts[m]
<1>4. min \in Nat /\ start \in Nat /\ due = start * 1440 + min
  BY <1>1, <1>2, <1>3, RuleIs
<1>5. Months > 1
  BY <1>3
<1>6. due \in Nat
  <2> HIDE DEF min, start
  <2> QED BY <1>4
<1> QED BY <1>1, <1>5, <1>6 DEF RecurrenceInv

\* Each run that is planned is the first after the one before it.
LEMMA RecurrenceStep ==
  ASSUME RecurrenceInv, [R!Next]_(R!vars)
  PROVE  RecurrenceInv' /\ (R!Next => R!IsTheFirst)
<1>1. ASSUME R!Next PROVE RecurrenceInv' /\ R!IsTheFirst
  <2>1. PICK late \in Lateness : R!SpawnNextOccurrence(late)
    BY <1>1 DEF R!Next
  <2>2. due \in Nat /\ late \in Nat /\ rule \in Rule
    BY <2>1, RecurrenceAssumption DEF R!RecurrenceAssumption, R!SpawnNextOccurrence, RecurrenceInv
  <2>3. InCalendar(due + late)
    BY <2>1, <2>2 DEF R!SpawnNextOccurrence, InCalendar, RecurrenceInv
  <2>4. last' = due + late /\ due' = R!Spawned(rule, due + late) /\ rule' = rule
    BY <2>1 DEF R!SpawnNextOccurrence
  <2>5. R!FirstAfter(rule, last', due') /\ due' \in Nat \cup {None}
    BY <2>2, <2>3, <2>4, SpawnedIsFirst
  <2> QED BY <2>2, <2>4, <2>5 DEF RecurrenceInv, R!IsTheFirst
<1>2. CASE UNCHANGED R!vars
  BY <1>1, <1>2 DEF R!vars, RecurrenceInv
<1> QED BY <1>1, <1>2

-----------------------------------------------------------------------------
(* The composition: a step is one of the component that part names, and      *)
(* keeps that component's invariant.                                         *)

OutreachInv ==
  /\ part = "story" => StoryInv /\ Reported
  /\ part = "series" => RecurrenceInv

LEMMA OutreachInit == Init => OutreachInv
BY StoryInit, ReportInit, RecurrenceInit DEF Init, OutreachInv

\* A step of the whole is a step of the component it is of, or leaves that
\* component's variables alone.
LEMMA StepOfOne ==
  ASSUME [Next]_vars
  PROVE  /\ UNCHANGED part
         /\ part = "story" => [Y!Next]_(Y!vars)
         /\ part = "series" => [R!Next]_(R!vars)
<1>1. CASE Next
  BY <1>1 DEF Next, StoryOnly, LeadsOnly, ListOnly, SeriesOnly
<1>2. CASE UNCHANGED vars
  <2>1. UNCHANGED part /\ UNCHANGED Y!vars /\ UNCHANGED R!vars
    BY <1>2 DEF vars, Y!vars, Y!rows, Y!worker, Y!phone, Y!tally, R!vars
  <2> QED BY <2>1
<1> QED BY <1>1, <1>2

LEMMA OutreachNext == OutreachInv /\ [Next]_vars => OutreachInv'
<1> SUFFICES ASSUME OutreachInv, [Next]_vars PROVE OutreachInv'
  OBVIOUS
<1>0. UNCHANGED part
  BY StepOfOne
<1>1. part = "story" => (StoryInv /\ Reported)'
  BY StepOfOne, StoryStep, ReportStep DEF OutreachInv
<1>2. part = "series" => RecurrenceInv'
  BY StepOfOne, RecurrenceStep DEF OutreachInv
<1> QED BY <1>0, <1>1, <1>2 DEF OutreachInv

(* The composition keeps the invariant of each component that is proved about. *)
THEOREM OutreachInductive == Spec => []OutreachInv
BY OutreachInit, OutreachNext, PTL DEF Spec

(***************************************************************************)
(* The followers of one number are never shown the same Story twice, for   *)
(* any number of numbers, goroutines, attempts, crashes and stops: every   *)
(* push of a publication carries the id its first attempt wrote down       *)
(* (publishStory, StartStoryPublication, ClaimStoryPublications).          *)
(***************************************************************************)
THEOREM StoryShownOnce == Spec => []OneStoryPerNumber
<1>1. OutreachInv => OneStoryPerNumber
  BY OneId DEF OutreachInv, OneStoryPerNumber
<1> QED BY <1>1, OutreachInductive, PTL

(***************************************************************************)
(* The report of a Story has each view that was accepted, once, whenever   *)
(* the sweep froze the figure and however late the receipt: a view is only *)
(* accepted while no figure is final, and a figure is frozen from viewers  *)
(* that are all still there (RecordStoryView, ExpireStories,               *)
(* StoryViewTotals).                                                       *)
(***************************************************************************)
THEOREM StoryReportAddsUp == Spec => []ReportAddsUp
<1>1. OutreachInv => ReportAddsUp
  BY OneCount DEF OutreachInv, ReportAddsUp
<1> QED BY <1>1, OutreachInductive, PTL

(***************************************************************************)
(* The next run of a campaign that repeats is the first instant of its     *)
(* rule after the run before it was over, for every calendar, rule and     *)
(* delay; and the series ends only when no instant is left before its end  *)
(* (NextOccurrence, spawnNextOccurrence).                                  *)
(***************************************************************************)
THEOREM SeriesSkipsNothing == Spec => NextIsTheFirst
<1>1. OutreachInv /\ [Next]_vars => [part = "series" => R!IsTheFirst]_vars
  <2> SUFFICES ASSUME OutreachInv, [Next]_vars, part = "series"
               PROVE  R!IsTheFirst \/ UNCHANGED vars
    OBVIOUS
  <2>1. RecurrenceInv /\ [R!Next]_(R!vars)
    BY StepOfOne DEF OutreachInv
  <2>2. CASE Next
    <3>1. R!Next
      BY <2>2 DEF Next, StoryOnly, LeadsOnly, ListOnly, SeriesOnly
    <3> QED BY <2>1, <3>1, RecurrenceStep
  <2> QED BY <2>2
<1> QED BY <1>1, OutreachInductive, PTL DEF Spec, NextIsTheFirst
=============================================================================
