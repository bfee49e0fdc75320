-------------------------- MODULE Broadcast_proofs --------------------------
(***************************************************************************)
(* Proofs about Broadcast for every number of processes, numbers,          *)
(* recipients and attempts: its types and its own steps; why a row that    *)
(* says "sent" tells the truth; why nobody is sent a message twice; and    *)
(* why two processes do not run the campaign at once, with what follows    *)
(* for its recipients while leases are kept and no operator puts them back *)
(* into the queue: nobody moves a recipient a goroutine has in its hands,  *)
(* a verdict stays true, a cancel stops the claims, the report never goes  *)
(* back, a claim leads to an attempt, a recipient closed as lost was not   *)
(* reached, and the whole of Broadcast implements Delivery.                *)
(***************************************************************************)
EXTENDS BroadcastInv, BroadcastDelivery, FiniteSetTheorems, TLAPS

-----------------------------------------------------------------------------
(* The operators the actions are built from *)

LEMMA TallyNat == ASSUME NEW S PROVE Tally(S) \in Nat
<1>1. IsFiniteSet({t \in Target : tgt[t].status \in S})
  BY ConstantsAssumption, FS_Subset
<1> QED BY <1>1, FS_CardinalityType DEF Tally

LEMMA TriesRange ==
  /\ 0 \in 0 .. MaxTries
  /\ \A k \in Tries : k \in 0 .. MaxTries /\ k \in Nat /\ k # 0
  /\ \A k \in 0 .. MaxTries : k < MaxTries => k + 1 \in Tries
BY ConstantsAssumption DEF Tries

\* A statement's update of a recipient's row leaves a recipient's row.
LEMMA RowTypes ==
  ASSUME NEW r \in Recipient
  PROVE  /\ r.attempt < MaxTries => Claimed(r) \in Recipient
         /\ \A k \in 0 .. MaxTries : \A c \in {"none", "unknown", "other"} : SentAs(r, k, c) \in Recipient
         /\ \A s \in {"retry_wait", "failed", "cancelled"} :
              \A c \in {"none", "unknown", "other"} : Closed(r, s, c) \in Recipient
         /\ Cancelled(r) \in Recipient
         /\ Requeued(r) \in Recipient
         /\ Expired(r) \in Recipient
         /\ \A s \in Reached : Advanced(r, s) \in Recipient
         /\ r.code \in {"none", "unknown", "other"}
<1> USE TriesRange DEF Recipient, TargetStatus, Open, Waiting, Reached, Lost, Lease
<1>1. ASSUME r.attempt < MaxTries PROVE Claimed(r) \in Recipient
  <2>1. r.attempt + 1 \in 0 .. MaxTries
    BY <1>1
  <2> HIDE TriesRange
  <2> QED BY <2>1 DEF Claimed
<1>2. \A k \in 0 .. MaxTries : \A c \in {"none", "unknown", "other"} : SentAs(r, k, c) \in Recipient
  BY DEF SentAs
<1>3. \A s \in {"retry_wait", "failed", "cancelled"} :
        \A c \in {"none", "unknown", "other"} : Closed(r, s, c) \in Recipient
  BY DEF Closed
<1>4. Cancelled(r) \in Recipient
  BY DEF Cancelled
<1>5. Requeued(r) \in Recipient
  BY DEF Requeued
<1>6. Expired(r) \in Recipient
  BY DEF Expired
<1>7. \A s \in Reached : Advanced(r, s) \in Recipient
  BY DEF Advanced
<1> QED BY <1>1, <1>2, <1>3, <1>4, <1>5, <1>6, <1>7

LEMMA CampaignCounts ==
  ASSUME NEW c \in Campaign
  PROVE  /\ [c EXCEPT !.success = @ + 1] \in Campaign
         /\ [c EXCEPT !.failed = @ + 1] \in Campaign
<1>1. c.success + 1 \in Nat /\ c.failed + 1 \in Nat
  BY DEF Campaign
<1> QED BY <1>1 DEF Campaign

LEMMA DeviceTypes ==
  /\ \A pc \in DeviceState : At(pc) \in Device
  /\ Idle \in Device
  /\ \A t \in Target, k \in Tries : Holding(t, k) \in Device
  /\ \A d \in Device, pc \in DeviceState : Moved(d, pc) \in Device
  /\ \A d \in Device, pc \in DeviceState, w \in Why : Blamed(d, pc, w) \in Device
<1> USE TriesRange DEF Device
<1>1. \A pc \in DeviceState : At(pc) \in Device
  BY DEF At, Why
<1>2. Idle \in Device
  BY <1>1 DEF Idle, DeviceState
<1>3. \A t \in Target, k \in Tries : Holding(t, k) \in Device
  BY DEF Holding, DeviceState, Why
<1>4. \A d \in Device, pc \in DeviceState : Moved(d, pc) \in Device
  BY DEF Moved
<1>5. \A d \in Device, pc \in DeviceState, w \in Why : Blamed(d, pc, w) \in Device
  BY DEF Blamed
<1> QED BY <1>1, <1>2, <1>3, <1>4, <1>5

LEMMA SetDeviceType ==
  ASSUME TypeOK, NEW p \in Proc, NEW a \in Account, NEW d \in Device, SetDevice(p, a, d)
  PROVE  dev' \in [Proc -> [Account -> Device]]
BY DEF TypeOK, SetDevice

LEMMA StepType ==
  ASSUME TypeOK, NEW p \in Proc, NEW a \in Account, NEW pc \in DeviceState, Step(p, a, pc)
  PROVE  dev' \in [Proc -> [Account -> Device]]
BY DeviceTypes, SetDeviceType DEF TypeOK, Step

-----------------------------------------------------------------------------
(* Type correctness *)

LEMMA TypeInit == Init => TypeOK
<1> SUFFICES ASSUME Init PROVE TypeOK
  OBVIOUS
<1>1. camp \in Campaign
  BY DEF Init, Campaign, CampaignStatus, Terminal, Lease
<1>2. tgt \in [Target -> Recipient]
  BY ConstantsAssumption DEF Init, Recipient, TargetStatus, Open, Waiting, NewRecipient, Lease
<1>3. dev \in [Proc -> [Account -> Device]]
  BY DeviceTypes DEF Init
<1> QED BY <1>1, <1>2, <1>3 DEF Init, TypeOK, WorkerState, Budget, AttemptStatus, MessageStatus, Fate

\* The rows, the world and the books of a step that leaves them alone.
LEMMA TypeKept ==
  ASSUME TypeOK, UNCHANGED <<rows, world, book>>,
         run' \in [Proc -> WorkerState], dev' \in [Proc -> [Account -> Device]]
  PROVE  TypeOK'
BY DEF TypeOK, rows, world, book

LEMMA TypeWorker ==
  ASSUME TypeOK, NEW p \in Proc, WorkerStep(p) PROVE TypeOK'
<1> USE DEF WorkerState
<1>1. CASE ReconcileStuckTargets(p)
  <2>1. \A t \in Target : ReconciledTarget(t) \in Recipient
    <3> SUFFICES ASSUME NEW t \in Target PROVE ReconciledTarget(t) \in Recipient
      OBVIOUS
    <3>1. tgt[t] \in Recipient
      BY DEF TypeOK
    <3>2. CASE Arrived(t)
      <4>1. (CHOOSE k \in Tries : Landed(t, k)) \in Tries
        BY <3>2 DEF Arrived
      <4> QED BY <3>1, <3>2, <4>1, RowTypes, TriesRange DEF ReconciledTarget
    <3>3. CASE ~Arrived(t)
      BY <3>1, <3>3, RowTypes DEF ReconciledTarget
    <3> QED BY <3>2, <3>3
  <2>2. \A t \in Target, k \in Tries :
          ReconciledAttempt(t, k) \in AttemptStatus
    BY DEF TypeOK, ReconciledAttempt, AttemptStatus
  <2>3. /\ tgt' \in [Target -> Recipient]
        /\ att' \in [Target -> [Tries -> AttemptStatus]]
    BY <1>1, <2>1, <2>2 DEF TypeOK, ReconcileStuckTargets
  <2> QED BY <1>1, <2>3 DEF TypeOK, ReconcileStuckTargets, world, book
<1>2. CASE CheckCancel(p)
  BY <1>2, TypeKept DEF TypeOK, CheckCancel
<1>3. CASE FetchMedia(p)
  <2>1. [a \in Account |-> At("todo")] \in [Account -> Device]
    BY DeviceTypes DEF DeviceState
  <2> QED BY <1>3, <2>1, TypeKept DEF TypeOK, FetchMedia
<1>4. CASE DevicesDone(p)
  <2>1. [a \in Account |-> Idle] \in [Account -> Device]
    BY DeviceTypes
  <2> QED BY <1>4, <2>1, TypeKept DEF TypeOK, DevicesDone
<1>5. CASE ClearCampaignStalled(p)
  BY <1>5 DEF TypeOK, ClearCampaignStalled, Campaign, world, book
<1>6. CASE MarkCampaignStalled(p)
  <2>1. Stamp \in {"no", "since", "over"}
    BY DEF TypeOK, Campaign, Stamp
  <2> QED BY <1>6, <2>1 DEF TypeOK, MarkCampaignStalled, Campaign, world, book
<1>7. CASE FailCampaign(p)
  BY <1>7 DEF TypeOK, FailCampaign, Campaign, CampaignStatus, Terminal, Lease, world, book
<1>8. CASE ReleaseCampaign(p)
  BY <1>8 DEF TypeOK, ReleaseCampaign, Campaign, Lease, world, book
<1>9. CASE PendingTargetCount(p)
  BY <1>9, TypeKept DEF TypeOK, PendingTargetCount
<1>10. CASE FinishCampaign(p)
  <2>1. Recounted(camp) \in Campaign
    BY TallyNat DEF TypeOK, Recounted, Campaign
  <2>2. Verdict \in CampaignStatus
    BY DEF Verdict, CampaignStatus, Terminal
  <2> QED BY <1>10, <2>1, <2>2 DEF TypeOK, FinishCampaign, Campaign, Lease, world, book
<1>11. CASE CancelRemainingWork(p)
  BY <1>11, RowTypes DEF TypeOK, CancelRemainingWork, world, book
<1>12. CASE \E a \in Account : LaunchDevice(p, a)
  BY <1>12, TypeKept, DeviceTypes, SetDeviceType DEF TypeOK, LaunchDevice, DeviceState
<1> QED BY <1>1, <1>2, <1>3, <1>4, <1>5, <1>6, <1>7, <1>8, <1>9, <1>10, <1>11, <1>12 DEF WorkerStep

LEMMA TypeDevice ==
  ASSUME TypeOK, NEW p \in Proc, NEW a \in Account, DeviceStep(p, a) PROVE TypeOK'
<1> USE DEF DeviceState, Why
<1>0. dev[p][a] \in Device
  BY DEF TypeOK
<1>1. CASE CheckDevice(p, a)
  <2>1. AfterCheck(a) \in DeviceState
    BY DEF AfterCheck, Onward
  <2> QED BY <1>1, <2>1, TypeKept, DeviceTypes, SetDeviceType DEF TypeOK, CheckDevice
<1>2. CASE AbandonDeviceShare(p, a)
  <2>1. dev' \in [Proc -> [Account -> Device]]
    BY <1>2, DeviceTypes, SetDeviceType DEF AbandonDeviceShare
  <2>2. tgt' \in [Target -> Recipient]
    BY <1>2, RowTypes DEF TypeOK, AbandonDeviceShare
  <2> QED BY <1>2, <2>1, <2>2 DEF TypeOK, AbandonDeviceShare, world, book
<1>3. CASE NoTarget(p, a)
  BY <1>3, TypeKept, DeviceTypes, SetDeviceType DEF TypeOK, NoTarget
<1>4. CASE RenderFails(p, a)
  BY <1>0, <1>4, TypeKept, DeviceTypes, SetDeviceType DEF TypeOK, RenderFails
<1>5. CASE BeginAttempt(p, a)
  <2>1. dev' \in [Proc -> [Account -> Device]]
    BY <1>5, DeviceTypes, SetDeviceType, StepType DEF BeginAttempt
  <2>2. att' \in [Target -> [Tries -> AttemptStatus]]
    <3>1. CASE att[Now(p, a)][Try(p, a)] = "none"
      <4>1. att' = [att EXCEPT ![Now(p, a)][Try(p, a)] = "sending"]
        BY <1>5, <3>1 DEF BeginAttempt
      <4> QED BY <4>1 DEF TypeOK, AttemptStatus
    <3>2. CASE att[Now(p, a)][Try(p, a)] # "none"
      BY <1>5, <3>2 DEF TypeOK, BeginAttempt
    <3> QED BY <3>1, <3>2
  <2>3. UNCHANGED <<camp, tgt, msg, world, run, book>>
    BY <1>5 DEF BeginAttempt
  <2> QED BY <2>1, <2>2, <2>3 DEF TypeOK, world, book
<1>6. CASE RecordOutgoing(p, a)
  <2>1. dev' \in [Proc -> [Account -> Device]]
    BY <1>6, StepType DEF RecordOutgoing
  <2>2. msg' \in [Target -> [Tries -> MessageStatus]]
    BY <1>6 DEF TypeOK, RecordOutgoing, MessageStatus
  <2>3. UNCHANGED <<camp, tgt, att, world, run, book>>
    BY <1>6 DEF RecordOutgoing
  <2> QED BY <2>1, <2>2, <2>3 DEF TypeOK, world, book
<1>7. CASE SendCampaignMessage(p, a)
  <2>1. dev' \in [Proc -> [Account -> Device]]
    BY <1>0, <1>7, DeviceTypes, SetDeviceType, StepType DEF SendCampaignMessage
  <2>2. net' \in [Target -> [Tries -> Fate]]
    <3>1. CASE online[a]
      <4>1. net' = [net EXCEPT ![Now(p, a)][Try(p, a)] = "wire"]
        BY <1>7, <3>1 DEF SendCampaignMessage
      <4> QED BY <4>1 DEF TypeOK, Fate
    <3>2. CASE ~online[a]
      BY <1>7, <3>2 DEF TypeOK, SendCampaignMessage
    <3> QED BY <3>1, <3>2
  <2>3. UNCHANGED <<rows, rcpt, online, run, book>>
    BY <1>7 DEF SendCampaignMessage
  <2> QED BY <2>1, <2>2, <2>3 DEF TypeOK, rows, book
<1>8. CASE Acknowledged(p, a)
  BY <1>8, TypeKept, StepType DEF TypeOK, Acknowledged
<1>9. CASE Refused(p, a)
  <2>1. dev' \in [Proc -> [Account -> Device]]
    BY <1>0, <1>9, DeviceTypes, SetDeviceType DEF Refused
  <2>2. net' \in [Target -> [Tries -> Fate]]
    BY <1>9 DEF TypeOK, Refused, Fate
  <2>3. UNCHANGED <<rows, rcpt, online, run, book>>
    BY <1>9 DEF Refused
  <2> QED BY <2>1, <2>2, <2>3 DEF TypeOK, rows, book
<1>10. CASE SendTimedOut(p, a)
  BY <1>0, <1>10, TypeKept, DeviceTypes, SetDeviceType DEF TypeOK, SendTimedOut
<1>11. CASE MessageSent(p, a)
  <2>1. dev' \in [Proc -> [Account -> Device]]
    BY <1>11, StepType DEF MessageSent
  <2>2. msg' \in [Target -> [Tries -> MessageStatus]]
    BY <1>11 DEF TypeOK, MessageSent, SetMessageOutcome, MessageStatus, Reached
  <2>3. UNCHANGED <<camp, tgt, att, world, run, book>>
    BY <1>11 DEF MessageSent
  <2> QED BY <2>1, <2>2, <2>3 DEF TypeOK, world, book
<1>12. CASE MessageFailed(p, a)
  <2>1. dev' \in [Proc -> [Account -> Device]]
    BY <1>12, StepType DEF MessageFailed
  <2>2. msg' \in [Target -> [Tries -> MessageStatus]]
    BY <1>12 DEF TypeOK, MessageFailed, SetMessageOutcome, MessageStatus
  <2>3. UNCHANGED <<camp, tgt, att, world, run, book>>
    BY <1>12 DEF MessageFailed
  <2> QED BY <2>1, <2>2, <2>3 DEF TypeOK, world, book
<1>13. CASE FinishAttemptSent(p, a)
  <2>1. dev' \in [Proc -> [Account -> Device]]
    BY <1>13, DeviceTypes, SetDeviceType DEF FinishAttemptSent
  <2>2. UNCHANGED <<msg, world, run, book>>
    BY <1>13 DEF FinishAttemptSent
  <2> DEFINE t == dev[p][a].target
             k == dev[p][a].try
  <2>3. CASE UNCHANGED <<camp, tgt, att>>
    BY <2>1, <2>2, <2>3 DEF TypeOK, world, book
  <2>4. CASE /\ att' = [att EXCEPT ![t][k] = "sent"]
             /\ tgt' = [tgt EXCEPT ![t] = SentAs(tgt[t], k, "none")]
             /\ camp' = [camp EXCEPT !.success = @ + 1]
    <3>1. camp' \in Campaign
      BY <2>4, CampaignCounts DEF TypeOK
    <3>2. k \in 0 .. MaxTries
      BY <1>0 DEF Device
    <3>3. tgt' \in [Target -> Recipient]
      BY <2>4, <3>2, RowTypes DEF TypeOK
    <3>4. att' \in [Target -> [Tries -> AttemptStatus]]
      BY <2>4 DEF TypeOK, AttemptStatus
    <3> QED BY <2>1, <2>2, <3>1, <3>3, <3>4 DEF TypeOK, world, book
  <2> QED BY <1>13, <2>3, <2>4 DEF FinishAttemptSent
<1>14. CASE FinishAttemptFailed(p, a)
  <2>1. dev' \in [Proc -> [Account -> Device]]
    BY <1>14, DeviceTypes, SetDeviceType DEF FinishAttemptFailed
  <2>2. tgt' \in [Target -> Recipient]
    BY <1>14, RowTypes DEF TypeOK, FinishAttemptFailed, ErrorCode
  <2>3. camp' \in Campaign
    BY <1>14, CampaignCounts DEF TypeOK, FinishAttemptFailed
  <2>4. att' \in [Target -> [Tries -> AttemptStatus]]
    BY <1>14 DEF TypeOK, FinishAttemptFailed, AttemptStatus
  <2>5. UNCHANGED <<msg, world, run, book>>
    BY <1>14 DEF FinishAttemptFailed
  <2> QED BY <2>1, <2>2, <2>3, <2>4, <2>5 DEF TypeOK, world, book
<1> QED BY <1>1, <1>2, <1>3, <1>4, <1>5, <1>6, <1>7, <1>8, <1>9, <1>10, <1>11, <1>12, <1>13, <1>14
     DEF DeviceStep

\* The steps of the world, of the operators, and of a process beside its workers.
LEMMA SpendType ==
  ASSUME TypeOK, NEW what \in {"ops", "crashes", "outages", "flaps", "lost"}, Spend(what)
  PROVE  spent' \in Budget
<1>1. /\ spent.ops + 1 \in Nat /\ spent.crashes + 1 \in Nat /\ spent.outages + 1 \in Nat
      /\ spent.flaps + 1 \in Nat /\ spent.lost + 1 \in Nat
  BY DEF TypeOK, Budget
<1>2. CASE what = "ops"
  BY <1>1, <1>2 DEF TypeOK, Spend, Budget
<1>3. CASE what = "crashes"
  BY <1>1, <1>3 DEF TypeOK, Spend, Budget
<1>4. CASE what = "outages"
  BY <1>1, <1>4 DEF TypeOK, Spend, Budget
<1>5. CASE what = "flaps"
  BY <1>1, <1>5 DEF TypeOK, Spend, Budget
<1>6. CASE what = "lost"
  BY <1>1, <1>6 DEF TypeOK, Spend, Budget
<1> QED BY <1>2, <1>3, <1>4, <1>5, <1>6

LEMMA TypeProcess ==
  ASSUME TypeOK, NEW p \in Proc, ProcessStep(p) PROVE TypeOK'
<1>1. CASE ClaimDueCampaigns(p)
  <2>1. camp' \in Campaign
    BY <1>1 DEF TypeOK, ClaimDueCampaigns, Campaign, CampaignStatus, Lease
  <2>2. run' \in [Proc -> WorkerState]
    BY <1>1 DEF TypeOK, ClaimDueCampaigns, WorkerState
  <2> QED BY <1>1, <2>1, <2>2 DEF TypeOK, ClaimDueCampaigns, world, book
<1>2. CASE RenewCampaignLease(p)
  <2>1. camp' \in Campaign
    BY <1>2 DEF TypeOK, RenewCampaignLease, Campaign, Lease
  <2> QED BY <1>2, <2>1 DEF TypeOK, RenewCampaignLease, world, book
<1>3. CASE CloseOrphanedTargets(p)
  <2>1. tgt' \in [Target -> Recipient]
    BY <1>3, RowTypes DEF TypeOK, CloseOrphanedTargets
  <2> QED BY <1>3, <2>1 DEF TypeOK, CloseOrphanedTargets, world, book
<1>4. CASE WorkerStep(p)
  BY <1>4, TypeWorker
<1>5. CASE WorkerError(p)
  <2>1. spent' \in Budget
    BY <1>5, SpendType DEF WorkerError
  <2>2. run' \in [Proc -> WorkerState]
    BY <1>5 DEF TypeOK, WorkerError, WorkerAfterError, WorkerState
  <2> QED BY <1>5, <2>1, <2>2 DEF TypeOK, WorkerError, rows, world
<1>6. ASSUME NEW a \in Account, DeviceStep(p, a) PROVE TypeOK'
  BY <1>6, TypeDevice
<1>7. ASSUME NEW a \in Account, ClaimTarget(p, a) PROVE TypeOK'
  <2>1. PICK t \in Target :
          /\ tgt[t].attempt < MaxTries
          /\ tgt' = [tgt EXCEPT ![t] = Claimed(tgt[t])]
          /\ SetDevice(p, a, Holding(t, tgt[t].attempt + 1))
    BY <1>7 DEF ClaimTarget
  <2>2. tgt[t] \in Recipient
    BY DEF TypeOK
  <2>3. tgt[t].attempt + 1 \in Tries
    BY <2>1, <2>2, TriesRange DEF Recipient
  <2>4. dev' \in [Proc -> [Account -> Device]]
    BY <2>1, <2>3, DeviceTypes, SetDeviceType
  <2>5. tgt' \in [Target -> Recipient]
    BY <2>1, <2>2, RowTypes DEF TypeOK
  <2>6. UNCHANGED <<camp, att, msg, world, run, book>>
    BY <1>7 DEF ClaimTarget
  <2> QED BY <2>4, <2>5, <2>6 DEF TypeOK, world, book
<1>8. ASSUME NEW a \in Account, CancelUnread(p, a) PROVE TypeOK'
  <2>1. spent' \in Budget
    BY <1>8, SpendType DEF CancelUnread
  <2>2. Onward(a) \in DeviceState
    BY DEF Onward, DeviceState
  <2>3. dev' \in [Proc -> [Account -> Device]]
    BY <1>8, <2>2, DeviceTypes, SetDeviceType DEF CancelUnread
  <2> QED BY <1>8, <2>1, <2>3 DEF TypeOK, CancelUnread, rows, world
<1>9. ASSUME NEW a \in Account, DeviceError(p, a) PROVE TypeOK'
  <2>1. spent' \in Budget
    BY <1>9, SpendType DEF DeviceError
  <2>2. DeviceAfterError[dev[p][a].pc] \in DeviceState
    BY <1>9 DEF DeviceError, DeviceAfterError, DeviceState
  <2>3. dev[p][a] \in Device
    BY DEF TypeOK
  <2>4. dev' \in [Proc -> [Account -> Device]]
    BY <1>9, <2>2, <2>3, DeviceTypes, SetDeviceType DEF DeviceError
  <2> QED BY <1>9, <2>1, <2>4 DEF TypeOK, DeviceError, rows, world
<1>10. CASE Crash(p)
  <2>1. spent' \in Budget
    BY <1>10, SpendType DEF Crash
  <2>2. camp' \in Campaign
    BY <1>10 DEF TypeOK, Crash, Campaign
  <2>3. run' \in [Proc -> WorkerState]
    BY <1>10 DEF TypeOK, Crash, WorkerState
  <2>4. dev' \in [Proc -> [Account -> Device]]
    BY <1>10, DeviceTypes DEF TypeOK, Crash
  <2>5. UNCHANGED <<tgt, att, msg, world, ui>>
    BY <1>10 DEF Crash
  <2> QED BY <2>1, <2>2, <2>3, <2>4, <2>5 DEF TypeOK, world
<1>11. CASE Restart(p)
  BY <1>11, TypeKept DEF TypeOK, Restart, WorkerState
<1> QED BY <1>1, <1>2, <1>3, <1>4, <1>5, <1>6, <1>7, <1>8, <1>9, <1>10, <1>11 DEF ProcessStep

LEMMA CancelTypes ==
  ASSUME TypeOK, RequestCancel
  PROVE  camp' \in Campaign /\ tgt' \in [Target -> Recipient]
<1>1. camp' \in Campaign
  BY DEF TypeOK, RequestCancel, Campaign, CampaignStatus, Terminal
<1>2. tgt' \in [Target -> Recipient]
  BY RowTypes DEF TypeOK, RequestCancel
<1> QED BY <1>1, <1>2

LEMMA TypeOperator ==
  ASSUME TypeOK, OperatorStep PROVE TypeOK'
<1>0. ASSUME NEW op, Request(op) PROVE spent' \in Budget
  BY <1>0, SpendType DEF Request
<1>1. CASE CancelCampaign
  BY <1>0, <1>1, CancelTypes DEF TypeOK, CancelCampaign, world
<1>2. CASE RetryFailed
  <2>1. tgt' \in [Target -> Recipient]
    BY <1>2, RowTypes DEF TypeOK, RetryFailed
  <2>2. (IF camp.failed > Tally(Lost) THEN camp.failed - Tally(Lost) ELSE 0) \in Nat
    BY TallyNat DEF TypeOK, Campaign
  <2>3. camp' \in Campaign
    BY <1>2, <2>2 DEF TypeOK, RetryFailed, Campaign, CampaignStatus, Lease
  <2> QED BY <1>0, <1>2, <2>1, <2>3 DEF TypeOK, RetryFailed, world
<1>3. CASE RunNow
  <2>1. camp' \in Campaign
    BY <1>3 DEF TypeOK, RunNow, Campaign, CampaignStatus, Lease
  <2> QED BY <1>0, <1>3, <2>1 DEF TypeOK, RunNow, world
<1>4. CASE ScheduleCampaign
  <2>1. camp' \in Campaign
    BY <1>4 DEF TypeOK, ScheduleCampaign, Campaign, CampaignStatus
  <2> QED BY <1>0, <1>4, <2>1 DEF TypeOK, ScheduleCampaign, world
<1>5. CASE ResendChecked
  BY <1>0, <1>5 DEF TypeOK, ResendChecked, rows, world
<1>6. CASE ResetTargets
  <2>1. NewRecipient \in Recipient
    BY TriesRange DEF NewRecipient, Recipient, TargetStatus, Open, Waiting, Lease
  <2> QED BY <1>6, <2>1 DEF TypeOK, ResetTargets, world
<1>7. CASE ResetCampaign
  <2>1. camp' \in Campaign
    BY <1>7 DEF TypeOK, ResetCampaign, Campaign, CampaignStatus, Lease
  <2> QED BY <1>7, <2>1 DEF TypeOK, ResetCampaign, world
<1>8. CASE ArchiveChecked
  BY <1>0, <1>8 DEF TypeOK, ArchiveChecked, rows, world
<1>9. CASE ArchiveStops
  BY <1>9, CancelTypes DEF TypeOK, ArchiveStops, world
<1>10. CASE ArchiveCampaign
  <2>1. camp' \in Campaign
    BY <1>10 DEF TypeOK, ArchiveCampaign, Campaign
  <2> QED BY <1>10, <2>1 DEF TypeOK, ArchiveCampaign, world
<1>11. CASE UnarchiveCampaign
  <2>1. camp' \in Campaign
    BY <1>11 DEF TypeOK, UnarchiveCampaign, Campaign
  <2> QED BY <1>0, <1>11, <2>1 DEF TypeOK, UnarchiveCampaign, world
<1> QED BY <1>1, <1>2, <1>3, <1>4, <1>5, <1>6, <1>7, <1>8, <1>9, <1>10, <1>11 DEF OperatorStep

LEMMA TypeWorld ==
  ASSUME TypeOK, WorldStep PROVE TypeOK'
<1>1. ASSUME NEW t \in Target, NEW k \in Tries, Accept(t, k) \/ Drop(t, k) PROVE TypeOK'
  <2>1. net' \in [Target -> [Tries -> Fate]]
    <3>1. CASE Accept(t, k)
      BY <3>1 DEF TypeOK, Accept, Fate
    <3>2. CASE Drop(t, k)
      BY <3>2 DEF TypeOK, Drop, Fate
    <3> QED BY <1>1, <3>1, <3>2
  <2>2. UNCHANGED <<rows, rcpt, online, run, dev, book>>
    BY <1>1 DEF Accept, Drop
  <2> QED BY <2>1, <2>2 DEF TypeOK, rows, book
<1>2. ASSUME NEW t \in Target, NEW k \in Tries, NEW r \in ReceiptType,
             AdvanceCampaignTargets(t, k, r)
      PROVE  TypeOK'
  <2>1. rcpt' \in [Target -> [Tries -> [ReceiptType -> {"new", "claimed", "applied"}]]]
    BY <1>2 DEF TypeOK, AdvanceCampaignTargets
  <2>2. AdvancedTarget(t, k, r) \in Recipient
    BY RowTypes DEF TypeOK, AdvancedTarget, ReceiptType, Reached
  <2>3. tgt' \in [Target -> Recipient] /\ spent' \in Budget
    BY <1>2, <2>2, SpendType DEF TypeOK, AdvanceCampaignTargets
  <2>4. UNCHANGED <<camp, att, msg, net, online, run, dev, ui>>
    BY <1>2 DEF AdvanceCampaignTargets
  <2> QED BY <2>1, <2>3, <2>4 DEF TypeOK
<1>3. ASSUME NEW t \in Target, NEW k \in Tries, NEW r \in ReceiptType,
             AdvanceMessageStatus(t, k, r)
      PROVE  TypeOK'
  <2>1. rcpt' \in [Target -> [Tries -> [ReceiptType -> {"new", "claimed", "applied"}]]]
    BY <1>3 DEF TypeOK, AdvanceMessageStatus
  <2>2. msg' \in [Target -> [Tries -> MessageStatus]]
    BY <1>3 DEF TypeOK, AdvanceMessageStatus, ReceiptType, MessageStatus, Reached
  <2>3. UNCHANGED <<camp, tgt, att, net, online, run, dev, book>>
    BY <1>3 DEF AdvanceMessageStatus
  <2> QED BY <2>1, <2>2, <2>3 DEF TypeOK, book
<1>4. ASSUME NEW a \in Account, GoOffline(a) PROVE TypeOK'
  BY <1>4, SpendType DEF TypeOK, GoOffline, rows
<1>5. ASSUME NEW a \in Account, GoOnline(a) PROVE TypeOK'
  BY <1>5 DEF TypeOK, GoOnline, rows, book
<1>6. ASSUME NEW t \in Target, ExpireTargetLease(t) PROVE TypeOK'
  BY <1>6, RowTypes DEF TypeOK, ExpireTargetLease, world, book
<1>7. CASE ExpireCampaignLease
  <2>1. camp' \in Campaign
    BY <1>7 DEF TypeOK, ExpireCampaignLease, Campaign, Lease
  <2>2. spent' \in Budget
    BY <1>7, SpendType DEF TypeOK, ExpireCampaignLease
  <2> QED BY <1>7, <2>1, <2>2 DEF TypeOK, ExpireCampaignLease, world
<1>8. CASE GracePeriodEnds
  <2>1. camp' \in Campaign
    BY <1>8 DEF TypeOK, GracePeriodEnds, Campaign
  <2> QED BY <1>8, <2>1 DEF TypeOK, GracePeriodEnds, world, book
<1> QED BY <1>1, <1>2, <1>3, <1>4, <1>5, <1>6, <1>7, <1>8 DEF WorldStep

LEMMA TypeStep == TypeOK /\ [Next]_vars => TypeOK'
<1> SUFFICES ASSUME TypeOK, [Next]_vars PROVE TypeOK'
  OBVIOUS
<1>1. CASE Next
  BY <1>1, TypeProcess, TypeOperator, TypeWorld DEF Next
<1>2. CASE UNCHANGED vars
  BY <1>2 DEF TypeOK, vars
<1> QED BY <1>1, <1>2

\* Every statement of the code leaves rows, and every goroutine a state, of the
\* types the schema and the code give them.
THEOREM TypeCorrect == Spec => []TypeOK
<1>1. Init => TypeOK
  BY TypeInit
<1>2. TypeOK /\ [Next]_vars => TypeOK'
  BY TypeStep
<1> QED BY <1>1, <1>2, PTL DEF Spec

-----------------------------------------------------------------------------
(* What the row and goroutine operators return *)

LEMMA RowFields ==
  ASSUME NEW r \in Recipient
  PROVE  /\ Claimed(r).status = "processing" /\ Claimed(r).attempt = r.attempt + 1
         /\ \A k, c : /\ SentAs(r, k, c).status = "sent" /\ SentAs(r, k, c).wamid = k
                      /\ SentAs(r, k, c).attempt = r.attempt
         /\ \A s, c : Closed(r, s, c).status = s /\ Closed(r, s, c).attempt = r.attempt
         /\ Cancelled(r).status = "cancelled" /\ Cancelled(r).attempt = r.attempt
         /\ Requeued(r).status = "retry_wait"
         /\ Expired(r).status = r.status /\ Expired(r).wamid = r.wamid
         /\ Expired(r).attempt = r.attempt
         /\ \A s : /\ Advanced(r, s).status = s /\ Advanced(r, s).wamid = r.wamid
                   /\ Advanced(r, s).attempt = r.attempt
BY DEF Recipient, Claimed, SentAs, Closed, Cancelled, Requeued, Expired, Advanced

LEMMA DeviceFields ==
  /\ \A pc : At(pc).pc = pc
  /\ Idle.pc = "off"
  /\ \A t, k : Holding(t, k).pc = "pace" /\ Holding(t, k).target = t /\ Holding(t, k).try = k
  /\ \A d \in Device : \A pc :
        /\ Moved(d, pc).pc = pc
        /\ Moved(d, pc).target = d.target /\ Moved(d, pc).try = d.try /\ Moved(d, pc).why = d.why
  /\ \A d \in Device : \A pc, w :
        /\ Blamed(d, pc, w).pc = pc /\ Blamed(d, pc, w).why = w
        /\ Blamed(d, pc, w).target = d.target /\ Blamed(d, pc, w).try = d.try
BY DEF At, Idle, Holding, Moved, Blamed, Device

LEMMA SetDeviceFact ==
  ASSUME TypeOK, NEW p \in Proc, NEW a \in Account, NEW d, SetDevice(p, a, d)
  PROVE  /\ dev'[p][a] = d
         /\ \A q \in Proc, b \in Account : (q = p /\ b = a) \/ dev'[q][b] = dev[q][b]
BY DEF TypeOK, SetDevice

\* A step whose goroutines keep their recipient or let go of it.
OnlyReleases ==
  \A q \in Proc, b \in Account : dev'[q][b] = dev[q][b] \/ dev'[q][b].pc \notin Busy

LEMMA SetDeviceReleases ==
  ASSUME TypeOK, NEW p \in Proc, NEW a \in Account, NEW pc, pc \notin Busy, SetDevice(p, a, At(pc))
  PROVE  OnlyReleases
BY SetDeviceFact, DeviceFields DEF OnlyReleases

LEMMA ResetReleases ==
  ASSUME TypeOK, NEW p \in Proc, NEW d, d.pc \notin Busy,
         dev' = [dev EXCEPT ![p] = [a \in Account |-> d]]
  PROVE  OnlyReleases
BY DEF TypeOK, OnlyReleases

-----------------------------------------------------------------------------
(* SentWasAccepted *)

\* Only what the server says about an accepted message is believed: it stays true.
NetGrows == \A t \in Target, k \in Tries : net[t][k] = "accepted" => net'[t][k] = "accepted"
AttemptsKept == \A t \in Target, k \in Tries : att[t][k] # "none" => att'[t][k] # "none"

\* What the goroutines' part of the invariant asks of a step.
HandsSent == HandsOK /\ ConfirmedBacked /\ FreshUnsent /\ OneSender

LEMMA HandsSentKept ==
  ASSUME HandsSent, NetGrows, AttemptsKept, OnlyReleases,
         \A q \in Proc, b \in Account :
            dev[q][b].pc \in Fresh => net'[Now(q, b)][Try(q, b)] = "none"
  PROVE  HandsSent'
<1> USE DEF HandsSent, OnlyReleases, Busy, Holds, Now, Try, Fresh, Confirmed
<1>1. HandsOK'
  BY DEF HandsOK
<1>2. ConfirmedBacked'
  BY DEF HandsOK, ConfirmedBacked, NetGrows
<1>3. FreshUnsent'
  BY DEF HandsOK, FreshUnsent, AttemptsKept
<1>4. OneSender'
  BY DEF OneSender
<1> QED BY <1>1, <1>2, <1>3, <1>4

LEMMA HandsSentMoved ==
  ASSUME TypeOK, HandsSent, NetGrows, AttemptsKept,
         NEW p \in Proc, NEW a \in Account, NEW d, SetDevice(p, a, d),
         d.target \in Target, d.try \in Tries,
         d.pc \in Confirmed => net'[d.target][d.try] = "accepted",
         d.pc \in Fresh =>
            /\ att'[d.target][d.try] # "none" /\ net'[d.target][d.try] = "none"
            /\ \A q \in Proc, b \in Account :
                  /\ dev[q][b].pc \in Fresh /\ Now(q, b) = d.target /\ Try(q, b) = d.try
                  => q = p /\ b = a,
         \A q \in Proc, b \in Account :
            dev[q][b].pc \in Fresh /\ ~(q = p /\ b = a) => net'[Now(q, b)][Try(q, b)] = "none"
  PROVE  HandsSent'
<1>0. /\ dev'[p][a] = d
      /\ \A q \in Proc, b \in Account : (q = p /\ b = a) \/ dev'[q][b] = dev[q][b]
  BY SetDeviceFact
<1> USE DEF HandsSent, Holds, Now, Try
<1>1. HandsOK'
  BY <1>0 DEF HandsOK
<1>2. ConfirmedBacked'
  BY <1>0 DEF HandsOK, ConfirmedBacked, NetGrows, Confirmed, Busy
<1>3. FreshUnsent'
  BY <1>0 DEF HandsOK, FreshUnsent, AttemptsKept, Fresh, Busy
<1>4. OneSender'
  BY <1>0 DEF OneSender
<1> QED BY <1>1, <1>2, <1>3, <1>4

\* What the rows' part asks: a row says "reached" because it did before or because
\* its message is accepted now.
ReportWarranted ==
  \A t \in Target :
    tgt'[t].status \in Reached =>
      \/ tgt[t].status \in Reached /\ tgt'[t].wamid = tgt[t].wamid
      \/ tgt'[t].wamid \in Tries /\ net'[t][tgt'[t].wamid] = "accepted"

LEMMA SentWasAcceptedKept ==
  ASSUME SentWasAccepted, NetGrows, ReportWarranted PROVE SentWasAccepted'
BY DEF SentWasAccepted, NetGrows, ReportWarranted

LEMMA SentInvNext ==
  ASSUME TypeOK', HandsSent', SentWasAccepted', BubbleBacked', ReceiptBacked', AttemptFirst'
  PROVE  SentInv'
BY DEF SentInv, HandsSent

\* A step that touches none of it.
LEMMA SentInvKept ==
  ASSUME SentInv, TypeOK', UNCHANGED <<att, msg, net, rcpt>>, OnlyReleases, ReportWarranted
  PROVE  SentInv'
<1>1. NetGrows /\ AttemptsKept
  BY DEF NetGrows, AttemptsKept
<1>2. HandsSent'
  BY <1>1, HandsSentKept DEF SentInv, HandsSent, FreshUnsent
<1>3. SentWasAccepted'
  BY <1>1, SentWasAcceptedKept DEF SentInv
<1>4. BubbleBacked' /\ ReceiptBacked' /\ AttemptFirst'
  BY DEF SentInv, BubbleBacked, ReceiptBacked, AttemptFirst
<1> QED BY <1>2, <1>3, <1>4, SentInvNext

\* A goroutine that goes on with its recipient, and writes no row.
LEMMA SentInvMoved ==
  ASSUME SentInv, TypeOK', UNCHANGED <<tgt, att, msg, net, rcpt>>,
         NEW p \in Proc, NEW a \in Account, Holds(p, a),
         NEW d, SetDevice(p, a, d), d.target = Now(p, a), d.try = Try(p, a),
         d.pc \in Fresh => dev[p][a].pc \in Fresh,
         d.pc \in Confirmed =>
            dev[p][a].pc \in Confirmed \/ net[Now(p, a)][Try(p, a)] = "accepted"
  PROVE  SentInv'
<1>1. NetGrows /\ AttemptsKept
  BY DEF NetGrows, AttemptsKept
<1>2. Now(p, a) \in Target /\ Try(p, a) \in Tries
  BY DEF SentInv, HandsOK
<1>3. d.pc \in Confirmed => net'[d.target][d.try] = "accepted"
  BY DEF SentInv, ConfirmedBacked
<1>4. d.pc \in Fresh =>
        /\ att'[d.target][d.try] # "none" /\ net'[d.target][d.try] = "none"
        /\ \A q \in Proc, b \in Account :
              /\ dev[q][b].pc \in Fresh /\ Now(q, b) = d.target /\ Try(q, b) = d.try
              => q = p /\ b = a
  BY DEF SentInv, FreshUnsent, OneSender
<1>5. \A q \in Proc, b \in Account :
        dev[q][b].pc \in Fresh => net'[Now(q, b)][Try(q, b)] = "none"
  BY DEF SentInv, FreshUnsent
<1>6. HandsSent'
  <2>1. TypeOK /\ HandsSent /\ d.target \in Target /\ d.try \in Tries
    BY <1>2 DEF SentInv, HandsSent
  <2> QED BY <1>1, <1>3, <1>4, <1>5, <2>1, HandsSentMoved
<1>7. SentWasAccepted' /\ BubbleBacked' /\ ReceiptBacked' /\ AttemptFirst'
  BY DEF SentInv, SentWasAccepted, BubbleBacked, ReceiptBacked, AttemptFirst
<1> QED BY <1>6, <1>7, SentInvNext

LEMMA SentWorker ==
  ASSUME SentInv, TypeOK', NEW p \in Proc, WorkerStep(p) PROVE SentInv'
<1> USE DEF SentInv
<1>0. ASSUME UNCHANGED <<tgt, att, msg, net, rcpt>>, OnlyReleases PROVE SentInv'
  BY <1>0, SentInvKept DEF ReportWarranted
<1>1. CASE ReconcileStuckTargets(p)
  <2>1. UNCHANGED <<camp, msg, world, dev>>
    BY <1>1 DEF ReconcileStuckTargets, book
  <2>2. CASE UNCHANGED <<tgt, att>>
    BY <1>0, <2>1, <2>2 DEF world, OnlyReleases
  <2>3. CASE /\ att' = [t \in Target |-> [k \in Tries |-> ReconciledAttempt(t, k)]]
             /\ tgt' = [t \in Target |-> ReconciledTarget(t)]
    <3>1. NetGrows /\ OnlyReleases
      BY <2>1 DEF world, NetGrows, OnlyReleases
    <3>2. AttemptsKept
      BY <2>3 DEF AttemptsKept, ReconciledAttempt
    <3>3. HandsSent'
      <4>1. HandsSent /\ \A q \in Proc, b \in Account :
              dev[q][b].pc \in Fresh => net'[Now(q, b)][Try(q, b)] = "none"
        BY <2>1 DEF world, HandsSent, FreshUnsent
      <4> QED BY <3>1, <3>2, <4>1, HandsSentKept
    <3>4. ReportWarranted
      <4> SUFFICES ASSUME NEW t \in Target, tgt'[t].status \in Reached
                   PROVE  \/ tgt[t].status \in Reached /\ tgt'[t].wamid = tgt[t].wamid
                          \/ tgt'[t].wamid \in Tries /\ net'[t][tgt'[t].wamid] = "accepted"
        BY DEF ReportWarranted
      <4>0. tgt[t] \in Recipient /\ tgt'[t] = ReconciledTarget(t)
        BY <2>3 DEF TypeOK
      <4>1. CASE Arrived(t)
        <5> DEFINE k == CHOOSE k \in Tries : Landed(t, k)
        <5>1. k \in Tries /\ Landed(t, k)
          BY <4>1 DEF Arrived
        <5>2. tgt'[t].wamid = k
          BY <4>0, <4>1, RowFields DEF ReconciledTarget
        <5>3. net[t][k] = "accepted"
          BY <5>1 DEF Landed, Evidence, BubbleBacked
        <5> QED BY <2>1, <5>1, <5>2, <5>3 DEF world
      <4>2. CASE ~Arrived(t) /\ InFlightExpired(t)
        <5>1. tgt'[t].status = "failed"
          BY <4>0, <4>2, RowFields DEF ReconciledTarget
        <5> QED BY <5>1 DEF Reached
      <4>3. CASE ~Arrived(t) /\ ~InFlightExpired(t)
        BY <4>0, <4>3 DEF ReconciledTarget
      <4> QED BY <4>1, <4>2, <4>3
    <3>5. SentWasAccepted'
      BY <3>1, <3>4, SentWasAcceptedKept
    <3>6. BubbleBacked' /\ ReceiptBacked' /\ AttemptFirst'
      BY <2>1, <3>2 DEF world, BubbleBacked, ReceiptBacked, AttemptFirst, AttemptsKept
    <3> QED BY <3>3, <3>5, <3>6, SentInvNext
  <2> QED BY <1>1, <2>2, <2>3 DEF ReconcileStuckTargets
<1>2. CASE CheckCancel(p)
  BY <1>0, <1>2 DEF CheckCancel, rows, world, OnlyReleases
<1>3. CASE FetchMedia(p)
  <2>1. OnlyReleases
    BY <1>3, ResetReleases, DeviceFields DEF FetchMedia, OnlyReleases, Busy
  <2> QED BY <1>0, <1>3, <2>1 DEF FetchMedia, rows, world
<1>4. CASE DevicesDone(p)
  <2>1. OnlyReleases
    BY <1>4, ResetReleases, DeviceFields DEF DevicesDone, Busy
  <2> QED BY <1>0, <1>4, <2>1 DEF DevicesDone, rows, world
<1>5. CASE ClearCampaignStalled(p)
  BY <1>0, <1>5 DEF ClearCampaignStalled, world, OnlyReleases
<1>6. CASE MarkCampaignStalled(p)
  BY <1>0, <1>6 DEF MarkCampaignStalled, world, OnlyReleases
<1>7. CASE FailCampaign(p)
  BY <1>0, <1>7 DEF FailCampaign, world, OnlyReleases
<1>8. CASE ReleaseCampaign(p)
  BY <1>0, <1>8 DEF ReleaseCampaign, world, OnlyReleases
<1>9. CASE PendingTargetCount(p)
  BY <1>0, <1>9 DEF PendingTargetCount, rows, world, OnlyReleases
<1>10. CASE FinishCampaign(p)
  BY <1>0, <1>10 DEF FinishCampaign, world, OnlyReleases
<1>11. CASE CancelRemainingWork(p)
  <2>1. ReportWarranted
    BY <1>11, RowFields DEF CancelRemainingWork, ReportWarranted, Reached, TypeOK
  <2> QED BY <1>11, <2>1, SentInvKept DEF CancelRemainingWork, world, OnlyReleases
<1>12. ASSUME NEW a \in Account, LaunchDevice(p, a) PROVE SentInv'
  <2>1. OnlyReleases
    BY <1>12, SetDeviceReleases DEF LaunchDevice, Busy
  <2> QED BY <1>0, <1>12, <2>1 DEF LaunchDevice, rows, world
<1> QED BY <1>1, <1>2, <1>3, <1>4, <1>5, <1>6, <1>7, <1>8, <1>9, <1>10, <1>11, <1>12 DEF WorkerStep

\* The goroutine's own recipient and attempt.
LEMMA InHand ==
  ASSUME TypeOK, HandsOK, NEW p \in Proc, NEW a \in Account, Holds(p, a)
  PROVE  /\ Now(p, a) \in Target /\ Try(p, a) \in Tries
         /\ dev[p][a] \in Device /\ tgt[Now(p, a)] \in Recipient
         /\ dev[p][a].target = Now(p, a) /\ dev[p][a].try = Try(p, a)
BY DEF TypeOK, HandsOK, Now, Try

\* A write to the message of the attempt in hand, by a goroutine past the send.
LEMMA SentOutcome ==
  ASSUME SentInv, TypeOK', UNCHANGED <<tgt, att, net, rcpt>>,
         NEW p \in Proc, NEW a \in Account, NEW pc, NEW status, Holds(p, a),
         SetMessageOutcome(Now(p, a), Try(p, a), status), Step(p, a, pc),
         pc \notin Fresh, pc \in Busy,
         pc \in Confirmed => dev[p][a].pc \in Confirmed,
         status \in Reached => dev[p][a].pc \in Confirmed
  PROVE  SentInv'
<1> DEFINE d == Moved(dev[p][a], pc)
<1> USE DEF SentInv
<1>1. /\ Now(p, a) \in Target /\ Try(p, a) \in Tries
      /\ d.pc = pc /\ d.target = Now(p, a) /\ d.try = Try(p, a) /\ SetDevice(p, a, d)
  BY InHand, DeviceFields DEF Step
<1>2. NetGrows /\ AttemptsKept
  BY DEF NetGrows, AttemptsKept
<1>3. HandsSent'
  <2>1. \A q \in Proc, b \in Account :
          dev[q][b].pc \in Fresh => net'[Now(q, b)][Try(q, b)] = "none"
    BY DEF FreshUnsent
  <2>2. d.pc \in Confirmed => net'[d.target][d.try] = "accepted"
    BY <1>1 DEF ConfirmedBacked
  <2>3. HandsSent
    BY DEF HandsSent
  <2> HIDE DEF d
  <2> QED BY <1>1, <1>2, <2>1, <2>2, <2>3, HandsSentMoved
<1>4. BubbleBacked'
  <2>1. \A t \in Target, k \in Tries :
          msg'[t][k] = msg[t][k]
            \/ (t = Now(p, a) /\ k = Try(p, a) /\ msg'[t][k] = status)
    BY <1>1 DEF SetMessageOutcome, TypeOK
  <2>2. status \in Reached => net[Now(p, a)][Try(p, a)] = "accepted"
    BY DEF ConfirmedBacked
  <2> QED BY <2>1, <2>2 DEF BubbleBacked
<1>5. SentWasAccepted' /\ ReceiptBacked' /\ AttemptFirst'
  BY DEF SentWasAccepted, ReceiptBacked, AttemptFirst
<1> QED BY <1>3, <1>4, <1>5, SentInvNext

LEMMA SentDevice ==
  ASSUME SentInv, TypeOK', NEW p \in Proc, NEW a \in Account, DeviceStep(p, a) PROVE SentInv'
<1> USE DEF SentInv
<1>0. ASSUME UNCHANGED <<tgt, att, msg, net, rcpt>>, NEW pc, pc \notin Busy, SetDevice(p, a, At(pc))
      PROVE  SentInv'
  BY <1>0, SetDeviceReleases, SentInvKept DEF ReportWarranted
<1>1. CASE CheckDevice(p, a)
  BY <1>0, <1>1 DEF CheckDevice, AfterCheck, Onward, Busy, rows, world
<1>2. CASE AbandonDeviceShare(p, a)
  <2>1. ReportWarranted
    BY <1>2, RowFields DEF AbandonDeviceShare, ReportWarranted, Reached, TypeOK
  <2>2. OnlyReleases
    BY <1>2, SetDeviceReleases DEF AbandonDeviceShare, Busy
  <2> QED BY <1>2, <2>1, <2>2, SentInvKept DEF AbandonDeviceShare, world
<1>3. CASE NoTarget(p, a)
  BY <1>0, <1>3 DEF NoTarget, Busy, rows, world
<1>4. CASE RenderFails(p, a)
  <2>1. Holds(p, a)
    BY <1>4 DEF RenderFails, Holds, Busy
  <2> QED BY <1>4, <2>1, InHand, DeviceFields, SentInvMoved
          DEF RenderFails, Fresh, Confirmed, rows, world
<1>5. CASE BeginAttempt(p, a)
  <2>0. Holds(p, a) /\ UNCHANGED <<tgt, msg, net, rcpt>>
    BY <1>5 DEF BeginAttempt, Holds, Busy, world
  <2> DEFINE t == Now(p, a)
             k == Try(p, a)
             d == Moved(dev[p][a], "record")
  <2>1. CASE att[t][k] # "none"
    BY <1>0, <1>5, <2>0, <2>1 DEF BeginAttempt, Busy
  <2>2. CASE att[t][k] = "none"
    <3>1. att' = [att EXCEPT ![t][k] = "sending"] /\ SetDevice(p, a, d)
      BY <1>5, <2>2 DEF BeginAttempt, Step
    <3>2. /\ t \in Target /\ k \in Tries
          /\ d.pc = "record" /\ d.target = t /\ d.try = k
      BY <2>0, InHand, DeviceFields
    <3>3. NetGrows /\ AttemptsKept /\ att'[t][k] # "none"
      BY <2>0, <3>1, <3>2 DEF NetGrows, AttemptsKept, TypeOK
    <3>4. net[t][k] = "none"
      BY <2>2, <3>2 DEF AttemptFirst
    <3>5. \A q \in Proc, b \in Account :
            dev[q][b].pc \in Fresh => /\ net'[Now(q, b)][Try(q, b)] = "none"
                                      /\ ~(Now(q, b) = t /\ Try(q, b) = k)
      BY <2>0, <2>2 DEF FreshUnsent
    <3>6. HandsSent /\ "record" \notin Confirmed
      BY DEF HandsSent, Confirmed
    <3>7. HandsSent'
      <4> HIDE DEF d, t, k
      <4> QED BY <2>0, <3>1, <3>2, <3>3, <3>4, <3>5, <3>6, HandsSentMoved
    <3>8. SentWasAccepted' /\ BubbleBacked' /\ ReceiptBacked' /\ AttemptFirst'
      BY <2>0, <3>3 DEF SentWasAccepted, BubbleBacked, ReceiptBacked, AttemptFirst, AttemptsKept
    <3> QED BY <3>7, <3>8, SentInvNext
  <2> QED BY <2>1, <2>2
<1>6. CASE RecordOutgoing(p, a)
  <2>0. Holds(p, a) /\ UNCHANGED <<tgt, att, net, rcpt>>
    BY <1>6 DEF RecordOutgoing, Holds, Busy, world
  <2> DEFINE d == Moved(dev[p][a], "send")
  <2>1. /\ Now(p, a) \in Target /\ Try(p, a) \in Tries /\ SetDevice(p, a, d)
        /\ d.pc = "send" /\ d.target = Now(p, a) /\ d.try = Try(p, a)
    BY <1>6, <2>0, InHand, DeviceFields DEF RecordOutgoing, Step
  <2>2. NetGrows /\ AttemptsKept
    BY <2>0 DEF NetGrows, AttemptsKept
  <2>3. dev[p][a].pc \in Fresh
    BY <1>6 DEF RecordOutgoing, Fresh
  <2>4. HandsSent'
    <3>1. /\ att'[Now(p, a)][Try(p, a)] # "none" /\ net'[Now(p, a)][Try(p, a)] = "none"
          /\ \A q \in Proc, b \in Account :
               dev[q][b].pc \in Fresh => net'[Now(q, b)][Try(q, b)] = "none"
      BY <2>0, <2>3 DEF FreshUnsent
    <3>2. \A q \in Proc, b \in Account :
            /\ dev[q][b].pc \in Fresh /\ Now(q, b) = Now(p, a) /\ Try(q, b) = Try(p, a)
            => q = p /\ b = a
      BY <2>3 DEF OneSender
    <3>3. HandsSent /\ "send" \notin Confirmed
      BY DEF HandsSent, Confirmed
    <3> HIDE DEF d
    <3> QED BY <2>1, <2>2, <3>1, <3>2, <3>3, HandsSentMoved
  <2>5. BubbleBacked'
    BY <1>6, <2>0 DEF RecordOutgoing, BubbleBacked, TypeOK, Reached
  <2>6. SentWasAccepted' /\ ReceiptBacked' /\ AttemptFirst'
    BY <2>0 DEF SentWasAccepted, ReceiptBacked, AttemptFirst
  <2> QED BY <2>4, <2>5, <2>6, SentInvNext
<1>7. CASE SendCampaignMessage(p, a)
  <2>0. Holds(p, a) /\ UNCHANGED <<tgt, att, msg, rcpt>> /\ dev[p][a].pc \in Fresh
    BY <1>7 DEF SendCampaignMessage, Holds, Busy, Fresh, rows
  <2> DEFINE t == Now(p, a)
             k == Try(p, a)
             d == Moved(dev[p][a], "sending")
  <2>1. CASE ~online[a]
    BY <1>7, <2>0, <2>1, InHand, DeviceFields, SentInvMoved DEF SendCampaignMessage, Fresh, Confirmed
  <2>2. CASE online[a]
    <3>1. net' = [net EXCEPT ![t][k] = "wire"] /\ SetDevice(p, a, d)
      BY <1>7, <2>2 DEF SendCampaignMessage, Step
    <3>2. /\ t \in Target /\ k \in Tries
          /\ d.pc = "sending" /\ d.target = t /\ d.try = k
      BY <2>0, InHand, DeviceFields
    <3>3. net[t][k] = "none" /\ att[t][k] # "none"
      BY <2>0 DEF FreshUnsent
    <3>4. \A u \in Target, j \in Tries : net'[u][j] = IF u = t /\ j = k THEN "wire" ELSE net[u][j]
      BY <3>1, <3>2 DEF TypeOK
    <3>5. NetGrows /\ AttemptsKept
      BY <2>0, <3>3, <3>4 DEF NetGrows, AttemptsKept
    <3>6. \A q \in Proc, b \in Account :
            dev[q][b].pc \in Fresh /\ ~(q = p /\ b = a) => net'[Now(q, b)][Try(q, b)] = "none"
      <4> SUFFICES ASSUME NEW q \in Proc, NEW b \in Account, dev[q][b].pc \in Fresh, ~(q = p /\ b = a)
                   PROVE  net'[Now(q, b)][Try(q, b)] = "none"
        OBVIOUS
      <4>1. Now(q, b) \in Target /\ Try(q, b) \in Tries
        BY InHand DEF Fresh, Holds, Busy
      <4>2. ~(Now(q, b) = t /\ Try(q, b) = k) /\ net[Now(q, b)][Try(q, b)] = "none"
        BY <2>0 DEF OneSender, FreshUnsent
      <4> QED BY <3>4, <4>1, <4>2
    <3>7. HandsSent /\ "sending" \notin Confirmed /\ "sending" \notin Fresh
      BY DEF HandsSent, Confirmed, Fresh
    <3>8. HandsSent'
      <4> HIDE DEF d, t, k
      <4> QED BY <2>0, <3>1, <3>2, <3>5, <3>6, <3>7, HandsSentMoved
    <3>9. SentWasAccepted' /\ BubbleBacked' /\ ReceiptBacked'
      BY <2>0, <3>5 DEF SentWasAccepted, BubbleBacked, ReceiptBacked, NetGrows
    <3>10. AttemptFirst'
      BY <2>0, <3>3, <3>4 DEF AttemptFirst
    <3> QED BY <3>8, <3>9, <3>10, SentInvNext
  <2> QED BY <2>1, <2>2
<1>8. CASE Acknowledged(p, a)
  <2>0. Holds(p, a) /\ net[Now(p, a)][Try(p, a)] = "accepted"
    BY <1>8 DEF Acknowledged, Holds, Busy
  <2> QED BY <1>8, <2>0, InHand, DeviceFields, SentInvMoved
          DEF Acknowledged, Step, Fresh, Confirmed, rows, world
<1>9. CASE Refused(p, a)
  <2>0. Holds(p, a) /\ UNCHANGED <<tgt, att, msg, rcpt>>
    BY <1>9 DEF Refused, Holds, Busy, rows
  <2> DEFINE t == Now(p, a)
             k == Try(p, a)
  <2>1. PICK w : SetDevice(p, a, Blamed(dev[p][a], "refused", w))
    BY <1>9 DEF Refused
  <2> DEFINE d == Blamed(dev[p][a], "refused", w)
  <2>2. /\ t \in Target /\ k \in Tries
        /\ d.pc = "refused" /\ d.target = t /\ d.try = k
    BY <2>0, InHand, DeviceFields
  <2>3. /\ net[t][k] = "wire"
        /\ \A u \in Target, j \in Tries :
             net'[u][j] = IF u = t /\ j = k THEN "dropped" ELSE net[u][j]
    BY <1>9, <2>2 DEF Refused, TypeOK
  <2>4. NetGrows /\ AttemptsKept
    BY <2>0, <2>3 DEF NetGrows, AttemptsKept
  <2>5. \A q \in Proc, b \in Account :
          dev[q][b].pc \in Fresh => net'[Now(q, b)][Try(q, b)] = "none"
    <3> SUFFICES ASSUME NEW q \in Proc, NEW b \in Account, dev[q][b].pc \in Fresh
                 PROVE  net'[Now(q, b)][Try(q, b)] = "none"
      OBVIOUS
    <3>1. Now(q, b) \in Target /\ Try(q, b) \in Tries /\ net[Now(q, b)][Try(q, b)] = "none"
      BY InHand DEF FreshUnsent, Fresh, Holds, Busy
    <3> QED BY <2>3, <3>1
  <2>6. HandsSent /\ "refused" \notin Confirmed /\ "refused" \notin Fresh
    BY DEF HandsSent, Confirmed, Fresh
  <2>7. HandsSent'
    <3> HIDE DEF d, t, k
    <3> QED BY <2>1, <2>2, <2>4, <2>5, <2>6, HandsSentMoved DEF d
  <2>8. SentWasAccepted' /\ BubbleBacked' /\ ReceiptBacked'
    BY <2>0, <2>4 DEF SentWasAccepted, BubbleBacked, ReceiptBacked, NetGrows
  <2>9. AttemptFirst'
    BY <2>0, <2>3 DEF AttemptFirst
  <2> QED BY <2>7, <2>8, <2>9, SentInvNext
<1>10. CASE SendTimedOut(p, a)
  <2>0. Holds(p, a)
    BY <1>10 DEF SendTimedOut, Holds, Busy
  <2> QED BY <1>10, <2>0, InHand, DeviceFields, SentInvMoved
          DEF SendTimedOut, Fresh, Confirmed, rows, world
<1>11. CASE MessageSent(p, a)
  BY <1>11, SentOutcome DEF MessageSent, Holds, Busy, Fresh, Confirmed, world
<1>12. CASE MessageFailed(p, a)
  BY <1>12, SentOutcome DEF MessageFailed, Holds, Busy, Fresh, Confirmed, Reached, world
<1>13. CASE FinishAttemptSent(p, a)
  <2>0. Holds(p, a) /\ UNCHANGED <<msg, net, rcpt>> /\ OnlyReleases
    BY <1>13, SetDeviceReleases DEF FinishAttemptSent, Holds, Busy, world
  <2> DEFINE t == Now(p, a)
             k == Try(p, a)
  <2>1. t \in Target /\ k \in Tries /\ net[t][k] = "accepted" /\ tgt[t] \in Recipient
    BY <1>13, <2>0, InHand DEF FinishAttemptSent, ConfirmedBacked, Confirmed
  <2>2. CASE UNCHANGED <<camp, tgt, att>>
    BY <2>0, <2>2, SentInvKept DEF ReportWarranted
  <2>3. CASE /\ att' = [att EXCEPT ![t][k] = "sent"]
             /\ tgt' = [tgt EXCEPT ![t] = SentAs(tgt[t], k, "none")]
    <3>1. NetGrows /\ AttemptsKept
      BY <2>0, <2>1, <2>3 DEF NetGrows, AttemptsKept, TypeOK
    <3>2. ReportWarranted
      BY <2>0, <2>1, <2>3, RowFields DEF ReportWarranted, TypeOK
    <3>3. HandsSent'
      BY <2>0, <3>1, HandsSentKept DEF HandsSent, FreshUnsent
    <3>4. SentWasAccepted'
      BY <3>1, <3>2, SentWasAcceptedKept
    <3>5. BubbleBacked' /\ ReceiptBacked' /\ AttemptFirst'
      BY <2>0, <3>1 DEF BubbleBacked, ReceiptBacked, AttemptFirst, AttemptsKept
    <3> QED BY <3>3, <3>4, <3>5, SentInvNext
  <2> QED BY <1>13, <2>2, <2>3 DEF FinishAttemptSent, Now, Try
<1>14. CASE FinishAttemptFailed(p, a)
  <2>0. Holds(p, a) /\ UNCHANGED <<msg, net, rcpt>> /\ OnlyReleases
    BY <1>14, SetDeviceReleases DEF FinishAttemptFailed, Holds, Busy, world
  <2> DEFINE t == Now(p, a)
             k == Try(p, a)
  <2>1. t \in Target /\ k \in Tries /\ tgt[t] \in Recipient
    BY <2>0, InHand
  <2>2. att' = att \/ att' = [att EXCEPT ![t][k] = "failed"]
    BY <1>14 DEF FinishAttemptFailed
  <2>3. NetGrows /\ AttemptsKept
    <3>1. CASE att' = att
      BY <2>0, <3>1 DEF NetGrows, AttemptsKept
    <3>2. CASE att' = [att EXCEPT ![t][k] = "failed"]
      BY <2>0, <2>1, <3>2 DEF NetGrows, AttemptsKept, TypeOK
    <3> QED BY <2>2, <3>1, <3>2
  <2>4. ReportWarranted
    <3>1. \A u \in Target : tgt'[u] = tgt[u] \/ tgt'[u].status \in {"retry_wait", "failed"}
      BY <1>14, <2>1, RowFields DEF FinishAttemptFailed, TypeOK
    <3> QED BY <3>1 DEF ReportWarranted, Reached
  <2>5. HandsSent'
    BY <2>0, <2>3, HandsSentKept DEF HandsSent, FreshUnsent
  <2>6. SentWasAccepted'
    BY <2>3, <2>4, SentWasAcceptedKept
  <2>7. BubbleBacked' /\ ReceiptBacked' /\ AttemptFirst'
    BY <2>0, <2>3 DEF BubbleBacked, ReceiptBacked, AttemptFirst, AttemptsKept
  <2> QED BY <2>5, <2>6, <2>7, SentInvNext
<1> QED BY <1>1, <1>2, <1>3, <1>4, <1>5, <1>6, <1>7, <1>8, <1>9, <1>10, <1>11, <1>12, <1>13, <1>14
     DEF DeviceStep

LEMMA SentProcess ==
  ASSUME SentInv, TypeOK', NEW p \in Proc, ProcessStep(p) PROVE SentInv'
<1> USE DEF SentInv
<1>0. ASSUME UNCHANGED <<tgt, att, msg, net, rcpt>>, OnlyReleases PROVE SentInv'
  BY <1>0, SentInvKept DEF ReportWarranted
<1>1. CASE ClaimDueCampaigns(p)
  BY <1>0, <1>1 DEF ClaimDueCampaigns, world, OnlyReleases
<1>2. CASE RenewCampaignLease(p)
  BY <1>0, <1>2 DEF RenewCampaignLease, world, OnlyReleases
<1>3. CASE CloseOrphanedTargets(p)
  <2>1. ReportWarranted
    BY <1>3, RowFields DEF CloseOrphanedTargets, ReportWarranted, Reached, TypeOK
  <2> QED BY <1>3, <2>1, SentInvKept DEF CloseOrphanedTargets, world, OnlyReleases
<1>4. CASE WorkerStep(p)
  BY <1>4, SentWorker
<1>5. CASE WorkerError(p)
  BY <1>0, <1>5 DEF WorkerError, rows, world, OnlyReleases
<1>6. ASSUME NEW a \in Account, DeviceStep(p, a) PROVE SentInv'
  BY <1>6, SentDevice
<1>7. ASSUME NEW a \in Account, ClaimTarget(p, a) PROVE SentInv'
  <2>1. PICK t \in Target :
          /\ tgt[t].attempt < MaxTries
          /\ tgt' = [tgt EXCEPT ![t] = Claimed(tgt[t])]
          /\ SetDevice(p, a, Holding(t, tgt[t].attempt + 1))
    BY <1>7 DEF ClaimTarget
  <2>2. UNCHANGED <<att, msg, net, rcpt>>
    BY <1>7 DEF ClaimTarget, world
  <2>3. tgt[t] \in Recipient /\ tgt[t].attempt + 1 \in Tries
    BY <2>1, TriesRange DEF TypeOK, Recipient
  <2> DEFINE d == Holding(t, tgt[t].attempt + 1)
  <2>4. d.pc = "pace" /\ d.target \in Target /\ d.try \in Tries
    BY <2>3, DeviceFields
  <2>5. NetGrows /\ AttemptsKept /\ "pace" \notin Confirmed /\ "pace" \notin Fresh
    BY <2>2 DEF NetGrows, AttemptsKept, Confirmed, Fresh
  <2>6. HandsSent'
    <3>1. HandsSent /\ \A q \in Proc, b \in Account :
            dev[q][b].pc \in Fresh => net'[Now(q, b)][Try(q, b)] = "none"
      BY <2>2 DEF HandsSent, FreshUnsent
    <3> HIDE DEF d
    <3> QED BY <2>1, <2>4, <2>5, <3>1, HandsSentMoved DEF d
  <2>7. ReportWarranted
    BY <2>1, <2>3, RowFields DEF ReportWarranted, Reached, TypeOK
  <2>8. SentWasAccepted'
    BY <2>5, <2>7, SentWasAcceptedKept
  <2>9. BubbleBacked' /\ ReceiptBacked' /\ AttemptFirst'
    BY <2>2 DEF BubbleBacked, ReceiptBacked, AttemptFirst
  <2> QED BY <2>6, <2>8, <2>9, SentInvNext
<1>8. ASSUME NEW a \in Account, CancelUnread(p, a) PROVE SentInv'
  <2>1. OnlyReleases
    BY <1>8, SetDeviceReleases DEF CancelUnread, Onward, Busy
  <2> QED BY <1>0, <1>8, <2>1 DEF CancelUnread, rows, world
<1>9. ASSUME NEW a \in Account, DeviceError(p, a) PROVE SentInv'
  <2> DEFINE next == DeviceAfterError[dev[p][a].pc]
  <2>0. UNCHANGED <<tgt, att, msg, net, rcpt>>
    BY <1>9 DEF DeviceError, rows, world
  <2>1. CASE next \in {"running", "done"}
    <3>1. OnlyReleases
      BY <1>9, <2>1, SetDeviceReleases DEF DeviceError, Busy
    <3> QED BY <1>0, <2>0, <3>1
  <2>2. CASE next \notin {"running", "done"}
    <3>1. SetDevice(p, a, Moved(dev[p][a], next))
      BY <1>9, <2>2 DEF DeviceError
    <3>2. \/ dev[p][a].pc = "record" /\ next = "send"
          \/ dev[p][a].pc = "acked" /\ next = "sent"
          \/ dev[p][a].pc = "refused" /\ next = "failed"
      BY <1>9, <2>2 DEF DeviceError, DeviceAfterError
    <3>3. /\ Holds(p, a)
          /\ next \in Fresh => dev[p][a].pc \in Fresh
          /\ next \in Confirmed => dev[p][a].pc \in Confirmed
      BY <3>2 DEF Holds, Busy, Fresh, Confirmed
    <3> HIDE DEF next
    <3> QED BY <2>0, <3>1, <3>3, InHand, DeviceFields, SentInvMoved
  <2> QED BY <2>1, <2>2
<1>10. CASE Crash(p)
  <2>1. OnlyReleases
    BY <1>10, ResetReleases, DeviceFields DEF Crash, Busy
  <2> QED BY <1>0, <1>10, <2>1 DEF Crash, world
<1>11. CASE Restart(p)
  BY <1>0, <1>11 DEF Restart, rows, world, OnlyReleases
<1> QED BY <1>1, <1>2, <1>3, <1>4, <1>5, <1>6, <1>7, <1>8, <1>9, <1>10, <1>11 DEF ProcessStep

LEMMA SentOperator ==
  ASSUME SentInv, TypeOK', OperatorStep PROVE SentInv'
<1> USE DEF SentInv, world, OnlyReleases
<1>0. ASSUME UNCHANGED <<tgt, att, msg, net, rcpt, dev>> PROVE SentInv'
  BY <1>0, SentInvKept DEF ReportWarranted
<1>r. ASSUME RequestCancel PROVE ReportWarranted
  BY <1>r, RowFields DEF RequestCancel, ReportWarranted, Reached, TypeOK
<1>1. CASE CancelCampaign
  BY <1>1, <1>r, SentInvKept DEF CancelCampaign
<1>2. CASE RetryFailed
  <2>1. ReportWarranted
    BY <1>2, RowFields DEF RetryFailed, ReportWarranted, Reached, TypeOK
  <2> QED BY <1>2, <2>1, SentInvKept DEF RetryFailed
<1>3. CASE RunNow
  BY <1>0, <1>3 DEF RunNow
<1>4. CASE ScheduleCampaign
  BY <1>0, <1>4 DEF ScheduleCampaign
<1>5. CASE ResendChecked
  BY <1>0, <1>5 DEF ResendChecked, rows
<1>6. CASE ResetTargets
  <2>1. ReportWarranted
    BY <1>6 DEF ResetTargets, NewRecipient, ReportWarranted, Reached
  <2> QED BY <1>6, <2>1, SentInvKept DEF ResetTargets
<1>7. CASE ResetCampaign
  BY <1>0, <1>7 DEF ResetCampaign
<1>8. CASE ArchiveChecked
  BY <1>0, <1>8 DEF ArchiveChecked, rows
<1>9. CASE ArchiveStops
  <2>1. CASE Cancellable
    BY <1>9, <2>1, <1>r, SentInvKept DEF ArchiveStops
  <2>2. CASE ~Cancellable
    BY <1>0, <1>9, <2>2 DEF ArchiveStops
  <2> QED BY <2>1, <2>2
<1>10. CASE ArchiveCampaign
  BY <1>0, <1>10 DEF ArchiveCampaign
<1>11. CASE UnarchiveCampaign
  BY <1>0, <1>11 DEF UnarchiveCampaign
<1> QED BY <1>1, <1>2, <1>3, <1>4, <1>5, <1>6, <1>7, <1>8, <1>9, <1>10, <1>11 DEF OperatorStep

LEMMA SentWorld ==
  ASSUME SentInv, TypeOK', WorldStep PROVE SentInv'
<1> USE DEF SentInv
<1>0. ASSUME UNCHANGED <<tgt, att, msg, net, rcpt, dev>> PROVE SentInv'
  BY <1>0, SentInvKept DEF ReportWarranted, OnlyReleases
<1>1. ASSUME NEW t \in Target, NEW k \in Tries, Accept(t, k) \/ Drop(t, k) PROVE SentInv'
  <2>0. UNCHANGED <<tgt, att, msg, rcpt, dev>>
    BY <1>1 DEF Accept, Drop, rows
  <2>1. PICK fate : net[t][k] = "wire" /\ net' = [net EXCEPT ![t][k] = fate]
    BY <1>1 DEF Accept, Drop
  <2>2. \A u \in Target, j \in Tries : net'[u][j] = IF u = t /\ j = k THEN fate ELSE net[u][j]
    BY <2>1 DEF TypeOK
  <2>3. NetGrows /\ AttemptsKept /\ OnlyReleases
    BY <2>0, <2>1, <2>2 DEF NetGrows, AttemptsKept, OnlyReleases
  <2>4. \A q \in Proc, b \in Account :
          dev[q][b].pc \in Fresh => net'[Now(q, b)][Try(q, b)] = "none"
    <3> SUFFICES ASSUME NEW q \in Proc, NEW b \in Account, dev[q][b].pc \in Fresh
                 PROVE  net'[Now(q, b)][Try(q, b)] = "none"
      OBVIOUS
    <3>1. Now(q, b) \in Target /\ Try(q, b) \in Tries /\ net[Now(q, b)][Try(q, b)] = "none"
      BY InHand DEF FreshUnsent, Fresh, Holds, Busy
    <3> QED BY <2>1, <2>2, <3>1
  <2>5. HandsSent'
    BY <2>3, <2>4, HandsSentKept DEF HandsSent
  <2>6. SentWasAccepted' /\ BubbleBacked' /\ ReceiptBacked'
    BY <2>0, <2>3 DEF SentWasAccepted, BubbleBacked, ReceiptBacked, NetGrows
  <2>7. AttemptFirst'
    BY <2>0, <2>1, <2>2 DEF AttemptFirst
  <2> QED BY <2>5, <2>6, <2>7, SentInvNext
<1>2. ASSUME NEW t \in Target, NEW k \in Tries, NEW r \in ReceiptType,
             AdvanceCampaignTargets(t, k, r)
      PROVE  SentInv'
  <2>0. UNCHANGED <<att, msg, net, dev>> /\ net[t][k] = "accepted"
    BY <1>2 DEF AdvanceCampaignTargets
  <2>1. tgt' = tgt \/ tgt' = [tgt EXCEPT ![t] = AdvancedTarget(t, k, r)]
    BY <1>2 DEF AdvanceCampaignTargets
  <2>2. NetGrows /\ AttemptsKept /\ OnlyReleases
    BY <2>0 DEF NetGrows, AttemptsKept, OnlyReleases
  <2>3. HandsSent'
    BY <2>0, <2>2, HandsSentKept DEF HandsSent, FreshUnsent
  <2>4. ReportWarranted
    <3>1. tgt[t] \in Recipient
      BY DEF TypeOK
    <3>2. AdvancedTarget(t, k, r) = tgt[t]
            \/ (tgt[t].status \in Reached /\ AdvancedTarget(t, k, r).wamid = tgt[t].wamid)
      BY <3>1, RowFields DEF AdvancedTarget
    <3> QED BY <2>1, <3>2 DEF ReportWarranted, TypeOK
  <2>5. SentWasAccepted'
    BY <2>2, <2>4, SentWasAcceptedKept
  <2>6. ReceiptBacked'
    BY <1>2, <2>0 DEF AdvanceCampaignTargets, ReceiptBacked, TypeOK
  <2>7. BubbleBacked' /\ AttemptFirst'
    BY <2>0 DEF BubbleBacked, AttemptFirst
  <2> QED BY <2>3, <2>5, <2>6, <2>7, SentInvNext
<1>3. ASSUME NEW t \in Target, NEW k \in Tries, NEW r \in ReceiptType,
             AdvanceMessageStatus(t, k, r)
      PROVE  SentInv'
  <2>0. UNCHANGED <<tgt, att, net, dev>>
    BY <1>3 DEF AdvanceMessageStatus
  <2>1. net[t][k] = "accepted"
    BY <1>3 DEF AdvanceMessageStatus, ReceiptBacked
  <2>2. NetGrows /\ AttemptsKept /\ OnlyReleases
    BY <2>0 DEF NetGrows, AttemptsKept, OnlyReleases
  <2>3. HandsSent'
    BY <2>0, <2>2, HandsSentKept DEF HandsSent, FreshUnsent
  <2>4. BubbleBacked'
    <3>1. msg' = msg \/ msg' = [msg EXCEPT ![t][k] = r]
      BY <1>3 DEF AdvanceMessageStatus
    <3>2. CASE msg' = msg
      BY <2>0, <3>2 DEF BubbleBacked
    <3>3. CASE msg' = [msg EXCEPT ![t][k] = r]
      BY <2>0, <2>1, <3>3 DEF BubbleBacked, TypeOK
    <3> QED BY <3>1, <3>2, <3>3
  <2>5. ReceiptBacked'
    BY <1>3, <2>0, <2>1 DEF AdvanceMessageStatus, ReceiptBacked, TypeOK
  <2>6. SentWasAccepted' /\ AttemptFirst'
    BY <2>0 DEF SentWasAccepted, AttemptFirst
  <2> QED BY <2>3, <2>4, <2>5, <2>6, SentInvNext
<1>4. ASSUME NEW a \in Account, GoOffline(a) \/ GoOnline(a) PROVE SentInv'
  BY <1>0, <1>4 DEF GoOffline, GoOnline, rows
<1>5. ASSUME NEW t \in Target, ExpireTargetLease(t) PROVE SentInv'
  <2>1. ReportWarranted
    BY <1>5, RowFields DEF ExpireTargetLease, ReportWarranted, TypeOK
  <2> QED BY <1>5, <2>1, SentInvKept DEF ExpireTargetLease, world, OnlyReleases
<1>6. CASE ExpireCampaignLease
  BY <1>0, <1>6 DEF ExpireCampaignLease, world
<1>7. CASE GracePeriodEnds
  BY <1>0, <1>7 DEF GracePeriodEnds, world
<1> QED BY <1>1, <1>2, <1>3, <1>4, <1>5, <1>6, <1>7 DEF WorldStep

LEMMA SentInit == Init => SentInv
<1> SUFFICES ASSUME Init PROVE SentInv
  OBVIOUS
<1>1. TypeOK
  BY TypeInit
<1>2. \A p \in Proc, a \in Account : dev[p][a].pc = "off"
  BY DeviceFields DEF Init
<1>3. HandsOK /\ ConfirmedBacked /\ FreshUnsent /\ OneSender
  BY <1>2 DEF HandsOK, ConfirmedBacked, FreshUnsent, OneSender, Holds, Busy, Confirmed, Fresh
<1>4. SentWasAccepted /\ BubbleBacked /\ ReceiptBacked /\ AttemptFirst
  BY DEF Init, NewRecipient, Reached, SentWasAccepted, BubbleBacked, ReceiptBacked, AttemptFirst
<1> QED BY <1>1, <1>3, <1>4 DEF SentInv

LEMMA SentStep == SentInv /\ [Next]_vars => SentInv'
<1> SUFFICES ASSUME SentInv, [Next]_vars PROVE SentInv'
  OBVIOUS
<1>1. TypeOK'
  BY TypeStep DEF SentInv
<1>2. CASE Next
  BY <1>1, <1>2, SentProcess, SentOperator, SentWorld DEF Next
<1>3. CASE UNCHANGED vars
  BY <1>1, <1>3, SentInvKept DEF vars, OnlyReleases, ReportWarranted
<1> QED BY <1>2, <1>3

\* Whoever holds a recipient, the rows, the messages and the receipts of its
\* attempt stay as far along as each other, in every state the queue can reach.
THEOREM SentInvariant == Spec => []SentInv
BY SentInit, SentStep, PTL DEF Spec

\* The report never claims a delivery that did not happen, whatever crashes, lost
\* statements, stolen leases and operators' requests do: every statement that
\* writes "sent" has WhatsApp's own answer, or a message row marked by it, behind it.
THEOREM SentWasAcceptedAlways == Spec => []SentWasAccepted
<1>1. SentInv => SentWasAccepted
  BY DEF SentInv
<1> QED BY <1>1, SentInvariant, PTL

-----------------------------------------------------------------------------
(* AtMostOnce *)

\* Between the claim and the network call.
Early == {"pace"} \cup Fresh

Excused(d) == d.pc \in {"refused", "failed"} /\ d.why \in {"build", "refused"}

\* A statement that puts nobody back into the queue and counts no attempt.
QueueShrinks ==
  \A t \in Target :
    /\ tgt'[t].attempt = tgt[t].attempt
    /\ tgt'[t].status \in Waiting => tgt[t].status \in Waiting

\* A step whose goroutines only let go of recipients.
LEMMA OnceKept ==
  ASSUME OnceInv, TypeOK', NoResend', OnlyReleases, QueueShrinks, UNCHANGED net
  PROVE  OnceInv'
<1> USE DEF OnceInv, OnlyReleases, Holds, Now, Try, InFlight
<1>1. HandsOK'
  BY DEF HandsOK
<1>2. HeldOut'
  BY DEF HeldOut, HandsOK, QueueShrinks
<1>3. OneHolder'
  BY DEF OneHolder
<1>4. LastAttempt' /\ AttemptsAhead'
  BY DEF LastAttempt, AttemptsAhead, QueueShrinks
<1>5. UnsentYet' /\ RetriedUnsent'
  BY DEF UnsentYet, RetriedUnsent, Fresh, Busy
<1> QED BY <1>1, <1>2, <1>3, <1>4, <1>5

\* A goroutine that goes on with its recipient; the message may leave.
LEMMA OnceMoved ==
  ASSUME OnceInv, TypeOK', NoResend', UNCHANGED tgt,
         NEW p \in Proc, NEW a \in Account, Holds(p, a),
         NEW d, SetDevice(p, a, d), d.target = Now(p, a), d.try = Try(p, a),
         d.pc \in Early => net'[Now(p, a)][Try(p, a)] = "none",
         Excused(d) => net'[Now(p, a)][Try(p, a)] \notin {"wire", "accepted"},
         \A t \in Target, k \in Tries :
            net'[t][k] = net[t][k] \/ (t = Now(p, a) /\ k = Try(p, a))
  PROVE  OnceInv'
<1> USE DEF OnceInv
<1>0. /\ dev'[p][a] = d
      /\ \A q \in Proc, b \in Account : (q = p /\ b = a) \/ dev'[q][b] = dev[q][b]
  BY SetDeviceFact
<1>1. /\ Now(p, a) \in Target /\ Try(p, a) \in Tries
      /\ tgt[Now(p, a)].attempt = Try(p, a) /\ tgt[Now(p, a)].status \notin Waiting
  BY DEF HandsOK, HeldOut
<1>2. HandsOK'
  BY <1>0, <1>1 DEF HandsOK, Holds, Now, Try
<1>3. HeldOut'
  BY <1>0, <1>1 DEF HeldOut, Holds, Now, Try
<1>4. OneHolder'
  BY <1>0 DEF OneHolder, Holds, Now, Try
<1>5. LastAttempt' /\ AttemptsAhead'
  <2>1. AttemptsAhead'
    <3>1. ~(Try(p, a) > Try(p, a))
      BY <1>1, TriesRange
    <3> QED BY <1>1, <3>1 DEF AttemptsAhead
  <2>2. LastAttempt'
    BY <1>1 DEF LastAttempt, InFlight
  <2> QED BY <2>1, <2>2
<1>6. ASSUME NEW q \in Proc, NEW b \in Account, ~(q = p /\ b = a), Holds(q, b)
      PROVE  net'[Now(q, b)][Try(q, b)] = net[Now(q, b)][Try(q, b)]
  BY <1>6 DEF HandsOK, OneHolder
<1>7. UnsentYet'
  BY <1>0, <1>6 DEF UnsentYet, Early, Fresh, Holds, Busy, Now, Try
<1>8. RetriedUnsent'
  BY <1>0, <1>6 DEF RetriedUnsent, Excused, InFlight, Holds, Busy, Now, Try
<1> QED BY <1>2, <1>3, <1>4, <1>5, <1>7, <1>8

LEMMA OnceWorker ==
  ASSUME OnceInv, TypeOK', NEW p \in Proc, WorkerStep(p) PROVE OnceInv'
<1> USE DEF OnceInv, book, world
<1>0. ASSUME UNCHANGED <<tgt, net, ui>>, OnlyReleases PROVE OnceInv'
  BY <1>0, OnceKept DEF QueueShrinks, NoResend
<1>1. CASE ReconcileStuckTargets(p)
  <2>1. UNCHANGED <<net, ui, dev>>
    BY <1>1 DEF ReconcileStuckTargets
  <2>2. ASSUME NEW t \in Target
        PROVE  /\ ReconciledTarget(t).attempt = tgt[t].attempt
               /\ ReconciledTarget(t).status \in Waiting => tgt[t].status \in Waiting
    <3>1. tgt[t] \in Recipient
      BY DEF TypeOK
    <3> QED BY <3>1, RowFields DEF ReconciledTarget, Waiting
  <2>3. QueueShrinks
    BY <1>1, <2>2 DEF ReconcileStuckTargets, QueueShrinks
  <2> QED BY <2>1, <2>3, OnceKept DEF OnlyReleases, NoResend
<1>2. CASE CheckCancel(p)
  BY <1>0, <1>2 DEF CheckCancel, rows, OnlyReleases
<1>3. CASE FetchMedia(p)
  <2>1. OnlyReleases
    BY <1>3, ResetReleases, DeviceFields DEF FetchMedia, OnlyReleases, Busy
  <2> QED BY <1>0, <1>3, <2>1 DEF FetchMedia, rows
<1>4. CASE DevicesDone(p)
  <2>1. OnlyReleases
    BY <1>4, ResetReleases, DeviceFields DEF DevicesDone, Busy
  <2> QED BY <1>0, <1>4, <2>1 DEF DevicesDone, rows
<1>5. CASE ClearCampaignStalled(p)
  BY <1>0, <1>5 DEF ClearCampaignStalled, OnlyReleases
<1>6. CASE MarkCampaignStalled(p)
  BY <1>0, <1>6 DEF MarkCampaignStalled, OnlyReleases
<1>7. CASE FailCampaign(p)
  BY <1>0, <1>7 DEF FailCampaign, OnlyReleases
<1>8. CASE ReleaseCampaign(p)
  BY <1>0, <1>8 DEF ReleaseCampaign, OnlyReleases
<1>9. CASE PendingTargetCount(p)
  BY <1>0, <1>9 DEF PendingTargetCount, rows, OnlyReleases
<1>10. CASE FinishCampaign(p)
  BY <1>0, <1>10 DEF FinishCampaign, OnlyReleases
<1>11. CASE CancelRemainingWork(p)
  <2>1. QueueShrinks
    BY <1>11, RowFields DEF CancelRemainingWork, QueueShrinks, Waiting, TypeOK
  <2> QED BY <1>11, <2>1, OnceKept DEF CancelRemainingWork, OnlyReleases, NoResend
<1>12. ASSUME NEW a \in Account, LaunchDevice(p, a) PROVE OnceInv'
  <2>1. OnlyReleases
    BY <1>12, SetDeviceReleases DEF LaunchDevice, Busy
  <2> QED BY <1>0, <1>12, <2>1 DEF LaunchDevice, rows
<1> QED BY <1>1, <1>2, <1>3, <1>4, <1>5, <1>6, <1>7, <1>8, <1>9, <1>10, <1>11, <1>12 DEF WorkerStep

LEMMA OnceDevice ==
  ASSUME OnceInv, TypeOK', NEW p \in Proc, NEW a \in Account, DeviceStep(p, a) PROVE OnceInv'
<1> USE DEF OnceInv
<1>u. UNCHANGED ui /\ NoResend'
  BY DEF NoResend, DeviceStep, CheckDevice, AbandonDeviceShare, NoTarget, RenderFails, BeginAttempt,
         RecordOutgoing, SendCampaignMessage, Acknowledged, Refused, SendTimedOut, MessageSent,
         MessageFailed, FinishAttemptSent, FinishAttemptFailed, book
<1>0. ASSUME UNCHANGED <<tgt, net>>, NEW pc, pc \notin Busy, SetDevice(p, a, At(pc))
      PROVE  OnceInv'
  BY <1>0, <1>u, SetDeviceReleases, OnceKept DEF QueueShrinks
<1>m. ASSUME UNCHANGED <<tgt, net>>, Holds(p, a),
             NEW d, SetDevice(p, a, d), d.target = Now(p, a), d.try = Try(p, a),
             d.pc \in Early => dev[p][a].pc \in Early,
             Excused(d) => Excused(dev[p][a]) \/ net[Now(p, a)][Try(p, a)] = "none"
      PROVE  OnceInv'
  <2>1. d.pc \in Early => net'[Now(p, a)][Try(p, a)] = "none"
    BY <1>m DEF UnsentYet, Early
  <2>2. Excused(d) => net'[Now(p, a)][Try(p, a)] \notin {"wire", "accepted"}
    BY <1>m DEF RetriedUnsent, Excused, InFlight
  <2> QED BY <1>m, <1>u, <2>1, <2>2, OnceMoved
<1>s. ASSUME NEW pc, UNCHANGED <<tgt, net>>, Holds(p, a), Step(p, a, pc),
             pc \in Early => dev[p][a].pc \in Early,
             pc = "failed" => dev[p][a].pc = "refused", pc # "refused"
      PROVE  OnceInv'
  <2> DEFINE d == Moved(dev[p][a], pc)
  <2>1. /\ SetDevice(p, a, d) /\ d.pc = pc /\ d.why = dev[p][a].why
        /\ d.target = Now(p, a) /\ d.try = Try(p, a)
    BY <1>s, InHand, DeviceFields DEF Step
  <2>2. Excused(d) => Excused(dev[p][a])
    BY <1>s, <2>1 DEF Excused
  <2> HIDE DEF d
  <2> QED BY <1>m, <1>s, <2>1, <2>2
<1>1. CASE CheckDevice(p, a)
  BY <1>0, <1>1 DEF CheckDevice, AfterCheck, Onward, Busy, rows, world
<1>2. CASE AbandonDeviceShare(p, a)
  <2>1. QueueShrinks
    BY <1>2, RowFields DEF AbandonDeviceShare, QueueShrinks, Waiting, TypeOK
  <2>2. OnlyReleases
    BY <1>2, SetDeviceReleases DEF AbandonDeviceShare, Busy
  <2> QED BY <1>2, <1>u, <2>1, <2>2, OnceKept DEF AbandonDeviceShare, world
<1>3. CASE NoTarget(p, a)
  BY <1>0, <1>3 DEF NoTarget, Busy, rows, world
<1>4. CASE RenderFails(p, a)
  <2>1. Holds(p, a) /\ UNCHANGED <<tgt, net>>
    BY <1>4 DEF RenderFails, Holds, Busy, rows, world
  <2> DEFINE d == Blamed(dev[p][a], "failed", "build")
  <2>2. /\ SetDevice(p, a, d) /\ d.pc = "failed" /\ d.target = Now(p, a) /\ d.try = Try(p, a)
    BY <1>4, <2>1, InHand, DeviceFields DEF RenderFails
  <2>3. net[Now(p, a)][Try(p, a)] = "none"
    BY <1>4 DEF RenderFails, UnsentYet
  <2>4. d.pc \notin Early
    BY <2>2 DEF Early, Fresh
  <2> HIDE DEF d
  <2> QED BY <1>m, <2>1, <2>2, <2>3, <2>4
<1>5. CASE BeginAttempt(p, a)
  <2>1. Holds(p, a) /\ UNCHANGED <<tgt, net>>
    BY <1>5 DEF BeginAttempt, Holds, Busy, world
  <2>2. Step(p, a, "record") \/ SetDevice(p, a, At("running"))
    BY <1>5 DEF BeginAttempt
  <2>3. CASE Step(p, a, "record")
    BY <1>5, <1>s, <2>1, <2>3 DEF BeginAttempt, Early
  <2>4. CASE SetDevice(p, a, At("running"))
    BY <1>0, <2>1, <2>4 DEF Busy
  <2> QED BY <2>2, <2>3, <2>4
<1>6. CASE RecordOutgoing(p, a)
  <2>1. Holds(p, a) /\ UNCHANGED <<tgt, net>> /\ dev[p][a].pc \in Early
    BY <1>6 DEF RecordOutgoing, Holds, Busy, world, Early, Fresh
  <2> QED BY <1>6, <1>s, <2>1 DEF RecordOutgoing
<1>7. CASE SendCampaignMessage(p, a)
  <2>1. Holds(p, a) /\ UNCHANGED tgt /\ net[Now(p, a)][Try(p, a)] = "none"
    BY <1>7 DEF SendCampaignMessage, Holds, Busy, rows, UnsentYet, Fresh
  <2>2. CASE ~online[a]
    <3> DEFINE d == Blamed(dev[p][a], "refused", "refused")
    <3>1. /\ SetDevice(p, a, d) /\ d.pc = "refused"
          /\ d.target = Now(p, a) /\ d.try = Try(p, a) /\ UNCHANGED net
      BY <1>7, <2>1, <2>2, InHand, DeviceFields DEF SendCampaignMessage
    <3>2. d.pc \notin Early
      BY <3>1 DEF Early, Fresh
    <3> HIDE DEF d
    <3> QED BY <1>m, <2>1, <3>1, <3>2
  <2>3. CASE online[a]
    <3> DEFINE d == Moved(dev[p][a], "sending")
    <3>1. net' = [net EXCEPT ![Now(p, a)][Try(p, a)] = "wire"] /\ SetDevice(p, a, d)
      BY <1>7, <2>3 DEF SendCampaignMessage, Step
    <3>2. d.pc = "sending" /\ d.target = Now(p, a) /\ d.try = Try(p, a)
      BY <2>1, InHand, DeviceFields
    <3>3. \A t \in Target, k \in Tries :
            net'[t][k] = net[t][k] \/ (t = Now(p, a) /\ k = Try(p, a))
      BY <3>1 DEF TypeOK
    <3>4. d.pc \notin Early /\ ~Excused(d)
      BY <3>2 DEF Early, Fresh, Excused
    <3> HIDE DEF d
    <3> QED BY <1>u, <2>1, <3>1, <3>2, <3>3, <3>4, OnceMoved
  <2> QED BY <2>2, <2>3
<1>8. CASE Acknowledged(p, a)
  <2>1. Holds(p, a) /\ UNCHANGED <<tgt, net>> /\ "acked" \notin Early
    BY <1>8 DEF Acknowledged, Holds, Busy, rows, world, Early, Fresh
  <2> QED BY <1>8, <1>s, <2>1 DEF Acknowledged
<1>9. CASE Refused(p, a)
  <2>1. Holds(p, a) /\ UNCHANGED tgt
    BY <1>9 DEF Refused, Holds, Busy, rows
  <2>2. PICK w : SetDevice(p, a, Blamed(dev[p][a], "refused", w))
    BY <1>9 DEF Refused
  <2> DEFINE d == Blamed(dev[p][a], "refused", w)
  <2>3. d.pc = "refused" /\ d.target = Now(p, a) /\ d.try = Try(p, a)
    BY <2>1, InHand, DeviceFields
  <2>4. d.pc \notin Early
    BY <2>3 DEF Early, Fresh
  <2>5. /\ net'[Now(p, a)][Try(p, a)] = "dropped"
        /\ \A t \in Target, k \in Tries :
             net'[t][k] = net[t][k] \/ (t = Now(p, a) /\ k = Try(p, a))
    BY <1>9, <2>1, InHand DEF Refused, TypeOK
  <2> HIDE DEF d
  <2> QED BY <1>u, <2>1, <2>2, <2>3, <2>4, <2>5, OnceMoved DEF d
<1>10. CASE SendTimedOut(p, a)
  <2>1. Holds(p, a) /\ UNCHANGED <<tgt, net>>
    BY <1>10 DEF SendTimedOut, Holds, Busy, rows, world
  <2> DEFINE d == Blamed(dev[p][a], "refused", "timeout")
  <2>2. /\ SetDevice(p, a, d) /\ d.pc = "refused" /\ d.why = "timeout"
        /\ d.target = Now(p, a) /\ d.try = Try(p, a)
    BY <1>10, <2>1, InHand, DeviceFields DEF SendTimedOut
  <2>3. d.pc \notin Early /\ ~Excused(d)
    BY <2>2 DEF Early, Fresh, Excused
  <2> HIDE DEF d
  <2> QED BY <1>m, <2>1, <2>2, <2>3
<1>11. CASE MessageSent(p, a)
  <2>1. Holds(p, a) /\ UNCHANGED <<tgt, net>> /\ "sent" \notin Early
    BY <1>11 DEF MessageSent, Holds, Busy, world, Early, Fresh
  <2> QED BY <1>11, <1>s, <2>1 DEF MessageSent
<1>12. CASE MessageFailed(p, a)
  <2>1. Holds(p, a) /\ UNCHANGED <<tgt, net>> /\ "failed" \notin Early
    BY <1>12 DEF MessageFailed, Holds, Busy, world, Early, Fresh
  <2> QED BY <1>12, <1>s, <2>1 DEF MessageFailed
<1>13. CASE FinishAttemptSent(p, a)
  <2>1. Holds(p, a) /\ UNCHANGED net /\ OnlyReleases
    BY <1>13, SetDeviceReleases DEF FinishAttemptSent, Holds, Busy, world
  <2>2. tgt' = tgt \/ tgt' = [tgt EXCEPT ![Now(p, a)] = SentAs(tgt[Now(p, a)], Try(p, a), "none")]
    BY <1>13 DEF FinishAttemptSent, Now, Try
  <2>3. QueueShrinks
    <3>1. /\ Now(p, a) \in Target /\ tgt[Now(p, a)] \in Recipient
      BY <2>1, InHand
    <3>2. CASE tgt' = tgt
      BY <3>2 DEF QueueShrinks
    <3>3. CASE tgt' = [tgt EXCEPT ![Now(p, a)] = SentAs(tgt[Now(p, a)], Try(p, a), "none")]
      BY <3>1, <3>3, RowFields DEF QueueShrinks, Waiting, TypeOK
    <3> QED BY <2>2, <3>2, <3>3
  <2> QED BY <1>u, <2>1, <2>3, OnceKept
<1>14. CASE FinishAttemptFailed(p, a)
  <2>1. Holds(p, a) /\ UNCHANGED net /\ OnlyReleases
    BY <1>14, SetDeviceReleases DEF FinishAttemptFailed, Holds, Busy, world
  <2> DEFINE t == Now(p, a)
             k == Try(p, a)
             again == Retried(dev[p][a])
  <2>2. /\ t \in Target /\ k \in Tries /\ tgt[t] \in Recipient
        /\ tgt[t].attempt = k
    BY <2>1, InHand DEF HeldOut
  <2>3. tgt' = [tgt EXCEPT ![t] =
                  Closed(tgt[t], IF again THEN "retry_wait" ELSE "failed", ErrorCode(dev[p][a]))]
    BY <1>14 DEF FinishAttemptFailed
  <2>4. CASE ~again
    <3>1. QueueShrinks
      BY <2>2, <2>3, <2>4, RowFields DEF QueueShrinks, Waiting, TypeOK
    <3> QED BY <1>u, <2>1, <3>1, OnceKept
  <2>5. CASE again
    <3>1. ~InFlight(t, k)
      BY <1>14, <2>5 DEF Retried, RetriedUnsent, FinishAttemptFailed
    <3>2. \A j \in Tries : ~InFlight(t, j)
      BY <2>2, <3>1 DEF LastAttempt
    <3>3. /\ tgt'[t].attempt = k
          /\ \A u \in Target \ {t} : tgt'[u] = tgt[u]
      BY <2>2, <2>3, RowFields DEF TypeOK
    <3>4. \A q \in Proc, b \in Account :
            dev'[q][b].pc \in Busy => ~(q = p /\ b = a) /\ dev'[q][b] = dev[q][b]
      BY <1>14, SetDeviceFact, DeviceFields DEF FinishAttemptFailed, Busy
    <3>5. HandsOK' /\ OneHolder'
      BY <3>4 DEF HandsOK, OneHolder, Holds, Now, Try
    <3>6. HeldOut'
      <4>1. ASSUME NEW q \in Proc, NEW b \in Account, dev'[q][b].pc \in Busy
            PROVE  Now(q, b) \in Target \ {t} /\ Holds(q, b) /\ dev'[q][b] = dev[q][b]
        BY <2>1, <3>4, <4>1 DEF HandsOK, OneHolder, Holds
      <4> HIDE DEF t
      <4> QED BY <3>3, <4>1 DEF HeldOut, Holds, Now, Try
    <3>7. LastAttempt'
      BY <2>1, <3>2, <3>3 DEF LastAttempt, InFlight
    <3>8. AttemptsAhead'
      BY <2>1, <2>2, <3>3 DEF AttemptsAhead
    <3>9. UnsentYet' /\ RetriedUnsent'
      BY <2>1, <3>4 DEF UnsentYet, RetriedUnsent, InFlight, Busy, Fresh, Now, Try
    <3> QED BY <1>u, <3>5, <3>6, <3>7, <3>8, <3>9
  <2> QED BY <2>4, <2>5
<1> QED BY <1>1, <1>2, <1>3, <1>4, <1>5, <1>6, <1>7, <1>8, <1>9, <1>10, <1>11, <1>12, <1>13, <1>14
     DEF DeviceStep

LEMMA OnceProcess ==
  ASSUME OnceInv, TypeOK', NEW p \in Proc, ProcessStep(p) PROVE OnceInv'
<1> USE DEF OnceInv, book, world
<1>0. ASSUME UNCHANGED <<tgt, net, ui>>, OnlyReleases PROVE OnceInv'
  BY <1>0, OnceKept DEF QueueShrinks, NoResend
<1>1. CASE ClaimDueCampaigns(p)
  BY <1>0, <1>1 DEF ClaimDueCampaigns, OnlyReleases
<1>2. CASE RenewCampaignLease(p)
  BY <1>0, <1>2 DEF RenewCampaignLease, OnlyReleases
<1>3. CASE CloseOrphanedTargets(p)
  <2>1. QueueShrinks
    BY <1>3, RowFields DEF CloseOrphanedTargets, QueueShrinks, Waiting, TypeOK
  <2> QED BY <1>3, <2>1, OnceKept DEF CloseOrphanedTargets, OnlyReleases, NoResend
<1>4. CASE WorkerStep(p)
  BY <1>4, OnceWorker
<1>5. CASE WorkerError(p)
  BY <1>0, <1>5 DEF WorkerError, rows, OnlyReleases
<1>6. ASSUME NEW a \in Account, DeviceStep(p, a) PROVE OnceInv'
  BY <1>6, OnceDevice
<1>7. ASSUME NEW a \in Account, ClaimTarget(p, a) PROVE OnceInv'
  <2>1. PICK t \in Target :
          /\ tgt[t].status \in Waiting /\ tgt[t].attempt < MaxTries
          /\ tgt' = [tgt EXCEPT ![t] = Claimed(tgt[t])]
          /\ SetDevice(p, a, Holding(t, tgt[t].attempt + 1))
    BY <1>7 DEF ClaimTarget, Claimable
  <2> DEFINE k == tgt[t].attempt + 1
             d == Holding(t, k)
  <2>2. UNCHANGED <<net, ui>> /\ dev[p][a].pc = "claim"
    BY <1>7 DEF ClaimTarget
  <2>3. tgt[t] \in Recipient /\ k \in Tries /\ tgt[t].attempt \in Nat /\ MaxTries \in Nat
    BY <2>1, TriesRange, ConstantsAssumption DEF TypeOK, Recipient
  <2>4. d.pc = "pace" /\ d.target = t /\ d.try = k
    BY DeviceFields
  <2>5. /\ tgt'[t].status = "processing" /\ tgt'[t].attempt = k
        /\ \A u \in Target \ {t} : tgt'[u] = tgt[u]
    BY <2>1, <2>3, RowFields DEF TypeOK
  <2>6. net[t][k] = "none" /\ \A j \in Tries : j > k => net[t][j] = "none"
    BY <2>3 DEF AttemptsAhead, Tries
  <2>7. \A q \in Proc, b \in Account : ~(Holds(q, b) /\ Now(q, b) = t)
    BY <2>1 DEF HeldOut
  <2>8. /\ dev'[p][a] = d
        /\ \A q \in Proc, b \in Account : (q = p /\ b = a) \/ dev'[q][b] = dev[q][b]
    BY <2>1, SetDeviceFact
  <2>9. HandsOK'
    BY <2>3, <2>4, <2>8 DEF HandsOK, Holds, Now, Try
  <2>10. OneHolder'
    BY <2>4, <2>7, <2>8 DEF OneHolder, Holds, Now, Try
  <2>11. HeldOut'
    <3>1. ASSUME NEW q \in Proc, NEW b \in Account, ~(q = p /\ b = a), Holds(q, b)'
          PROVE  tgt'[Now(q, b)'].status \notin Waiting /\ tgt'[Now(q, b)'].attempt = Try(q, b)'
      <4>1. Holds(q, b) /\ Now(q, b)' = Now(q, b) /\ Try(q, b)' = Try(q, b)
        BY <2>8, <3>1 DEF Holds, Now, Try
      <4>2. Now(q, b) \in Target \ {t}
        BY <2>7, <4>1 DEF HandsOK
      <4> QED BY <2>5, <4>1, <4>2 DEF HeldOut
    <3>2. tgt'[Now(p, a)'].status \notin Waiting /\ tgt'[Now(p, a)'].attempt = Try(p, a)'
      BY <2>4, <2>5, <2>8 DEF Now, Try, Waiting
    <3> QED BY <3>1, <3>2 DEF HeldOut
  <2>12. LastAttempt'
    <3>1. \A j \in Tries : ~InFlight(t, j)
      BY <2>1 DEF LastAttempt
    <3> QED BY <2>2, <2>5, <3>1 DEF LastAttempt, InFlight
  <2>13. AttemptsAhead'
    BY <2>2, <2>5, <2>6 DEF AttemptsAhead
  <2>14. UnsentYet'
    BY <2>2, <2>4, <2>6, <2>8 DEF UnsentYet, Now, Try
  <2>15. RetriedUnsent'
    BY <2>2, <2>4, <2>8 DEF RetriedUnsent, InFlight, Now, Try
  <2>16. NoResend'
    BY <2>2 DEF NoResend
  <2> QED BY <2>9, <2>10, <2>11, <2>12, <2>13, <2>14, <2>15, <2>16
<1>8. ASSUME NEW a \in Account, CancelUnread(p, a) PROVE OnceInv'
  <2>1. OnlyReleases
    BY <1>8, SetDeviceReleases DEF CancelUnread, Onward, Busy
  <2> QED BY <1>0, <1>8, <2>1 DEF CancelUnread, rows
<1>9. ASSUME NEW a \in Account, DeviceError(p, a) PROVE OnceInv'
  <2> DEFINE next == DeviceAfterError[dev[p][a].pc]
  <2>0. UNCHANGED <<tgt, net, ui>>
    BY <1>9 DEF DeviceError, rows
  <2>1. CASE next \in {"running", "done"}
    <3>1. OnlyReleases
      BY <1>9, <2>1, SetDeviceReleases DEF DeviceError, Busy
    <3> QED BY <1>0, <2>0, <3>1
  <2>2. CASE next \notin {"running", "done"}
    <3> DEFINE d == Moved(dev[p][a], next)
    <3>1. \/ dev[p][a].pc = "record" /\ next = "send"
          \/ dev[p][a].pc = "acked" /\ next = "sent"
          \/ dev[p][a].pc = "refused" /\ next = "failed"
      BY <1>9, <2>2 DEF DeviceError, DeviceAfterError
    <3>2. Holds(p, a)
      BY <3>1 DEF Holds, Busy
    <3>3. /\ SetDevice(p, a, d) /\ d.pc = next /\ d.why = dev[p][a].why
          /\ d.target = Now(p, a) /\ d.try = Try(p, a)
      BY <1>9, <2>2, <3>2, InHand, DeviceFields DEF DeviceError
    <3>4. d.pc \in Early => net[Now(p, a)][Try(p, a)] = "none"
      BY <3>1, <3>3 DEF UnsentYet, Early, Fresh
    <3>5. Excused(d) => net[Now(p, a)][Try(p, a)] \notin {"wire", "accepted"}
      BY <3>1, <3>3 DEF RetriedUnsent, Excused, InFlight
    <3>6. NoResend'
      BY <2>0 DEF NoResend
    <3> HIDE DEF d
    <3> QED BY <2>0, <3>2, <3>3, <3>4, <3>5, <3>6, OnceMoved
  <2> QED BY <2>1, <2>2
<1>10. CASE Crash(p)
  <2>1. OnlyReleases
    BY <1>10, ResetReleases, DeviceFields DEF Crash, Busy
  <2> QED BY <1>0, <1>10, <2>1 DEF Crash
<1>11. CASE Restart(p)
  BY <1>0, <1>11 DEF Restart, rows, OnlyReleases
<1> QED BY <1>1, <1>2, <1>3, <1>4, <1>5, <1>6, <1>7, <1>8, <1>9, <1>10, <1>11 DEF ProcessStep

LEMMA OnceOperator ==
  ASSUME NoRequeue, OnceInv, TypeOK', OperatorStep PROVE OnceInv'
<1> USE DEF OnceInv, world, OnlyReleases
<1>n. ~Request("retry") /\ ~Request("resend") /\ ui \notin {"resend", "requeue"}
  BY DEF NoRequeue, Request, NoResend
<1>0. ASSUME UNCHANGED <<tgt, net, dev>>, NoResend' PROVE OnceInv'
  BY <1>0, OnceKept DEF QueueShrinks
<1>r. ASSUME RequestCancel PROVE QueueShrinks
  BY <1>r, RowFields DEF RequestCancel, QueueShrinks, Waiting, TypeOK
<1>1. CASE CancelCampaign
  BY <1>1, <1>r, OnceKept DEF CancelCampaign, NoResend
<1>2. CASE RetryFailed
  BY <1>2, <1>n DEF RetryFailed
<1>3. CASE RunNow
  BY <1>0, <1>3 DEF RunNow, NoResend
<1>4. CASE ScheduleCampaign
  BY <1>0, <1>4 DEF ScheduleCampaign, NoResend
<1>5. CASE ResendChecked
  BY <1>5, <1>n DEF ResendChecked
<1>6. CASE ResetTargets \/ ResetCampaign
  BY <1>6, <1>n DEF ResetTargets, ResetCampaign
<1>7. CASE ArchiveChecked
  BY <1>0, <1>7 DEF ArchiveChecked, rows, NoResend
<1>8. CASE ArchiveStops
  <2>1. NoResend'
    BY <1>8 DEF ArchiveStops, NoResend
  <2>2. CASE Cancellable
    BY <1>8, <1>r, <2>1, <2>2, OnceKept DEF ArchiveStops
  <2>3. CASE ~Cancellable
    BY <1>0, <1>8, <2>1, <2>3 DEF ArchiveStops
  <2> QED BY <2>2, <2>3
<1>9. CASE ArchiveCampaign
  BY <1>0, <1>9 DEF ArchiveCampaign, NoResend
<1>10. CASE UnarchiveCampaign
  BY <1>0, <1>10 DEF UnarchiveCampaign, NoResend
<1> QED BY <1>1, <1>2, <1>3, <1>4, <1>5, <1>6, <1>7, <1>8, <1>9, <1>10 DEF OperatorStep

LEMMA OnceWorld ==
  ASSUME OnceInv, TypeOK', WorldStep PROVE OnceInv'
<1> USE DEF OnceInv
<1>0. ASSUME UNCHANGED <<tgt, net, dev, ui>> PROVE OnceInv'
  BY <1>0, OnceKept DEF QueueShrinks, OnlyReleases, NoResend
<1>1. ASSUME NEW t \in Target, NEW k \in Tries, Accept(t, k) \/ Drop(t, k) PROVE OnceInv'
  <2>0. UNCHANGED <<tgt, dev, ui>>
    BY <1>1 DEF Accept, Drop, rows, book
  <2>1. PICK fate \in {"accepted", "dropped"} :
          net[t][k] = "wire" /\ net' = [net EXCEPT ![t][k] = fate]
    BY <1>1 DEF Accept, Drop
  <2>2. \A u \in Target, j \in Tries :
          /\ net[u][j] = "none" => net'[u][j] = "none"
          /\ InFlight(u, j)' => InFlight(u, j)
    BY <2>1 DEF TypeOK, InFlight
  <2>3. HandsOK' /\ HeldOut' /\ OneHolder' /\ NoResend'
    BY <2>0 DEF HandsOK, HeldOut, OneHolder, NoResend, Holds, Now, Try
  <2>4. LastAttempt' /\ AttemptsAhead'
    BY <2>0, <2>2 DEF LastAttempt, AttemptsAhead
  <2>5. UnsentYet'
    BY <2>0, <2>2 DEF UnsentYet, HandsOK, Holds, Busy, Fresh, Now, Try
  <2>6. RetriedUnsent'
    BY <2>0, <2>2 DEF RetriedUnsent, HandsOK, Holds, Busy, Now, Try
  <2> QED BY <2>3, <2>4, <2>5, <2>6
<1>2. ASSUME NEW t \in Target, NEW k \in Tries, NEW r \in ReceiptType,
             AdvanceCampaignTargets(t, k, r)
      PROVE  OnceInv'
  <2>1. tgt' = tgt \/ tgt' = [tgt EXCEPT ![t] = AdvancedTarget(t, k, r)]
    BY <1>2 DEF AdvanceCampaignTargets
  <2>2. tgt[t] \in Recipient
    BY DEF TypeOK
  <2>3. /\ AdvancedTarget(t, k, r).attempt = tgt[t].attempt
        /\ AdvancedTarget(t, k, r).status \in Waiting => tgt[t].status \in Waiting
    BY <2>2, RowFields DEF AdvancedTarget, ReceiptType, Waiting
  <2>4. QueueShrinks
    <3>1. CASE tgt' = tgt
      BY <3>1 DEF QueueShrinks
    <3>2. CASE tgt' = [tgt EXCEPT ![t] = AdvancedTarget(t, k, r)]
      BY <2>3, <3>2 DEF QueueShrinks, TypeOK
    <3> QED BY <2>1, <3>1, <3>2
  <2> QED BY <1>2, <2>4, OnceKept DEF AdvanceCampaignTargets, OnlyReleases, NoResend
<1>3. ASSUME NEW t \in Target, NEW k \in Tries, NEW r \in ReceiptType,
             AdvanceMessageStatus(t, k, r)
      PROVE  OnceInv'
  BY <1>0, <1>3 DEF AdvanceMessageStatus, book
<1>4. ASSUME NEW a \in Account, GoOffline(a) \/ GoOnline(a) PROVE OnceInv'
  BY <1>0, <1>4 DEF GoOffline, GoOnline, rows, book
<1>5. ASSUME NEW t \in Target, ExpireTargetLease(t) PROVE OnceInv'
  <2>1. QueueShrinks
    BY <1>5, RowFields DEF ExpireTargetLease, QueueShrinks, TypeOK
  <2> QED BY <1>5, <2>1, OnceKept DEF ExpireTargetLease, world, book, OnlyReleases, NoResend
<1>6. CASE ExpireCampaignLease
  BY <1>0, <1>6 DEF ExpireCampaignLease, world
<1>7. CASE GracePeriodEnds
  BY <1>0, <1>7 DEF GracePeriodEnds, world, book
<1> QED BY <1>1, <1>2, <1>3, <1>4, <1>5, <1>6, <1>7 DEF WorldStep

LEMMA OnceInit == Init => OnceInv
<1> SUFFICES ASSUME Init PROVE OnceInv
  OBVIOUS
<1>1. TypeOK
  BY TypeInit
<1>2. \A p \in Proc, a \in Account : dev[p][a].pc = "off"
  BY DeviceFields DEF Init
<1>3. HandsOK /\ HeldOut /\ OneHolder /\ UnsentYet /\ RetriedUnsent
  BY <1>2 DEF HandsOK, HeldOut, OneHolder, UnsentYet, RetriedUnsent, Holds, Busy, Fresh
<1>4. NoResend /\ LastAttempt /\ AttemptsAhead
  BY DEF Init, NoResend, LastAttempt, AttemptsAhead, InFlight
<1> QED BY <1>1, <1>3, <1>4 DEF OnceInv

LEMMA OnceStep ==
  ASSUME NoRequeue PROVE OnceInv /\ [Next]_vars => OnceInv'
<1> SUFFICES ASSUME OnceInv, [Next]_vars PROVE OnceInv'
  OBVIOUS
<1>1. TypeOK'
  BY TypeStep DEF OnceInv
<1>2. CASE Next
  BY <1>1, <1>2, OnceProcess, OnceOperator, OnceWorld DEF Next
<1>3. CASE UNCHANGED vars
  <2>1. OnlyReleases /\ QueueShrinks /\ NoResend'
    BY <1>3 DEF vars, OnlyReleases, QueueShrinks, NoResend, OnceInv
  <2> QED BY <1>1, <1>3, <2>1, OnceKept DEF vars
<1> QED BY <1>2, <1>3

\* Nobody gets the broadcast twice while no operator asks for "coba ulang" or
\* "kirim ulang": two workers, crashes, expired leases, timeouts and lost
\* statements included. A timed-out send is never retried, and an interrupted
\* one is settled instead of being put back into the queue.
THEOREM AtMostOnceUnlessRequeued ==
  ASSUME NoRequeue PROVE Spec => []AtMostOnce
<1>1. Init => OnceInv
  BY OnceInit
<1>2. OnceInv /\ [Next]_vars => OnceInv'
  BY OnceStep
<1>3. OnceInv => AtMostOnce
  <2> SUFFICES ASSUME OnceInv, NEW t \in Target, NEW j \in Tries, NEW k \in Tries,
                      net[t][j] = "accepted", net[t][k] = "accepted"
               PROVE  j = k
    BY DEF AtMostOnce
  <2>1. InFlight(t, j) /\ InFlight(t, k)
    BY DEF InFlight
  <2> QED BY <2>1 DEF OnceInv, LastAttempt
<1> QED BY <1>1, <1>2, <1>3, PTL DEF Spec

-----------------------------------------------------------------------------
(* OneWorker *)

\* A step that starts no worker and leaves the campaign to the ones it has.
SameHolder == camp'.owner = camp.owner /\ camp'.lease = camp.lease /\ camp'.status = camp.status

LEMMA WorkerKept ==
  ASSUME WorkerInv, TypeOK', NoResend',
         \A p \in Proc : Working(p)' => Working(p) /\ SameHolder
  PROVE  WorkerInv'
BY DEF WorkerInv, WorkerHoldsLease, SameHolder

\* The one worker there is ends its run.
LEMMA WorkerEnds ==
  ASSUME WorkerInv, TypeOK', NoResend', NEW p \in Proc, Working(p),
         run' = [run EXCEPT ![p] = "idle"]
  PROVE  WorkerInv'
<1>1. \A q \in Proc : Working(q) => q = p
  BY DEF WorkerInv, WorkerHoldsLease
<1>2. \A q \in Proc : ~Working(q)'
  BY <1>1 DEF WorkerInv, TypeOK, Working
<1> QED BY <1>2, WorkerKept

\* A worker's step to its next statement.
LEMMA WorkerGoesOn ==
  ASSUME WorkerInv, TypeOK', NoResend', NEW p \in Proc, Working(p), SameHolder,
         NEW s, run' = [run EXCEPT ![p] = s]
  PROVE  WorkerInv'
BY WorkerKept DEF WorkerInv, TypeOK, Working

LEMMA HolderWorker ==
  ASSUME WorkerInv, TypeOK', NEW p \in Proc, WorkerStep(p) PROVE WorkerInv'
<1>w. Working(p)
  BY DEF WorkerStep, ReconcileStuckTargets, CheckCancel, FetchMedia, DevicesDone,
         ClearCampaignStalled, MarkCampaignStalled, FailCampaign, ReleaseCampaign,
         PendingTargetCount, FinishCampaign, CancelRemainingWork, LaunchDevice, Working
<1>n. NoResend'
  BY DEF WorkerInv, NoResend, book, WorkerStep, ReconcileStuckTargets, CheckCancel, FetchMedia,
         DevicesDone, ClearCampaignStalled, MarkCampaignStalled, FailCampaign, ReleaseCampaign,
         PendingTargetCount, FinishCampaign, CancelRemainingWork, LaunchDevice
<1> USE <1>w, <1>n, WorkerGoesOn DEF SameHolder, rows
<1>1. CASE ReconcileStuckTargets(p)
  BY <1>1 DEF ReconcileStuckTargets
<1>2. CASE CheckCancel(p)
  BY <1>2 DEF CheckCancel
<1>3. CASE FetchMedia(p)
  BY <1>3 DEF FetchMedia
<1>4. CASE DevicesDone(p)
  BY <1>4 DEF DevicesDone
<1>5. CASE ClearCampaignStalled(p)
  BY <1>5 DEF ClearCampaignStalled, WorkerInv, TypeOK, Campaign
<1>6. CASE MarkCampaignStalled(p)
  BY <1>6 DEF MarkCampaignStalled, WorkerInv, TypeOK, Campaign
<1>7. CASE FailCampaign(p)
  BY <1>7, WorkerEnds DEF FailCampaign
<1>8. CASE ReleaseCampaign(p)
  BY <1>8, WorkerEnds DEF ReleaseCampaign
<1>9. CASE PendingTargetCount(p)
  BY <1>9 DEF PendingTargetCount
<1>10. CASE FinishCampaign(p)
  BY <1>10, WorkerEnds DEF FinishCampaign
<1>11. CASE CancelRemainingWork(p)
  BY <1>11 DEF CancelRemainingWork
<1>12. CASE \E a \in Account : LaunchDevice(p, a)
  BY <1>12, WorkerKept DEF LaunchDevice, Working
<1> QED BY <1>1, <1>2, <1>3, <1>4, <1>5, <1>6, <1>7, <1>8, <1>9, <1>10, <1>11, <1>12 DEF WorkerStep

LEMMA HolderProcess ==
  ASSUME WorkerInv, TypeOK', NEW p \in Proc, ProcessStep(p) PROVE WorkerInv'
<1> USE DEF WorkerInv, book
<1>0. ASSUME UNCHANGED <<camp, run, ui>> PROVE WorkerInv'
  BY <1>0, WorkerKept DEF SameHolder, Working, NoResend
<1>1. CASE ClaimDueCampaigns(p)
  <2>1. /\ LeaseFree /\ UNCHANGED ui /\ run[p] # "down"
        /\ camp' = [camp EXCEPT !.status = "running", !.owner = p, !.lease = "live"]
        /\ run' = IF Working(p) THEN run ELSE [run EXCEPT ![p] = "reconcile"]
    BY <1>1 DEF ClaimDueCampaigns, Due
  <2>2. \A q \in Proc : ~Working(q)
    BY <2>1 DEF WorkerHoldsLease, LeaseFree
  <2>3. \A q \in Proc : Working(q)' => q = p
    BY <2>1, <2>2 DEF Working, TypeOK
  <2>4. camp'.owner = p /\ camp'.lease = "live" /\ camp'.status = "running"
    BY <2>1 DEF TypeOK, Campaign
  <2> QED BY <2>1, <2>3, <2>4 DEF WorkerHoldsLease, NoResend
<1>2. CASE RenewCampaignLease(p)
  <2>1. \A q \in Proc : ~Working(q)
    BY <1>2 DEF RenewCampaignLease, WorkerHoldsLease
  <2> QED BY <1>2, <2>1, WorkerKept DEF RenewCampaignLease, Working, NoResend
<1>3. CASE CloseOrphanedTargets(p)
  BY <1>0, <1>3 DEF CloseOrphanedTargets
<1>4. CASE WorkerStep(p)
  BY <1>4, HolderWorker
<1>5. CASE WorkerError(p)
  <2>1. Working(p) /\ SameHolder /\ NoResend'
    BY <1>5 DEF WorkerError, WorkerAfterError, Working, SameHolder, rows, NoResend
  <2> QED BY <1>5, <2>1, WorkerGoesOn DEF WorkerError
<1>6. ASSUME NEW a \in Account, DeviceStep(p, a) PROVE WorkerInv'
  <2>1. UNCHANGED <<run, ui>> /\ SameHolder
    <3>1. CASE FinishAttemptSent(p, a)
      BY <3>1 DEF FinishAttemptSent, SameHolder, TypeOK, Campaign
    <3>2. CASE FinishAttemptFailed(p, a)
      BY <3>2 DEF FinishAttemptFailed, SameHolder, TypeOK, Campaign
    <3> QED BY <1>6, <3>1, <3>2 DEF DeviceStep, CheckDevice, AbandonDeviceShare, NoTarget,
          RenderFails, BeginAttempt, RecordOutgoing, SendCampaignMessage, Acknowledged, Refused,
          SendTimedOut, MessageSent, MessageFailed, SameHolder, rows
  <2> QED BY <2>1, WorkerKept DEF Working, NoResend
<1>7. ASSUME NEW a \in Account, ClaimTarget(p, a) \/ CancelUnread(p, a) \/ DeviceError(p, a)
      PROVE  WorkerInv'
  BY <1>0, <1>7 DEF ClaimTarget, CancelUnread, DeviceError, rows
<1>8. CASE Crash(p)
  <2>1. \A q \in Proc : Working(q)' => q # p /\ Working(q)
    BY <1>8 DEF Crash, Working, TypeOK
  <2>2. \A q \in Proc : q # p /\ Working(q) => camp' = camp
    BY <1>8 DEF Crash, WorkerHoldsLease
  <2> QED BY <1>8, <2>1, <2>2, WorkerKept DEF Crash, SameHolder, NoResend
<1>9. CASE Restart(p)
  <2>1. \A q \in Proc : Working(q)' => Working(q)
    BY <1>9 DEF Restart, Working, TypeOK
  <2> QED BY <1>9, <2>1, WorkerKept DEF Restart, SameHolder, NoResend, rows
<1> QED BY <1>1, <1>2, <1>3, <1>4, <1>5, <1>6, <1>7, <1>8, <1>9 DEF ProcessStep

LEMMA HolderOperator ==
  ASSUME NoRequeue, WorkerInv, TypeOK', OperatorStep PROVE WorkerInv'
<1> USE DEF WorkerInv, Working
<1>n. ~Request("retry") /\ ~Request("resend") /\ ui \notin {"resend", "requeue"}
  BY DEF NoRequeue, Request, NoResend
<1>0. ASSUME UNCHANGED run, NoResend', camp.status = "running" => SameHolder PROVE WorkerInv'
  BY <1>0, WorkerKept DEF WorkerHoldsLease
\* A worker's campaign has a live lease: a cancellation only flags it.
<1>r. ASSUME RequestCancel, UNCHANGED run, NoResend' PROVE WorkerInv'
  <2>1. ASSUME NEW p \in Proc, Working(p) PROVE SameHolder
    BY <1>r, <2>1 DEF RequestCancel, WorkerHoldsLease, LeaseFree, SameHolder, TypeOK, Campaign
  <2> QED BY <1>r, <2>1, WorkerKept
<1>1. CASE CancelCampaign
  BY <1>1, <1>r DEF CancelCampaign, NoResend
<1>2. CASE RetryFailed
  BY <1>2, <1>n DEF RetryFailed
<1>3. CASE RunNow
  BY <1>0, <1>3 DEF RunNow, NoResend
<1>4. CASE ScheduleCampaign
  BY <1>0, <1>4 DEF ScheduleCampaign, NoResend
<1>5. CASE ResendChecked
  BY <1>5, <1>n DEF ResendChecked
<1>6. CASE ResetTargets \/ ResetCampaign
  BY <1>6, <1>n DEF ResetTargets, ResetCampaign
<1>7. CASE ArchiveChecked
  BY <1>0, <1>7 DEF ArchiveChecked, rows, NoResend, SameHolder
<1>8. CASE ArchiveStops
  <2>1. NoResend' /\ UNCHANGED run
    BY <1>8 DEF ArchiveStops, NoResend
  <2>2. CASE Cancellable
    BY <1>8, <1>r, <2>1, <2>2 DEF ArchiveStops
  <2>3. CASE ~Cancellable
    BY <1>0, <1>8, <2>1, <2>3 DEF ArchiveStops, SameHolder
  <2> QED BY <2>2, <2>3
<1>9. CASE ArchiveCampaign \/ UnarchiveCampaign
  <2>1. NoResend' /\ SameHolder /\ UNCHANGED run
    BY <1>9 DEF ArchiveCampaign, UnarchiveCampaign, NoResend, SameHolder, TypeOK, Campaign
  <2> QED BY <1>0, <2>1
<1> QED BY <1>1, <1>2, <1>3, <1>4, <1>5, <1>6, <1>7, <1>8, <1>9 DEF OperatorStep

LEMMA HolderWorld ==
  ASSUME LeasesKept, WorkerInv, TypeOK', WorldStep PROVE WorkerInv'
<1> USE DEF WorkerInv, Working
<1>0. ASSUME UNCHANGED <<run, ui>>, SameHolder \/ \A p \in Proc : ~Working(p) PROVE WorkerInv'
  BY <1>0, WorkerKept DEF NoResend
<1>1. CASE ExpireCampaignLease
  <2>1. ~(spent.outages < MaxOutages)
    BY DEF LeasesKept, TypeOK, Budget
  <2>2. ~(camp.owner \in Proc /\ Working(camp.owner)) /\ UNCHANGED <<run, ui>>
    BY <1>1, <2>1 DEF ExpireCampaignLease
  <2>3. \A p \in Proc : ~Working(p)
    BY <2>2 DEF WorkerHoldsLease
  <2> QED BY <1>0, <2>2, <2>3
<1>2. CASE GracePeriodEnds
  <2>1. SameHolder /\ UNCHANGED <<run, ui>>
    BY <1>2 DEF GracePeriodEnds, SameHolder, TypeOK, Campaign, book
  <2> QED BY <1>0, <2>1
<1>3. ASSUME UNCHANGED <<camp, run, ui>> PROVE WorkerInv'
  BY <1>0, <1>3 DEF SameHolder
<1> QED BY <1>1, <1>2, <1>3 DEF WorldStep, Accept, Drop, AdvanceCampaignTargets,
        AdvanceMessageStatus, GoOffline, GoOnline, ExpireTargetLease, rows, book

LEMMA WorkerInit == Init => WorkerInv
<1> SUFFICES ASSUME Init PROVE WorkerInv
  OBVIOUS
<1> QED BY TypeInit DEF Init, WorkerInv, NoResend, WorkerHoldsLease, Working

LEMMA WorkerNext ==
  ASSUME LeasesKept, NoRequeue PROVE WorkerInv /\ [Next]_vars => WorkerInv'
<1> SUFFICES ASSUME WorkerInv, [Next]_vars PROVE WorkerInv'
  OBVIOUS
<1>1. TypeOK'
  BY TypeStep DEF WorkerInv
<1>2. CASE Next
  BY <1>1, <1>2, HolderProcess, HolderOperator, HolderWorld DEF Next
<1>3. CASE UNCHANGED vars
  BY <1>1, <1>3, WorkerKept DEF vars, WorkerInv, NoResend, SameHolder, Working
<1> QED BY <1>2, <1>3

\* One process runs the campaign at a time, as long as a living worker's renewals
\* keep its lease and nobody asks for a retry or a resend: those two requests hand
\* the campaign to the next scheduler whoever holds it.
THEOREM OneWorkerByLease ==
  ASSUME LeasesKept, NoRequeue PROVE Spec => []OneWorker
<1>1. WorkerInv => OneWorker
  BY DEF WorkerInv, WorkerHoldsLease, OneWorker
<1> QED BY <1>1, WorkerInit, WorkerNext, PTL DEF Spec

-----------------------------------------------------------------------------
(* The goroutines and the recipients they have in their hands *)

\* Only a worker that waits for its goroutines has any.
LEMMA RestStep == ASSUME TypeOK, DevicesRest, Next PROVE DevicesRest'
<1> USE DEF TypeOK, DevicesRest
<1>0. ASSUME UNCHANGED dev, \A p \in Proc : run[p] = "launch" => run'[p] = "launch"
      PROVE  DevicesRest'
  BY <1>0
<1>d. ASSUME NEW p \in Proc, NEW a \in Account, dev[p][a].pc # "off", NEW d, SetDevice(p, a, d),
             UNCHANGED run
      PROVE  DevicesRest'
  <2>1. \A q \in Proc, b \in Account : (q = p /\ b = a) \/ dev'[q][b] = dev[q][b]
    BY <1>d, SetDeviceFact
  <2> QED BY <1>d, <2>1
<1>1. ASSUME NEW p \in Proc, WorkerStep(p) PROVE DevicesRest'
  <2>1. CASE FetchMedia(p)
    BY <2>1, <1>0 DEF FetchMedia
  <2>2. CASE DevicesDone(p)
    <3>1. \A q \in Proc, b \in Account :
            dev'[q][b] = IF q = p THEN Idle ELSE dev[q][b]
      BY <2>2 DEF DevicesDone
    <3>2. \A q \in Proc \ {p} : run'[q] = run[q]
      BY <2>2 DEF DevicesDone
    <3> QED BY <3>1, <3>2, DeviceFields
  <2>3. ASSUME NEW a \in Account, LaunchDevice(p, a) PROVE DevicesRest'
    BY <2>3, <1>d DEF LaunchDevice
  <2>4. ASSUME UNCHANGED dev, run[p] # "launch", NEW s, run' = [run EXCEPT ![p] = s]
        PROVE  DevicesRest'
    BY <2>4, <1>0
  <2>5. CASE ReconcileStuckTargets(p) \/ CheckCancel(p) \/ ClearCampaignStalled(p)
             \/ MarkCampaignStalled(p) \/ FailCampaign(p)
    BY <2>4, <2>5 DEF ReconcileStuckTargets, CheckCancel, ClearCampaignStalled,
         MarkCampaignStalled, FailCampaign
  <2>6. CASE ReleaseCampaign(p) \/ PendingTargetCount(p) \/ FinishCampaign(p)
             \/ CancelRemainingWork(p)
    BY <2>4, <2>6 DEF ReleaseCampaign, PendingTargetCount, FinishCampaign, CancelRemainingWork
  <2> QED BY <1>1, <2>1, <2>2, <2>3, <2>5, <2>6 DEF WorkerStep
<1>2. ASSUME NEW p \in Proc, NEW a \in Account,
             DeviceStep(p, a) \/ ClaimTarget(p, a) \/ CancelUnread(p, a) \/ DeviceError(p, a)
      PROVE  DevicesRest'
  <2>1. dev[p][a].pc # "off" /\ UNCHANGED run /\ \E d : SetDevice(p, a, d)
    BY <1>2 DEF DeviceStep, CheckDevice, AbandonDeviceShare, NoTarget, RenderFails, BeginAttempt,
         RecordOutgoing, SendCampaignMessage, Acknowledged, Refused, SendTimedOut, MessageSent,
         MessageFailed, FinishAttemptSent, FinishAttemptFailed, ClaimTarget, CancelUnread,
         DeviceError, DeviceAfterError, Step
  <2> QED BY <2>1, <1>d
<1>3. ASSUME NEW p \in Proc, Crash(p) PROVE DevicesRest'
  <2>1. \A q \in Proc, b \in Account : dev'[q][b] = IF q = p THEN Idle ELSE dev[q][b]
    BY <1>3 DEF Crash
  <2>2. \A q \in Proc \ {p} : run'[q] = run[q]
    BY <1>3 DEF Crash
  <2> QED BY <2>1, <2>2, DeviceFields
<1>4. ASSUME NEW p \in Proc,
             ClaimDueCampaigns(p) \/ RenewCampaignLease(p) \/ CloseOrphanedTargets(p)
             \/ WorkerError(p) \/ Restart(p)
      PROVE  DevicesRest'
  BY <1>4, <1>0 DEF ClaimDueCampaigns, RenewCampaignLease, CloseOrphanedTargets, WorkerError,
       WorkerAfterError, Restart, Working
<1>5. CASE OperatorStep
  BY <1>5, <1>0 DEF OperatorStep, CancelCampaign, RetryFailed, RunNow, ScheduleCampaign,
       ResendChecked, ResetTargets, ResetCampaign, ArchiveChecked, ArchiveStops, ArchiveCampaign,
       UnarchiveCampaign
<1>6. CASE WorldStep
  BY <1>6, <1>0 DEF WorldStep, Accept, Drop, AdvanceCampaignTargets, AdvanceMessageStatus,
       GoOffline, GoOnline, ExpireTargetLease, ExpireCampaignLease, GracePeriodEnds
<1> QED BY <1>1, <1>2, <1>3, <1>4, <1>5, <1>6 DEF Next, ProcessStep

\* While a goroutine is on, its process is the campaign's one worker, and waits.
LEMMA OneCrew ==
  ASSUME WorkerInv, DevicesRest, NEW q \in Proc, NEW b \in Account, dev[q][b].pc # "off"
  PROVE  /\ run[q] = "launch" /\ camp.status = "running"
         /\ \A p \in Proc : Working(p) => p = q
BY DEF WorkerInv, WorkerHoldsLease, DevicesRest, Working

\* How a goroutine comes to have a recipient in its hands: it had it already, or
\* its claim has just counted the attempt; and how it comes to blame it.
TakesUp(q, b) ==
  /\ dev[q][b].pc = "claim" /\ dev'[q][b].pc = "pace"
  /\ Now(q, b)' \in Target /\ AccountOf[Now(q, b)'] = b
  /\ Try(q, b)' = tgt[Now(q, b)'].attempt + 1 /\ tgt'[Now(q, b)'].status = "processing"
  /\ UNCHANGED <<att, net>>

Blames(q, b) ==
  \/ dev'[q][b].why = "timeout"
  \/ net'[Now(q, b)][Try(q, b)] = "dropped"
  \/ dev[q][b].pc \in {"pace", "send"} /\ UNCHANGED net
  \/ dev[q][b].pc = "refused" /\ dev'[q][b].why = dev[q][b].why /\ UNCHANGED net

GoesOn(q, b) ==
  /\ Holds(q, b) /\ Now(q, b)' = Now(q, b) /\ Try(q, b)' = Try(q, b)
  /\ dev'[q][b].pc # "pace"
  /\ dev'[q][b].pc \in {"refused", "failed"} => Blames(q, b)

Errand(q, b) == Holds(q, b)' => dev'[q][b] = dev[q][b] \/ TakesUp(q, b) \/ GoesOn(q, b)
Errands == \A q \in Proc, b \in Account : Errand(q, b)

LEMMA ErrandsNext == ASSUME TypeOK, HandsOK, Next PROVE Errands
<1>0. ASSUME OnlyReleases PROVE Errands
  BY <1>0 DEF OnlyReleases, Errands, Errand, Holds
<1>u. ASSUME UNCHANGED dev PROVE Errands
  BY <1>u, <1>0 DEF OnlyReleases
<1>d. ASSUME NEW p \in Proc, NEW a \in Account, NEW d, SetDevice(p, a, d),
             Holds(p, a), d.target = Now(p, a), d.try = Try(p, a), d.pc # "pace",
             d.pc \in {"refused", "failed"} => Blames(p, a)
      PROVE  Errands
  <2>1. /\ dev'[p][a] = d
        /\ \A q \in Proc, b \in Account : (q = p /\ b = a) \/ dev'[q][b] = dev[q][b]
    BY <1>d, SetDeviceFact
  <2>2. Errand(p, a)
    BY <1>d, <2>1 DEF Errand, GoesOn, Now, Try
  <2> QED BY <2>1, <2>2 DEF Errands, Errand
<1>1. ASSUME NEW p \in Proc, WorkerStep(p) PROVE Errands
  <2>1. CASE FetchMedia(p) \/ DevicesDone(p)
    BY <2>1, <1>0, ResetReleases, DeviceFields DEF FetchMedia, DevicesDone, OnlyReleases, Busy
  <2>2. ASSUME NEW a \in Account, LaunchDevice(p, a) PROVE Errands
    BY <2>2, <1>0, SetDeviceReleases DEF LaunchDevice, Busy
  <2> QED BY <1>1, <1>u, <2>1, <2>2 DEF WorkerStep, ReconcileStuckTargets, CheckCancel,
        ClearCampaignStalled, MarkCampaignStalled, FailCampaign, ReleaseCampaign,
        PendingTargetCount, FinishCampaign, CancelRemainingWork
<1>2. ASSUME NEW p \in Proc, NEW a \in Account, DeviceStep(p, a) PROVE Errands
  <2>0. dev[p][a] \in Device
    BY DEF TypeOK
  <2>1. ASSUME NEW pc, SetDevice(p, a, At(pc)), pc \notin Busy PROVE Errands
    BY <2>1, <1>0, SetDeviceReleases
  <2>2. ASSUME NEW pc, Step(p, a, pc), Holds(p, a), pc # "pace",
               pc \in {"refused", "failed"} => Blames(p, a)
        PROVE  Errands
    BY <2>0, <2>2, <1>d, DeviceFields DEF Step, Now, Try
  <2>3. ASSUME NEW pc, NEW w, SetDevice(p, a, Blamed(dev[p][a], pc, w)), Holds(p, a),
               pc # "pace", Blames(p, a)
        PROVE  Errands
    BY <2>0, <2>3, <1>d, DeviceFields DEF Now, Try
  <2>4. CASE CheckDevice(p, a) \/ AbandonDeviceShare(p, a) \/ NoTarget(p, a)
             \/ FinishAttemptSent(p, a) \/ FinishAttemptFailed(p, a)
    BY <2>1, <2>4 DEF CheckDevice, AfterCheck, Onward, AbandonDeviceShare, NoTarget,
         FinishAttemptSent, FinishAttemptFailed, Busy
  <2>5. CASE RenderFails(p, a)
    BY <2>3, <2>5 DEF RenderFails, Holds, Busy, Blames, world
  <2>6. CASE Refused(p, a)
    <3>1. Holds(p, a)
      BY <2>6 DEF Refused, Holds, Busy
    <3>2. Blames(p, a)
      BY <2>6, <3>1, InHand DEF Refused, Blames, TypeOK
    <3> QED BY <2>3, <2>6, <3>1, <3>2 DEF Refused
  <2>7. CASE SendTimedOut(p, a)
    <3>1. dev'[p][a].why = "timeout"
      BY <2>0, <2>7, SetDeviceFact, DeviceFields DEF SendTimedOut
    <3> QED BY <2>3, <2>7, <3>1 DEF SendTimedOut, Holds, Busy, Blames
  <2>8. CASE BeginAttempt(p, a)
    BY <2>1, <2>2, <2>8 DEF BeginAttempt, Holds, Busy
  <2>9. CASE SendCampaignMessage(p, a)
    BY <2>2, <2>3, <2>9 DEF SendCampaignMessage, Holds, Busy, Blames
  <2>10. CASE RecordOutgoing(p, a) \/ Acknowledged(p, a) \/ MessageSent(p, a)
    BY <2>2, <2>10 DEF RecordOutgoing, Acknowledged, MessageSent, Holds, Busy
  <2>11. CASE MessageFailed(p, a)
    <3>1. dev'[p][a].why = dev[p][a].why /\ UNCHANGED net
      BY <2>0, <2>11, SetDeviceFact, DeviceFields DEF MessageFailed, Step, world
    <3> QED BY <2>2, <2>11, <3>1 DEF MessageFailed, Holds, Busy, Blames
  <2> QED BY <1>2, <2>4, <2>5, <2>6, <2>7, <2>8, <2>9, <2>10, <2>11 DEF DeviceStep
<1>3. ASSUME NEW p \in Proc, NEW a \in Account, ClaimTarget(p, a) PROVE Errands
  <2>1. PICK t \in Target :
          /\ Claimable(t, a) /\ dev[p][a].pc = "claim"
          /\ tgt' = [tgt EXCEPT ![t] = Claimed(tgt[t])]
          /\ SetDevice(p, a, Holding(t, tgt[t].attempt + 1))
          /\ UNCHANGED <<att, net>>
    BY <1>3 DEF ClaimTarget, world
  <2>2. tgt'[t].status = "processing" /\ AccountOf[t] = a
    BY <2>1, RowFields DEF TypeOK, Claimable
  <2>3. /\ dev'[p][a] = Holding(t, tgt[t].attempt + 1)
        /\ \A q \in Proc, b \in Account : (q = p /\ b = a) \/ dev'[q][b] = dev[q][b]
    BY <2>1, SetDeviceFact
  <2>4. TakesUp(p, a)
    BY <2>1, <2>2, <2>3, DeviceFields DEF TakesUp, Now, Try
  <2> QED BY <2>3, <2>4 DEF Errands, Errand
<1>4. ASSUME NEW p \in Proc, NEW a \in Account, CancelUnread(p, a) PROVE Errands
  BY <1>4, <1>0, SetDeviceReleases DEF CancelUnread, Onward, Busy
<1>5. ASSUME NEW p \in Proc, NEW a \in Account, DeviceError(p, a) PROVE Errands
  <2> DEFINE next == DeviceAfterError[dev[p][a].pc]
  <2>0. dev[p][a] \in Device
    BY DEF TypeOK
  <2>1. CASE next \in {"running", "done"}
    BY <1>5, <2>1, <1>0, SetDeviceReleases DEF DeviceError, Busy
  <2>2. CASE next \notin {"running", "done"}
    <3>1. /\ \/ dev[p][a].pc = "record" /\ next = "send"
             \/ dev[p][a].pc = "acked" /\ next = "sent"
             \/ dev[p][a].pc = "refused" /\ next = "failed"
          /\ SetDevice(p, a, Moved(dev[p][a], next)) /\ UNCHANGED net
      BY <1>5, <2>2 DEF DeviceError, DeviceAfterError, world
    <3>2. dev'[p][a].why = dev[p][a].why
      BY <2>0, <3>1, SetDeviceFact, DeviceFields
    <3> HIDE DEF next
    <3> QED BY <2>0, <3>1, <3>2, <1>d, DeviceFields DEF Now, Try, Holds, Busy, Blames
  <2> QED BY <2>1, <2>2
<1>6. ASSUME NEW p \in Proc, Crash(p) PROVE Errands
  BY <1>6, <1>0, ResetReleases, DeviceFields DEF Crash, Busy
<1>7. ASSUME NEW p \in Proc,
             ClaimDueCampaigns(p) \/ RenewCampaignLease(p) \/ CloseOrphanedTargets(p)
             \/ WorkerError(p) \/ Restart(p)
      PROVE  Errands
  BY <1>u, <1>7 DEF ClaimDueCampaigns, RenewCampaignLease, CloseOrphanedTargets, WorkerError, Restart
<1>8. CASE OperatorStep
  BY <1>u, <1>8 DEF OperatorStep, CancelCampaign, RetryFailed, RunNow, ScheduleCampaign,
       ResendChecked, ResetTargets, ResetCampaign, ArchiveChecked, ArchiveStops, ArchiveCampaign,
       UnarchiveCampaign
<1>9. CASE WorldStep
  BY <1>u, <1>9 DEF WorldStep, Accept, Drop, AdvanceCampaignTargets, AdvanceMessageStatus,
       GoOffline, GoOnline, ExpireTargetLease, ExpireCampaignLease, GracePeriodEnds
<1> QED BY <1>1, <1>2, <1>3, <1>4, <1>5, <1>6, <1>7, <1>8, <1>9 DEF Next, ProcessStep

\* A goroutine keeps its recipient, or takes up one of its own number.
HandsMove ==
  \A q \in Proc, b \in Account :
    Holds(q, b)' =>
      \/ Holds(q, b) /\ Now(q, b)' = Now(q, b)
      \/ AccountOf[Now(q, b)'] = b /\ tgt'[Now(q, b)'].status = "processing"

LEMMA HandsNext == ASSUME TypeOK, HandsOK, Next PROVE HandsMove
<1>1. Errands
  BY ErrandsNext
<1> QED BY <1>1 DEF Errands, Errand, TakesUp, GoesOn, HandsMove, Holds, Now

\* Every change a statement makes to what a recipient's row says.
Stays(t) == tgt'[t].status = tgt[t].status /\ tgt'[t].code = tgt[t].code
LetGo(t) == \A q \in Proc, b \in Account : Holds(q, b)' => Now(q, b)' # t
TakenUp(t, a) == Claimable(t, a) /\ tgt'[t].status = "processing"
PutBack(t, p, a) ==
  /\ dev[p][a].pc = "failed" /\ Now(p, a) = t /\ dev'[p][a].pc = "running" /\ LetGo(t)
  /\ tgt[t].status = "processing" /\ tgt'[t].status = "retry_wait"
SettledNow(t) == tgt[t].status \in Open /\ tgt'[t].status \in Reached \cup Lost /\ LetGo(t)
MovesUp(t) ==
  {tgt[t].status, tgt'[t].status} \subseteq Reached /\ Rank[tgt[t].status] < Rank[tgt'[t].status]

RowMoves(t) ==
  \/ Stays(t) \/ SettledNow(t) \/ MovesUp(t)
  \/ \E p \in Proc, a \in Account : dev[p][a].pc = "claim" /\ TakenUp(t, a)
  \/ \E p \in Proc, a \in Account : PutBack(t, p, a)

LEMMA RowCodes ==
  ASSUME NEW r \in Recipient
  PROVE  /\ Cancelled(r).code = r.code /\ Expired(r).code = r.code
         /\ \A s, c : Closed(r, s, c).code = c
         /\ \A k, c : SentAs(r, k, c).code = c
BY DEF Recipient, Cancelled, Expired, Closed, SentAs

\* With nobody's goroutine on, nobody holds a recipient.
LEMMA NobodyHolds ==
  ASSUME UNCHANGED dev, \A q \in Proc, b \in Account : dev[q][b].pc = "off", NEW t PROVE LetGo(t)
BY DEF LetGo, Holds, Busy

LEMMA MovesProcess ==
  ASSUME HandsInv, NEW p \in Proc, NEW t \in Target,
         ReconcileStuckTargets(p) \/ CancelRemainingWork(p) \/ CloseOrphanedTargets(p)
  PROVE  Stays(t) \/ SettledNow(t)
<1> USE DEF HandsInv, Open, Waiting, Lost, Reached
<1>0. tgt[t] \in Recipient
  BY DEF OnceInv, TypeOK
<1>w. ASSUME Working(p), run[p] # "launch", UNCHANGED dev PROVE LetGo(t)
  <2>1. \A q \in Proc, b \in Account : dev[q][b].pc = "off"
    BY <1>w, OneCrew
  <2> QED BY <1>w, <2>1, NobodyHolds
<1>1. CASE ReconcileStuckTargets(p)
  <2>1. LetGo(t)
    BY <1>1, <1>w DEF ReconcileStuckTargets, Working
  <2>2. Arrived(t) => tgt[t].status = "processing"
    BY DEF Arrived, Landed, Interrupted, InFlightExpired
  <2>3. tgt'[t] = tgt[t] \/ tgt'[t] = ReconciledTarget(t)
    BY <1>1 DEF ReconcileStuckTargets
  <2> QED BY <1>0, <2>1, <2>2, <2>3, RowFields DEF ReconciledTarget, InFlightExpired, Stays, SettledNow
<1>2. CASE CancelRemainingWork(p)
  <2>1. LetGo(t)
    BY <1>2, <1>w DEF CancelRemainingWork, Working
  <2> QED BY <1>0, <1>2, <2>1, RowFields DEF CancelRemainingWork, Stays, SettledNow
<1>3. CASE CloseOrphanedTargets(p)
  <2>1. camp.status \in Terminal /\ UNCHANGED dev
    BY <1>3 DEF CloseOrphanedTargets, Orphaned
  <2>2. \A q \in Proc, b \in Account : dev[q][b].pc = "off"
    BY <2>1, OneCrew DEF Terminal
  <2>3. LetGo(t)
    BY <2>1, <2>2, NobodyHolds
  <2> QED BY <1>0, <1>3, <2>3, RowFields DEF CloseOrphanedTargets, Orphaned, InFlightExpired,
        Stays, SettledNow
<1> QED BY <1>1, <1>2, <1>3

\* The statements a goroutine runs on a recipient's row.
LEMMA MovesDevice ==
  ASSUME HandsInv, HandsMove, NEW p \in Proc, NEW a \in Account, NEW t \in Target,
         AbandonDeviceShare(p, a) \/ FinishAttemptSent(p, a) \/ FinishAttemptFailed(p, a)
         \/ ClaimTarget(p, a)
  PROVE  RowMoves(t)
<1> USE DEF HandsInv, Open, Waiting, Lost, Reached
<1>0. TypeOK /\ tgt[t] \in Recipient
  BY DEF OnceInv, TypeOK
<1>1. CASE AbandonDeviceShare(p, a)
  <2>1. CASE AccountOf[t] = a
    <3>1. LetGo(t)
      <4> SUFFICES ASSUME NEW q \in Proc, NEW b \in Account, Holds(q, b)', Now(q, b)' = t PROVE FALSE
        BY DEF LetGo
      <4>1. dev[p][a].pc = "abandon" /\ SetDevice(p, a, At("done"))
        BY <1>1 DEF AbandonDeviceShare
      <4>2. ~(q = p /\ b = a)
        BY <4>1, <1>0, SetDeviceFact, DeviceFields DEF Holds, Busy
      <4>3. dev'[q][b] = dev[q][b]
        BY <4>1, <4>2, <1>0, SetDeviceFact
      <4>4. Holds(q, b) /\ Now(q, b) = t
        BY <4>3 DEF Holds, Now
      <4>5. b = a
        BY <2>1, <4>4 DEF OwnNumber
      <4>6. q = p
        BY <4>1, <4>4, OneCrew DEF Holds, Busy, Working
      <4> QED BY <4>2, <4>5, <4>6
    <3> QED BY <1>0, <1>1, <2>1, <3>1, RowFields DEF AbandonDeviceShare, Stays, SettledNow, RowMoves
  <2>2. CASE AccountOf[t] # a
    BY <1>1, <2>2 DEF AbandonDeviceShare, Stays, RowMoves
  <2> QED BY <2>1, <2>2
<1>h. ASSUME Holds(p, a), SetDevice(p, a, At("running"))
      PROVE  /\ Now(p, a) \in Target /\ tgt[Now(p, a)].status = "processing"
             /\ dev'[p][a].pc = "running" /\ LetGo(Now(p, a))
  <2>1. Now(p, a) \in Target /\ tgt[Now(p, a)].status = "processing"
    BY <1>h DEF HeldInProcess, OnceInv, HandsOK
  <2>2. /\ dev'[p][a].pc = "running"
        /\ \A q \in Proc, b \in Account : (q = p /\ b = a) \/ dev'[q][b] = dev[q][b]
    BY <1>0, <1>h, SetDeviceFact, DeviceFields
  <2>3. LetGo(Now(p, a))
    <3> SUFFICES ASSUME NEW q \in Proc, NEW b \in Account, dev'[q][b].pc \in Busy,
                        dev'[q][b].target = Now(p, a)
                 PROVE  FALSE
      BY DEF LetGo, Holds, Now
    <3>1. ~(q = p /\ b = a)
      BY <2>2 DEF Busy
    <3>2. Holds(q, b) /\ Now(q, b) = Now(p, a)
      BY <2>2, <3>1 DEF Holds, Now
    <3> QED BY <1>h, <3>1, <3>2 DEF OnceInv, OneHolder
  <2> QED BY <2>1, <2>2, <2>3
<1>2. CASE FinishAttemptSent(p, a)
  <2>1. Holds(p, a) /\ SetDevice(p, a, At("running"))
    BY <1>2 DEF FinishAttemptSent, Holds, Busy
  <2>2. tgt' = tgt \/ tgt' = [tgt EXCEPT ![Now(p, a)] = SentAs(tgt[Now(p, a)], Try(p, a), "none")]
    BY <1>2 DEF FinishAttemptSent, Now, Try
  <2>3. tgt' = tgt => Stays(t)
    BY DEF Stays
  <2>4. CASE tgt' = [tgt EXCEPT ![Now(p, a)] = SentAs(tgt[Now(p, a)], Try(p, a), "none")]
    <3>1. CASE t = Now(p, a)
      BY <1>0, <1>h, <2>1, <2>4, <3>1, RowFields DEF TypeOK, SettledNow, RowMoves
    <3>2. CASE t # Now(p, a)
      BY <2>4, <3>2, <1>0 DEF TypeOK, Stays, RowMoves
    <3> QED BY <3>1, <3>2
  <2> QED BY <2>2, <2>3, <2>4 DEF RowMoves
<1>3. CASE FinishAttemptFailed(p, a)
  <2>1. Holds(p, a) /\ SetDevice(p, a, At("running")) /\ dev[p][a].pc = "failed"
    BY <1>3 DEF FinishAttemptFailed, Holds, Busy
  <2>2. PICK s \in {"retry_wait", "failed"} : \E c :
          tgt' = [tgt EXCEPT ![Now(p, a)] = Closed(tgt[Now(p, a)], s, c)]
    BY <1>3 DEF FinishAttemptFailed
  <2>3. CASE t = Now(p, a)
    <3>1. tgt'[t].status = s
      BY <1>0, <2>2, <2>3, RowFields DEF TypeOK
    <3>2. CASE s = "retry_wait"
      BY <1>h, <2>1, <2>3, <3>1, <3>2 DEF PutBack, RowMoves
    <3>3. CASE s = "failed"
      BY <1>h, <2>1, <2>3, <3>1, <3>3 DEF SettledNow, RowMoves
    <3> QED BY <3>2, <3>3
  <2>4. CASE t # Now(p, a)
    BY <2>2, <2>4, <1>0 DEF TypeOK, Stays, RowMoves
  <2> QED BY <2>3, <2>4
<1>4. CASE ClaimTarget(p, a)
  <2>1. PICK u \in Target :
          /\ Claimable(u, a) /\ dev[p][a].pc = "claim"
          /\ tgt' = [tgt EXCEPT ![u] = Claimed(tgt[u])]
    BY <1>4 DEF ClaimTarget
  <2>2. CASE t = u
    BY <1>0, <2>1, <2>2, RowFields DEF TypeOK, TakenUp, RowMoves
  <2>3. CASE t # u
    BY <1>0, <2>1, <2>3 DEF TypeOK, Stays, RowMoves
  <2> QED BY <2>2, <2>3
<1> QED BY <1>1, <1>2, <1>3, <1>4

LEMMA MovesNext == ASSUME HandsInv, NoRequeue, Next, NEW t \in Target PROVE RowMoves(t)
<1> USE DEF HandsInv
<1>0. TypeOK /\ HandsOK /\ tgt[t] \in Recipient
  BY DEF OnceInv, TypeOK
<1>m. HandsMove
  BY <1>0, HandsNext
<1>u. ASSUME UNCHANGED tgt PROVE RowMoves(t)
  BY <1>u DEF RowMoves, Stays
<1>n. ~Request("retry") /\ ~Request("resend") /\ ui \notin {"resend", "requeue"}
  BY DEF NoRequeue, Request, OnceInv, NoResend
<1>c. ASSUME RequestCancel PROVE RowMoves(t)
  <2>1. CASE tgt[t].status \in Waiting
    <3>1. tgt'[t].status = "cancelled"
      BY <1>0, <1>c, <2>1, RowFields DEF RequestCancel, CancelledWith
    <3>2. LetGo(t)
      <4> SUFFICES ASSUME NEW q \in Proc, NEW b \in Account, Holds(q, b)', Now(q, b)' = t PROVE FALSE
        BY DEF LetGo
      <4>1. CASE Holds(q, b) /\ Now(q, b)' = Now(q, b)
        BY <2>1, <4>1 DEF OnceInv, HeldOut
      <4>2. CASE tgt'[Now(q, b)'].status = "processing"
        BY <3>1, <4>2
      <4> QED BY <1>m, <4>1, <4>2 DEF HandsMove
    <3> QED BY <2>1, <3>1, <3>2 DEF RowMoves, SettledNow, Open, Lost
  <2>2. CASE tgt[t].status \notin Waiting
    BY <1>c, <2>2 DEF RequestCancel, CancelledWith, RowMoves, Stays
  <2> QED BY <2>1, <2>2
<1>1. ASSUME NEW p \in Proc, NEW a \in Account,
             DeviceStep(p, a) \/ ClaimTarget(p, a) \/ CancelUnread(p, a) \/ DeviceError(p, a)
      PROVE  RowMoves(t)
  BY <1>m, <1>u, <1>1, MovesDevice DEF DeviceStep, CheckDevice, NoTarget, RenderFails, BeginAttempt,
     RecordOutgoing, SendCampaignMessage, Acknowledged, Refused, SendTimedOut, MessageSent,
     MessageFailed, CancelUnread, DeviceError, rows
<1>2. ASSUME NEW p \in Proc, WorkerStep(p) PROVE RowMoves(t)
  <2>1. CASE ReconcileStuckTargets(p) \/ CancelRemainingWork(p)
    BY <2>1, MovesProcess DEF RowMoves
  <2> QED BY <1>u, <1>2, <2>1 DEF WorkerStep, CheckCancel, FetchMedia, DevicesDone,
        ClearCampaignStalled, MarkCampaignStalled, FailCampaign, ReleaseCampaign,
        PendingTargetCount, FinishCampaign, LaunchDevice, rows
<1>3. ASSUME NEW p \in Proc,
             ClaimDueCampaigns(p) \/ RenewCampaignLease(p) \/ CloseOrphanedTargets(p)
             \/ WorkerError(p) \/ Restart(p) \/ Crash(p)
      PROVE  RowMoves(t)
  <2>1. CASE CloseOrphanedTargets(p)
    BY <2>1, MovesProcess DEF RowMoves
  <2> QED BY <1>u, <1>3, <2>1 DEF ClaimDueCampaigns, RenewCampaignLease, WorkerError, Restart,
        Crash, rows
<1>4. CASE OperatorStep
  <2>1. CASE CancelCampaign \/ ArchiveStops
    BY <1>c, <1>u, <2>1 DEF CancelCampaign, ArchiveStops
  <2>2. CASE RetryFailed \/ ResendChecked \/ ResetTargets \/ ResetCampaign
    BY <1>n, <2>2 DEF RetryFailed, ResendChecked, ResetTargets, ResetCampaign
  <2> QED BY <1>4, <1>u, <2>1, <2>2 DEF OperatorStep, RunNow, ScheduleCampaign, ArchiveChecked,
        ArchiveCampaign, UnarchiveCampaign, rows
<1>5. CASE WorldStep
  <2>1. ASSUME NEW u \in Target, NEW k \in Tries, NEW r \in ReceiptType,
               AdvanceCampaignTargets(u, k, r)
        PROVE  RowMoves(t)
    <3>1. tgt' = tgt \/ tgt' = [tgt EXCEPT ![u] = AdvancedTarget(u, k, r)]
      BY <2>1 DEF AdvanceCampaignTargets
    <3>2. CASE tgt' # tgt /\ t = u
      <4>1. CASE tgt[t].status \in Reached /\ Rank[tgt[t].status] < Rank[r]
                 /\ tgt[t].wamid = k
        <5>1. tgt'[t].status = r
          BY <1>0, <3>1, <3>2, <4>1, RowFields DEF AdvancedTarget, TypeOK
        <5>2. r \in Reached
          BY DEF ReceiptType, Reached
        <5> QED BY <4>1, <5>1, <5>2 DEF MovesUp, RowMoves
      <4>2. CASE ~(tgt[t].status \in Reached /\ Rank[tgt[t].status] < Rank[r]
                   /\ tgt[t].wamid = k)
        BY <1>0, <3>1, <3>2, <4>2 DEF AdvancedTarget, TypeOK, Stays, RowMoves
      <4> QED BY <4>1, <4>2
    <3>3. CASE tgt' = tgt \/ t # u
      BY <1>0, <3>1, <3>3 DEF TypeOK, Stays, RowMoves
    <3> QED BY <3>2, <3>3
  <2>2. ASSUME NEW u \in Target, ExpireTargetLease(u) PROVE RowMoves(t)
    <3>1. tgt' = [tgt EXCEPT ![u] = Expired(tgt[u])]
      BY <2>2 DEF ExpireTargetLease
    <3>2. tgt'[t] = tgt[t] \/ tgt'[t] = Expired(tgt[t])
      BY <1>0, <3>1 DEF TypeOK
    <3> QED BY <1>0, <3>2, RowFields, RowCodes DEF Stays, RowMoves
  <2> QED BY <1>5, <1>u, <2>1, <2>2 DEF WorldStep, Accept, Drop, AdvanceMessageStatus, GoOffline,
        GoOnline, ExpireCampaignLease, GracePeriodEnds, rows
<1> QED BY <1>1, <1>2, <1>3, <1>4, <1>5 DEF Next, ProcessStep

LEMMA HandsStep ==
  ASSUME LeasesKept, NoRequeue PROVE HandsInv /\ [Next]_vars => HandsInv'
<1> SUFFICES ASSUME HandsInv, [Next]_vars PROVE HandsInv'
  OBVIOUS
<1> USE DEF HandsInv
<1>1. WorkerInv' /\ OnceInv'
  BY WorkerNext, OnceStep
<1>2. CASE Next
  <2>1. DevicesRest'
    BY <1>2, RestStep DEF OnceInv
  <2>2. HandsMove
    BY <1>2, HandsNext DEF OnceInv
  <2>3. OwnNumber'
    BY <2>2 DEF HandsMove, OwnNumber
  <2>4. HeldInProcess'
    <3> SUFFICES ASSUME NEW q \in Proc, NEW b \in Account, Holds(q, b)'
                 PROVE  tgt'[Now(q, b)'].status = "processing"
      BY DEF HeldInProcess
    <3>1. CASE Holds(q, b) /\ Now(q, b)' = Now(q, b)
      <4>1. Now(q, b) \in Target /\ tgt[Now(q, b)].status = "processing"
        BY <3>1 DEF OnceInv, HandsOK, HeldInProcess
      <4>2. RowMoves(Now(q, b))
        BY <1>2, <4>1, MovesNext
      <4>3. ~LetGo(Now(q, b))
        BY <3>1 DEF LetGo
      <4> QED BY <3>1, <4>1, <4>2, <4>3 DEF RowMoves, Stays, SettledNow, MovesUp, TakenUp, PutBack,
            Reached
    <3> QED BY <2>2, <3>1 DEF HandsMove
  <2> QED BY <1>1, <2>1, <2>3, <2>4
<1>3. CASE UNCHANGED vars
  BY <1>1, <1>3 DEF vars, DevicesRest, OwnNumber, HeldInProcess, Holds, Now
<1> QED BY <1>2, <1>3

LEMMA HandsInit == Init => HandsInv
<1> SUFFICES ASSUME Init PROVE HandsInv
  OBVIOUS
<1>1. \A p \in Proc, a \in Account : dev[p][a].pc = "off"
  BY DeviceFields DEF Init
<1> QED BY <1>1, WorkerInit, OnceInit DEF HandsInv, DevicesRest, OwnNumber, HeldInProcess, Holds, Busy

-----------------------------------------------------------------------------
(* The report never goes back *)

\* A delivered or read recipient is not turned back into sent, whatever order
\* its receipts come in: the rank guards of AdvanceCampaignTargets, and no
\* statement that writes "sent" finds a recipient already reached.
THEOREM ReportOnlyAdvances ==
  ASSUME LeasesKept, NoRequeue PROVE Spec => ReportNeverGoesBack
<1> DEFINE Grows ==
      \A t \in Target :
        {tgt[t].status, tgt'[t].status} \subseteq Reached
          => Rank[tgt[t].status] <= Rank[tgt'[t].status]
<1>1. ASSUME HandsInv, [Next]_vars PROVE [Grows]_vars
  <2>1. CASE UNCHANGED vars
    BY <2>1
  <2>2. CASE Next
    <3> SUFFICES ASSUME NEW t \in Target, {tgt[t].status, tgt'[t].status} \subseteq Reached
                 PROVE  Rank[tgt[t].status] <= Rank[tgt'[t].status]
      OBVIOUS
    <3>1. RowMoves(t)
      BY <1>1, <2>2, MovesNext
    <3>2. Stays(t) \/ MovesUp(t)
      BY <3>1 DEF RowMoves, SettledNow, TakenUp, PutBack, Reached, Open, Waiting
    <3>3. \A s \in Reached : Rank[s] \in Nat
      BY DEF Rank, Reached, MessageStatus
    <3> QED BY <3>2, <3>3 DEF Stays, MovesUp
  <2> QED BY <1>1, <2>1, <2>2
<1>2. HandsInv /\ [Next]_vars => [Grows]_vars
  BY <1>1
<1>3. Init => HandsInv
  BY HandsInit
<1>4. HandsInv /\ [Next]_vars => HandsInv'
  BY HandsStep
<1> QED BY <1>2, <1>3, <1>4, PTL DEF Spec, ReportNeverGoesBack

-----------------------------------------------------------------------------
(* The verdict on a campaign *)

LEMMA TallyZero == ASSUME NEW S, Tally(S) = 0 PROVE \A t \in Target : tgt[t].status \notin S
<1>1. IsFiniteSet({t \in Target : tgt[t].status \in S})
  BY ConstantsAssumption, FS_Subset
<1>2. {t \in Target : tgt[t].status \in S} = {}
  BY <1>1, FS_EmptySet DEF Tally
<1> QED BY <1>2

LEMMA TallyNone == ASSUME NEW S, \A t \in Target : tgt[t].status \notin S PROVE Tally(S) = 0
<1>1. {t \in Target : tgt[t].status \in S} = {}
  OBVIOUS
<1> QED BY <1>1, FS_EmptySet DEF Tally

\* A settled recipient stays in its group, and nobody else moves.
LEMMA SettledStay ==
  ASSUME HandsInv, NoRequeue, Next, NEW t \in Target, tgt[t].status \notin Open
  PROVE  /\ tgt'[t].status \notin Open
         /\ tgt[t].status \in Reached <=> tgt'[t].status \in Reached
         /\ tgt[t].status = "failed" <=> tgt'[t].status = "failed"
<1>1. RowMoves(t)
  BY MovesNext
<1>2. Stays(t) \/ MovesUp(t)
  BY <1>1 DEF RowMoves, SettledNow, TakenUp, PutBack, Open, Claimable
<1> QED BY <1>2 DEF Stays, MovesUp, Reached, Open, Waiting

\* Nobody is put back into the queue of a campaign that is not running.
LEMMA NotWaitingStays ==
  ASSUME HandsInv, NoRequeue, Next, camp.status # "running",
         NEW t \in Target, tgt[t].status \notin Waiting
  PROVE  tgt'[t].status \notin Waiting
<1>1. RowMoves(t)
  BY MovesNext
<1>2. \A p \in Proc, a \in Account : ~PutBack(t, p, a)
  BY OneCrew DEF PutBack, HandsInv
<1> QED BY <1>1, <1>2 DEF RowMoves, Stays, SettledNow, MovesUp, TakenUp, Waiting, Reached, Lost

\* What a step does to the campaign's verdict and counters.
Undecided == camp'.status \notin {"completed", "partial", "cancelled"}
SameVerdict ==
  camp'.status = camp.status /\ camp'.success = camp.success /\ camp'.failed = camp.failed

LEMMA VerdictNext ==
  ASSUME HandsInv, NoRequeue, Next
  PROVE  \/ Undecided \/ SameVerdict
         \/ \E p \in Proc : FinishCampaign(p)
         \/ RequestCancel /\ camp'.status = "cancelled"
<1> USE DEF HandsInv, Undecided, SameVerdict
<1>0. camp \in Campaign
  BY DEF OnceInv, TypeOK
<1>n. ~Request("retry") /\ ~Request("resend") /\ ui \notin {"resend", "requeue"}
  BY DEF NoRequeue, Request, OnceInv, NoResend
<1>u. ASSUME UNCHANGED camp PROVE SameVerdict
  BY <1>u
<1>1. ASSUME NEW p \in Proc, WorkerStep(p) PROVE Undecided \/ SameVerdict \/ FinishCampaign(p)
  <2>1. CASE ClearCampaignStalled(p) \/ MarkCampaignStalled(p) \/ ReleaseCampaign(p)
    BY <1>0, <2>1 DEF ClearCampaignStalled, MarkCampaignStalled, ReleaseCampaign, Campaign
  <2>2. CASE FailCampaign(p)
    BY <1>0, <2>2 DEF FailCampaign, Campaign
  <2> QED BY <1>1, <1>u, <2>1, <2>2 DEF WorkerStep, ReconcileStuckTargets, CheckCancel, FetchMedia,
        DevicesDone, PendingTargetCount, CancelRemainingWork, LaunchDevice, rows
<1>2. ASSUME NEW p \in Proc, NEW a \in Account, DeviceStep(p, a) PROVE Undecided \/ SameVerdict
  <2>1. CASE FinishAttemptSent(p, a) \/ FinishAttemptFailed(p, a)
    <3>1. camp.status = "running"
      BY <2>1, OneCrew DEF FinishAttemptSent, FinishAttemptFailed
    <3>2. camp'.status = camp.status
      BY <1>0, <2>1 DEF FinishAttemptSent, FinishAttemptFailed, Campaign
    <3> QED BY <3>1, <3>2
  <2> QED BY <1>2, <1>u, <2>1 DEF DeviceStep, CheckDevice, AbandonDeviceShare, NoTarget, RenderFails,
        BeginAttempt, RecordOutgoing, SendCampaignMessage, Acknowledged, Refused, SendTimedOut,
        MessageSent, MessageFailed, rows
<1>3. ASSUME NEW p \in Proc, ProcessStep(p)
      PROVE  Undecided \/ SameVerdict \/ FinishCampaign(p)
  <2>1. CASE ClaimDueCampaigns(p) \/ RenewCampaignLease(p) \/ Crash(p)
    BY <1>0, <2>1 DEF ClaimDueCampaigns, RenewCampaignLease, Crash, Campaign
  <2>2. CASE CloseOrphanedTargets(p) \/ WorkerError(p) \/ Restart(p)
    BY <1>u, <2>2 DEF CloseOrphanedTargets, WorkerError, Restart, rows
  <2>3. ASSUME NEW a \in Account, ClaimTarget(p, a) \/ CancelUnread(p, a) \/ DeviceError(p, a)
        PROVE  SameVerdict
    BY <1>u, <2>3 DEF ClaimTarget, CancelUnread, DeviceError, rows
  <2> QED BY <1>1, <1>2, <1>3, <2>1, <2>2, <2>3 DEF ProcessStep
<1>4. ASSUME OperatorStep
      PROVE  Undecided \/ SameVerdict \/ (RequestCancel /\ camp'.status = "cancelled")
  <2>1. CASE CancelCampaign \/ (ArchiveStops /\ Cancellable)
    <3>1. RequestCancel /\ Cancellable
      BY <2>1 DEF CancelCampaign, ArchiveStops
    <3>2. camp'.status \in {"cancelled", camp.status}
      BY <1>0, <3>1 DEF RequestCancel, Campaign
    <3> QED BY <3>1, <3>2 DEF Cancellable
  <2>2. CASE RetryFailed \/ ResendChecked \/ ResetTargets \/ ResetCampaign
    BY <1>n, <2>2 DEF RetryFailed, ResendChecked, ResetTargets, ResetCampaign
  <2>3. CASE RunNow \/ ScheduleCampaign \/ ArchiveCampaign \/ UnarchiveCampaign
    BY <1>0, <2>3 DEF RunNow, ScheduleCampaign, ArchiveCampaign, UnarchiveCampaign, Campaign
  <2>4. CASE ArchiveChecked \/ (ArchiveStops /\ ~Cancellable)
    BY <1>u, <2>4 DEF ArchiveChecked, ArchiveStops, rows
  <2> QED BY <1>4, <2>1, <2>2, <2>3, <2>4 DEF OperatorStep
<1>5. ASSUME WorldStep PROVE Undecided \/ SameVerdict
  <2>1. CASE ExpireCampaignLease \/ GracePeriodEnds
    BY <1>0, <2>1 DEF ExpireCampaignLease, GracePeriodEnds, Campaign
  <2> QED BY <1>5, <1>u, <2>1 DEF WorldStep, Accept, Drop, AdvanceCampaignTargets,
        AdvanceMessageStatus, GoOffline, GoOnline, ExpireTargetLease, rows
<1> QED BY <1>3, <1>4, <1>5 DEF Next

\* FinishCampaign is reached only when no recipient is open.
LEMMA FinishStep ==
  ASSUME SettledInv, NoRequeue, Next PROVE FinishFindsNobodyOpen'
<1> USE DEF SettledInv, HandsInv
<1> SUFFICES ASSUME NEW p \in Proc, run'[p] = "finish", NEW t \in Target PROVE tgt'[t].status \notin Open
  BY DEF FinishFindsNobodyOpen
<1>0. TypeOK
  BY DEF OnceInv
<1>1. CASE run[p] = "finish"
  BY <1>1, SettledStay DEF FinishFindsNobodyOpen
<1>2. CASE run[p] # "finish"
  <2>1. PendingTargetCount(p) \/ CancelRemainingWork(p)
    <3>1. ASSUME NEW q \in Proc, WorkerStep(q) PROVE PendingTargetCount(p) \/ CancelRemainingWork(p)
      <4>1. CASE q = p
        BY <1>0, <1>2, <3>1, <4>1 DEF WorkerStep, ReconcileStuckTargets, CheckCancel, FetchMedia,
           DevicesDone, ClearCampaignStalled, MarkCampaignStalled, FailCampaign, ReleaseCampaign,
           FinishCampaign, LaunchDevice, TypeOK
      <4>2. CASE q # p
        BY <1>0, <1>2, <3>1, <4>2 DEF WorkerStep, ReconcileStuckTargets, CheckCancel, FetchMedia,
           DevicesDone, ClearCampaignStalled, MarkCampaignStalled, FailCampaign, ReleaseCampaign,
           PendingTargetCount, FinishCampaign, CancelRemainingWork, LaunchDevice, TypeOK
      <4> QED BY <4>1, <4>2
    <3>2. ASSUME run'[p] = run[p] PROVE FALSE
      BY <1>2, <3>2
    <3>3. ASSUME NEW q \in Proc, ClaimDueCampaigns(q) \/ Crash(q) \/ Restart(q) PROVE FALSE
      BY <1>0, <1>2, <3>3 DEF ClaimDueCampaigns, Crash, Restart, TypeOK
    <3>4. ASSUME NEW q \in Proc, WorkerError(q) PROVE FALSE
      BY <1>0, <1>2, <3>4 DEF WorkerError, WorkerAfterError, TypeOK
    <3>5. ASSUME NEW q \in Proc, NEW a \in Account,
                 DeviceStep(q, a) \/ ClaimTarget(q, a) \/ CancelUnread(q, a) \/ DeviceError(q, a)
          PROVE  FALSE
      BY <3>2, <3>5 DEF DeviceStep, CheckDevice, AbandonDeviceShare, NoTarget, RenderFails,
         BeginAttempt, RecordOutgoing, SendCampaignMessage, Acknowledged, Refused, SendTimedOut,
         MessageSent, MessageFailed, FinishAttemptSent, FinishAttemptFailed, ClaimTarget,
         CancelUnread, DeviceError
    <3>6. ASSUME NEW q \in Proc, RenewCampaignLease(q) \/ CloseOrphanedTargets(q) PROVE FALSE
      BY <3>2, <3>6 DEF RenewCampaignLease, CloseOrphanedTargets
    <3>7. ASSUME OperatorStep PROVE FALSE
      BY <3>2, <3>7 DEF OperatorStep, CancelCampaign, RetryFailed, RunNow, ScheduleCampaign,
         ResendChecked, ResetTargets, ResetCampaign, ArchiveChecked, ArchiveStops, ArchiveCampaign,
         UnarchiveCampaign
    <3>8. ASSUME WorldStep PROVE FALSE
      BY <3>2, <3>8 DEF WorldStep, Accept, Drop, AdvanceCampaignTargets, AdvanceMessageStatus,
         GoOffline, GoOnline, ExpireTargetLease, ExpireCampaignLease, GracePeriodEnds
    <3> QED BY <3>1, <3>3, <3>4, <3>5, <3>6, <3>7, <3>8 DEF Next, ProcessStep
  <2>2. CASE PendingTargetCount(p)
    <3>1. Tally(Open) \in Nat /\ ~(Tally(Open) > 0) /\ UNCHANGED tgt
      BY <1>0, <2>2, TallyNat DEF PendingTargetCount, Unfinished, TypeOK, rows
    <3>2. Tally(Open) = 0
      BY <3>1
    <3> QED BY <3>1, <3>2, TallyZero
  <2>3. CASE CancelRemainingWork(p)
    BY <1>0, <2>3, RowFields DEF CancelRemainingWork, TypeOK, Open, Waiting
  <2> QED BY <2>1, <2>2, <2>3
<1> QED BY <1>1, <1>2

LEMMA SettledStep ==
  ASSUME LeasesKept, NoRequeue PROVE SettledInv /\ [Next]_vars => SettledInv'
<1> SUFFICES ASSUME SettledInv, [Next]_vars PROVE SettledInv'
  OBVIOUS
<1> USE DEF SettledInv
<1>1. HandsInv'
  BY HandsStep
<1>2. CASE UNCHANGED vars
  BY <1>1, <1>2 DEF vars, FinishFindsNobodyOpen, SettledRows, SettledAddsUp, Tally
<1>3. CASE Next
  <2>0. TypeOK /\ camp \in Campaign
    BY DEF HandsInv, OnceInv, TypeOK
  <2>1. FinishFindsNobodyOpen'
    BY <1>3, FinishStep
  <2>2. CASE Undecided
    BY <1>1, <2>1, <2>2 DEF Undecided, SettledRows, SettledAddsUp
  <2>3. CASE SameVerdict
    <3>1. SettledRows'
      BY <1>3, <2>3, SettledStay, NotWaitingStays DEF SameVerdict, SettledRows
    <3>2. SettledAddsUp'
      <4> SUFFICES ASSUME camp'.status \in {"completed", "partial"}
                   PROVE  /\ Tally(Open)' = 0
                          /\ camp'.success = Tally(Reached)' /\ camp'.failed = Tally({"failed"})'
        BY DEF SettledAddsUp
      <4>1. \A t \in Target : tgt[t].status \notin Open
        BY <2>3 DEF SameVerdict, SettledRows
      <4>2. \A t \in Target :
              /\ tgt'[t].status \notin Open
              /\ tgt[t].status \in Reached <=> tgt'[t].status \in Reached
              /\ tgt[t].status = "failed" <=> tgt'[t].status = "failed"
        BY <1>3, <4>1, SettledStay
      <4>3. /\ Tally(Open)' = Tally(Open)
            /\ Tally(Reached)' = Tally(Reached)
            /\ Tally({"failed"})' = Tally({"failed"})
        <5>1. {t \in Target : tgt'[t].status \in Open} = {t \in Target : tgt[t].status \in Open}
          BY <4>1, <4>2
        <5>2. {t \in Target : tgt'[t].status \in Reached} = {t \in Target : tgt[t].status \in Reached}
          BY <4>2
        <5>3. {t \in Target : tgt'[t].status \in {"failed"}} = {t \in Target : tgt[t].status \in {"failed"}}
          BY <4>2
        <5> QED BY <5>1, <5>2, <5>3 DEF Tally
      <4> QED BY <2>3, <4>3 DEF SameVerdict, SettledAddsUp
    <3> QED BY <1>1, <2>1, <3>1, <3>2
  <2>4. ASSUME NEW p \in Proc, FinishCampaign(p) PROVE SettledInv'
    <3>1. \A t \in Target : tgt[t].status \notin Open
      BY <2>4 DEF FinishCampaign, FinishFindsNobodyOpen
    <3>2. /\ UNCHANGED tgt
          /\ camp'.status = Verdict
          /\ camp'.success = Tally(Reached) /\ camp'.failed = Tally({"failed"})
      BY <2>0, <2>4 DEF FinishCampaign, Recounted, Campaign
    <3>3. \A S : Tally(S)' = Tally(S)
      BY <3>2 DEF Tally
    <3>4. ASSUME Verdict = "completed", NEW t \in Target PROVE tgt[t].status \in Reached
      <4>1. Tally(Lost) \in Nat /\ ~(Tally(Lost) > 0)
        BY <3>4, TallyNat DEF Verdict
      <4>2. Tally(Lost) = 0
        BY <4>1
      <4>3. tgt[t].status \notin Lost
        BY <4>2, TallyZero
      <4>4. tgt[t].status \in TargetStatus
        BY <2>0 DEF TypeOK, Recipient
      <4> QED BY <3>1, <4>3, <4>4 DEF TargetStatus
    <3>5. SettledRows'
      BY <3>1, <3>2, <3>4 DEF SettledRows, Open
    <3>6. Tally(Open) = 0
      BY <3>1, TallyNone
    <3>7. SettledAddsUp'
      BY <3>2, <3>3, <3>6 DEF SettledAddsUp
    <3> QED BY <1>1, <2>1, <3>5, <3>7
  <2>5. CASE RequestCancel /\ camp'.status = "cancelled"
    <3>1. \A t \in Target : tgt'[t].status \notin Waiting
      BY <2>0, <2>5, RowFields DEF RequestCancel, CancelledWith, Waiting, TypeOK
    <3> QED BY <1>1, <2>1, <2>5, <3>1 DEF SettledRows, SettledAddsUp
  <2> QED BY <1>3, <2>2, <2>3, <2>4, <2>5, VerdictNext
<1> QED BY <1>2, <1>3

\* When FinishCampaign has reported a campaign as completed or partial, no
\* recipient of it is open, and its two counters are those of its recipients:
\* the numbers the campaign list shows, whatever crashed or failed on the way.
THEOREM SettledInvariant ==
  ASSUME LeasesKept, NoRequeue PROVE Spec => []SettledInv
<1>1. Init => SettledInv
  <2> SUFFICES ASSUME Init PROVE SettledInv
    OBVIOUS
  <2>1. camp.status \in {"draft", "scheduled"} /\ \A p \in Proc : run[p] = "idle"
    BY DEF Init
  <2> QED BY <2>1, HandsInit DEF SettledInv, FinishFindsNobodyOpen, SettledRows, SettledAddsUp
<1> QED BY <1>1, SettledStep, PTL DEF Spec

\* The counters and the recipients of a settled campaign agree.
THEOREM VerdictAddsUp ==
  ASSUME LeasesKept, NoRequeue PROVE Spec => []SettledAddsUp
<1>1. SettledInv => SettledAddsUp
  BY DEF SettledInv
<1> QED BY <1>1, SettledInvariant, PTL

\* "completed" hides no failed or cancelled recipient.
THEOREM CompletedHidesNobody ==
  ASSUME LeasesKept, NoRequeue PROVE Spec => []CompletedReachedAll
<1>1. ASSUME SettledInv PROVE CompletedReachedAll
  <2> SUFFICES ASSUME camp.status = "completed" PROVE Tally(Reached) = Cardinality(Target)
    BY DEF CompletedReachedAll
  <2>1. {t \in Target : tgt[t].status \in Reached} = Target
    BY <1>1 DEF SettledInv, SettledRows
  <2> QED BY <2>1 DEF Tally
<1>2. SettledInv => CompletedReachedAll
  BY <1>1
<1> QED BY <1>2, SettledInvariant, PTL

\* After a cancellation nobody is left in the queue.
THEOREM CancelledQueueEmpty ==
  ASSUME LeasesKept, NoRequeue PROVE Spec => []CancelledLeavesNobodyWaiting
<1>1. ASSUME SettledInv PROVE CancelledLeavesNobodyWaiting
  BY <1>1, TallyNone DEF SettledInv, SettledRows, CancelledLeavesNobodyWaiting
<1>2. SettledInv => CancelledLeavesNobodyWaiting
  BY <1>1
<1> QED BY <1>2, SettledInvariant, PTL

-----------------------------------------------------------------------------
(* A requested cancel stops the claims *)

\* Without failing statements only a look at an unset flag leads to a claim.
LEMMA ReachesClaim ==
  ASSUME StatementsSucceed, TypeOK, Next, NEW p \in Proc, NEW a \in Account, dev'[p][a].pc = "claim"
  PROVE  dev[p][a].pc = "claim" \/ (~camp.cancel /\ UNCHANGED camp)
<1>1. ~(spent.lost < MaxLost)
  BY DEF StatementsSucceed, TypeOK, Budget
<1>t. dev \in [Proc -> [Account -> Device]]
  BY DEF TypeOK
<1>0. ASSUME dev'[p][a] = dev[p][a] PROVE dev[p][a].pc = "claim"
  BY <1>0
<1>d. ASSUME NEW q \in Proc, NEW b \in Account, NEW d, SetDevice(q, b, d),
             d.pc = "claim" => ~camp.cancel /\ UNCHANGED camp
      PROVE  dev[p][a].pc = "claim" \/ (~camp.cancel /\ UNCHANGED camp)
  BY <1>d, SetDeviceFact
<1>2. ASSUME NEW q \in Proc, NEW b \in Account, DeviceStep(q, b) \/ ClaimTarget(q, b)
      PROVE  dev[p][a].pc = "claim" \/ (~camp.cancel /\ UNCHANGED camp)
  <2>0. dev[q][b] \in Device
    BY DEF TypeOK
  <2>1. CASE CheckDevice(q, b)
    <3>1. /\ SetDevice(q, b, At(AfterCheck(b))) /\ UNCHANGED camp
          /\ At(AfterCheck(b)).pc = "claim" => ~camp.cancel
      BY <2>1, DeviceFields DEF CheckDevice, AfterCheck, rows
    <3> QED BY <3>1, <1>d
  <2>2. ASSUME NEW pc, pc # "claim", SetDevice(q, b, At(pc))
        PROVE  dev[p][a].pc = "claim" \/ (~camp.cancel /\ UNCHANGED camp)
    BY <2>2, <1>d, DeviceFields
  <2>3. ASSUME NEW pc, pc # "claim", Step(q, b, pc)
        PROVE  dev[p][a].pc = "claim" \/ (~camp.cancel /\ UNCHANGED camp)
    BY <2>0, <2>3, <1>d, DeviceFields DEF Step
  <2>4. ASSUME NEW pc, NEW w, pc # "claim", SetDevice(q, b, Blamed(dev[q][b], pc, w))
        PROVE  dev[p][a].pc = "claim" \/ (~camp.cancel /\ UNCHANGED camp)
    BY <2>0, <2>4, <1>d, DeviceFields
  <2>5. CASE AbandonDeviceShare(q, b) \/ NoTarget(q, b)
             \/ FinishAttemptSent(q, b) \/ FinishAttemptFailed(q, b)
    BY <2>2, <2>5 DEF AbandonDeviceShare, NoTarget, FinishAttemptSent, FinishAttemptFailed
  <2>6. CASE RenderFails(q, b) \/ Refused(q, b) \/ SendTimedOut(q, b)
    BY <2>4, <2>6 DEF RenderFails, Refused, SendTimedOut
  <2>7. CASE BeginAttempt(q, b)
    BY <2>2, <2>3, <2>7 DEF BeginAttempt
  <2>8. CASE SendCampaignMessage(q, b)
    BY <2>3, <2>4, <2>8 DEF SendCampaignMessage
  <2>9. CASE RecordOutgoing(q, b) \/ Acknowledged(q, b) \/ MessageSent(q, b) \/ MessageFailed(q, b)
    BY <2>3, <2>9 DEF RecordOutgoing, Acknowledged, MessageSent, MessageFailed
  <2>10. CASE ClaimTarget(q, b)
    BY <2>10, <1>d, DeviceFields DEF ClaimTarget
  <2> QED BY <1>2, <2>1, <2>5, <2>6, <2>7, <2>8, <2>9, <2>10 DEF DeviceStep
<1>3. ASSUME NEW q \in Proc, WorkerStep(q) PROVE dev[p][a].pc = "claim"
  <2>1. CASE FetchMedia(q)
    <3>1. dev' = [dev EXCEPT ![q] = [b \in Account |-> At("todo")]] \/ dev' = dev
      BY <2>1 DEF FetchMedia
    <3>2. dev'[p][a] = dev[p][a] \/ dev'[p][a] = At("todo")
      BY <1>t, <3>1
    <3> QED BY <3>2, DeviceFields
  <2>2. CASE DevicesDone(q)
    BY <2>2, DeviceFields DEF DevicesDone, TypeOK
  <2>3. ASSUME NEW b \in Account, LaunchDevice(q, b) PROVE dev[p][a].pc = "claim"
    BY <2>3, SetDeviceFact, DeviceFields DEF LaunchDevice
  <2> QED BY <1>0, <1>3, <2>1, <2>2, <2>3 DEF WorkerStep, ReconcileStuckTargets, CheckCancel,
        ClearCampaignStalled, MarkCampaignStalled, FailCampaign, ReleaseCampaign,
        PendingTargetCount, FinishCampaign, CancelRemainingWork
<1>4. ASSUME NEW q \in Proc, NEW b \in Account, CancelUnread(q, b) \/ DeviceError(q, b) PROVE FALSE
  BY <1>1, <1>4 DEF CancelUnread, DeviceError
<1>5. ASSUME NEW q \in Proc, Crash(q) PROVE dev[p][a].pc = "claim"
  BY <1>5, DeviceFields DEF Crash, TypeOK
<1>6. ASSUME NEW q \in Proc,
             ClaimDueCampaigns(q) \/ RenewCampaignLease(q) \/ CloseOrphanedTargets(q)
             \/ WorkerError(q) \/ Restart(q)
      PROVE  dev[p][a].pc = "claim"
  BY <1>0, <1>6 DEF ClaimDueCampaigns, RenewCampaignLease, CloseOrphanedTargets, WorkerError, Restart
<1>7. ASSUME OperatorStep PROVE dev[p][a].pc = "claim"
  BY <1>0, <1>7 DEF OperatorStep, CancelCampaign, RetryFailed, RunNow, ScheduleCampaign,
     ResendChecked, ResetTargets, ResetCampaign, ArchiveChecked, ArchiveStops, ArchiveCampaign,
     UnarchiveCampaign
<1>8. ASSUME WorldStep PROVE dev[p][a].pc = "claim"
  BY <1>0, <1>8 DEF WorldStep, Accept, Drop, AdvanceCampaignTargets, AdvanceMessageStatus,
     GoOffline, GoOnline, ExpireTargetLease, ExpireCampaignLease, GracePeriodEnds
<1> QED BY <1>2, <1>3, <1>4, <1>5, <1>6, <1>7, <1>8 DEF Next, ProcessStep

\* The flag is raised by RequestCancel alone.
LEMMA RaisesCancel ==
  ASSUME TypeOK, Next, ~camp.cancel, camp'.cancel
  PROVE  RequestCancel /\ (CancelCampaign \/ ArchiveStops)
<1>0. camp \in Campaign
  BY DEF TypeOK
<1>1. ASSUME UNCHANGED camp PROVE FALSE
  BY <1>1
<1>2. ASSUME NEW p \in Proc, WorkerStep(p) PROVE FALSE
  <2>1. CASE ClearCampaignStalled(p) \/ MarkCampaignStalled(p) \/ FailCampaign(p) \/ ReleaseCampaign(p)
    BY <1>0, <2>1 DEF ClearCampaignStalled, MarkCampaignStalled, FailCampaign, ReleaseCampaign, Campaign
  <2>2. CASE FinishCampaign(p)
    BY <1>0, <2>2 DEF FinishCampaign, Recounted, Campaign
  <2> QED BY <1>1, <1>2, <2>1, <2>2 DEF WorkerStep, ReconcileStuckTargets, CheckCancel, FetchMedia,
        DevicesDone, PendingTargetCount, CancelRemainingWork, LaunchDevice, rows
<1>3. ASSUME NEW p \in Proc, NEW a \in Account, DeviceStep(p, a) PROVE FALSE
  <2>1. CASE FinishAttemptSent(p, a) \/ FinishAttemptFailed(p, a)
    BY <1>0, <2>1 DEF FinishAttemptSent, FinishAttemptFailed, Campaign
  <2> QED BY <1>1, <1>3, <2>1 DEF DeviceStep, CheckDevice, AbandonDeviceShare, NoTarget, RenderFails,
        BeginAttempt, RecordOutgoing, SendCampaignMessage, Acknowledged, Refused, SendTimedOut,
        MessageSent, MessageFailed, rows
<1>4. ASSUME NEW p \in Proc, ProcessStep(p) PROVE FALSE
  <2>1. CASE ClaimDueCampaigns(p) \/ RenewCampaignLease(p) \/ Crash(p)
    BY <1>0, <2>1 DEF ClaimDueCampaigns, RenewCampaignLease, Crash, Campaign
  <2>2. CASE CloseOrphanedTargets(p) \/ WorkerError(p) \/ Restart(p)
    BY <1>1, <2>2 DEF CloseOrphanedTargets, WorkerError, Restart, rows
  <2>3. ASSUME NEW a \in Account, ClaimTarget(p, a) \/ CancelUnread(p, a) \/ DeviceError(p, a)
        PROVE  FALSE
    BY <1>1, <2>3 DEF ClaimTarget, CancelUnread, DeviceError, rows
  <2> QED BY <1>2, <1>3, <1>4, <2>1, <2>2, <2>3 DEF ProcessStep
<1>5. ASSUME OperatorStep PROVE RequestCancel /\ (CancelCampaign \/ ArchiveStops)
  <2>1. CASE RetryFailed \/ RunNow \/ ScheduleCampaign \/ ResetCampaign \/ ArchiveCampaign
             \/ UnarchiveCampaign
    BY <1>0, <2>1 DEF RetryFailed, RunNow, ScheduleCampaign, ResetCampaign, ArchiveCampaign,
       UnarchiveCampaign, Campaign
  <2> QED BY <1>1, <1>5, <2>1 DEF OperatorStep, CancelCampaign, ResendChecked, ResetTargets,
        ArchiveChecked, ArchiveStops, rows
<1>6. ASSUME WorldStep PROVE FALSE
  <2>1. CASE ExpireCampaignLease \/ GracePeriodEnds
    BY <1>0, <2>1 DEF ExpireCampaignLease, GracePeriodEnds, Campaign
  <2> QED BY <1>6, <1>1, <2>1 DEF WorldStep, Accept, Drop, AdvanceCampaignTargets,
        AdvanceMessageStatus, GoOffline, GoOnline, ExpireTargetLease, rows
<1> QED BY <1>4, <1>5, <1>6 DEF Next

LEMMA CancelStep ==
  ASSUME LeasesKept, NoRequeue, StatementsSucceed
  PROVE  CancelInv /\ [Next]_vars => CancelInv'
<1> SUFFICES ASSUME CancelInv, [Next]_vars PROVE CancelInv'
  OBVIOUS
<1>1. HandsInv /\ HandsInv'
  BY HandsStep DEF CancelInv
<1>2. CASE UNCHANGED vars
  BY <1>1, <1>2 DEF vars, CancelInv, Claimable
<1>3. CASE Next
  <2> SUFFICES ASSUME NEW p \in Proc, NEW a \in Account, NEW t \in Target,
                      camp'.cancel, dev'[p][a].pc = "claim", AccountOf[t] = a,
                      tgt'[t].status \in Waiting
               PROVE  FALSE
    BY <1>1 DEF CancelInv, Claimable
  <2>0. TypeOK
    BY <1>1 DEF HandsInv, OnceInv
  <2>1. CASE RequestCancel
    BY <2>0, <2>1, RowFields DEF RequestCancel, CancelledWith, Waiting, TypeOK
  <2>2. CASE ~RequestCancel
    <3>1. camp.cancel /\ dev[p][a].pc = "claim"
      BY <1>3, <2>0, <2>2, RaisesCancel, ReachesClaim
    <3>2. tgt[t].status \notin Waiting
      BY <3>1 DEF CancelInv, Claimable
    <3>3. PICK q \in Proc, b \in Account : PutBack(t, q, b)
      BY <1>1, <1>3, <3>2, MovesNext DEF RowMoves, Stays, SettledNow, MovesUp, TakenUp,
         Waiting, Reached, Lost
    <3>4. Holds(q, b) /\ Now(q, b) = t
      BY <3>3 DEF PutBack, Holds, Busy
    <3>5. b = a
      BY <1>1, <3>4 DEF HandsInv, OwnNumber
    <3>6. Working(q) /\ q = p
      BY <1>1, <3>1, <3>4, OneCrew DEF HandsInv, Working, Holds, Busy
    <3> QED BY <3>3, <3>5, <3>6 DEF PutBack
  <2> QED BY <2>1, <2>2
<1> QED BY <1>2, <1>3

\* Once RequestCancel has set the flag no recipient is taken up, whoever had
\* looked at the flag before: the statement that sets it empties the queue, and
\* what a goroutine puts back afterwards it meets the flag before claiming. A
\* look at the flag that fails reads as no cancel, and could still claim.
THEOREM NothingClaimedAfterCancel ==
  ASSUME LeasesKept, NoRequeue, StatementsSucceed PROVE Spec => NoClaimAfterCancel
<1> DEFINE Quiet ==
      camp.cancel /\ camp'.cancel =>
        \A t \in Target : tgt'[t].status = "processing" => tgt[t].status = "processing"
<1>1. ASSUME CancelInv, [Next]_vars PROVE [Quiet]_vars
  <2>1. CASE UNCHANGED vars
    BY <2>1
  <2>2. CASE Next
    <3> SUFFICES ASSUME camp.cancel, NEW t \in Target, tgt'[t].status = "processing"
                 PROVE  tgt[t].status = "processing"
      OBVIOUS
    <3>1. RowMoves(t)
      BY <1>1, <2>2, MovesNext DEF CancelInv
    <3>2. \A p \in Proc, a \in Account : ~(dev[p][a].pc = "claim" /\ TakenUp(t, a))
      BY <1>1 DEF CancelInv, TakenUp
    <3> QED BY <3>1, <3>2 DEF RowMoves, Stays, SettledNow, MovesUp, PutBack, Reached, Lost
  <2> QED BY <1>1, <2>1, <2>2
<1>2. CancelInv /\ [Next]_vars => [Quiet]_vars
  BY <1>1
<1>3. Init => CancelInv
  <2> SUFFICES ASSUME Init PROVE CancelInv
    OBVIOUS
  <2>1. ~camp.cancel
    BY DEF Init
  <2> QED BY <2>1, HandsInit DEF CancelInv
<1>4. CancelInv /\ [Next]_vars => CancelInv'
  BY CancelStep
<1> QED BY <1>2, <1>3, <1>4, PTL DEF Spec, NoClaimAfterCancel

-----------------------------------------------------------------------------
(* ClaimedIsAttempted *)

\* The goroutine that writes the row of its attempt.
Writes(p, a, t, k) ==
  /\ Holds(p, a) /\ Now(p, a) = t /\ Try(p, a) = k
  /\ dev'[p][a].pc # "pace"
  /\ dev[p][a].pc = "pace" => dev'[p][a].pc = "record"

LEMMA AttemptWritten ==
  ASSUME TypeOK, HandsOK, Next, NEW t \in Target, NEW k \in Tries,
         att[t][k] = "none", att'[t][k] # "none"
  PROVE  \E p \in Proc, a \in Account : Writes(p, a, t, k)
<1>u. ASSUME UNCHANGED att PROVE FALSE
  BY <1>u
<1>1. ASSUME NEW p \in Proc, WorkerStep(p) PROVE FALSE
  <2>1. CASE ReconcileStuckTargets(p)
    <3>1. att'[t][k] = att[t][k] \/ att'[t][k] = ReconciledAttempt(t, k)
      BY <2>1 DEF ReconcileStuckTargets
    <3> QED BY <3>1 DEF ReconciledAttempt, Landed, Interrupted
  <2> QED BY <1>1, <1>u, <2>1 DEF WorkerStep, CheckCancel, FetchMedia, DevicesDone,
        ClearCampaignStalled, MarkCampaignStalled, FailCampaign, ReleaseCampaign,
        PendingTargetCount, FinishCampaign, CancelRemainingWork, LaunchDevice, rows
<1>2. ASSUME NEW p \in Proc, NEW a \in Account, DeviceStep(p, a) PROVE Writes(p, a, t, k)
  <2>0. dev[p][a] \in Device
    BY DEF TypeOK
  <2>1. ASSUME Holds(p, a), NEW s, att' = att \/ att' = [att EXCEPT ![Now(p, a)][Try(p, a)] = s]
        PROVE  Now(p, a) = t /\ Try(p, a) = k
    BY <2>1, InHand DEF TypeOK
  <2>2. CASE BeginAttempt(p, a)
    <3>1. att' = [att EXCEPT ![Now(p, a)][Try(p, a)] = "sending"] /\ Step(p, a, "record")
      BY <1>u, <2>2 DEF BeginAttempt
    <3>2. dev'[p][a].pc = "record"
      BY <2>0, <3>1, SetDeviceFact, DeviceFields DEF Step
    <3> QED BY <2>1, <2>2, <3>1, <3>2 DEF BeginAttempt, Writes, Holds, Busy
  <2>3. CASE FinishAttemptSent(p, a)
    <3>1. /\ att' = att \/ att' = [att EXCEPT ![Now(p, a)][Try(p, a)] = "sent"]
          /\ SetDevice(p, a, At("running")) /\ dev[p][a].pc = "sent"
      BY <2>3 DEF FinishAttemptSent, Now, Try
    <3>2. dev'[p][a].pc = "running"
      BY <3>1, SetDeviceFact, DeviceFields
    <3> QED BY <2>1, <3>1, <3>2 DEF Writes, Holds, Busy
  <2>4. CASE FinishAttemptFailed(p, a)
    <3>1. /\ att' = att \/ att' = [att EXCEPT ![Now(p, a)][Try(p, a)] = "failed"]
          /\ SetDevice(p, a, At("running")) /\ dev[p][a].pc = "failed"
      BY <2>4 DEF FinishAttemptFailed
    <3>2. dev'[p][a].pc = "running"
      BY <3>1, SetDeviceFact, DeviceFields
    <3> QED BY <2>1, <3>1, <3>2 DEF Writes, Holds, Busy
  <2> QED BY <1>2, <1>u, <2>2, <2>3, <2>4 DEF DeviceStep, CheckDevice, AbandonDeviceShare, NoTarget,
        RenderFails, RecordOutgoing, SendCampaignMessage, Acknowledged, Refused, SendTimedOut,
        MessageSent, MessageFailed, rows
<1>3. ASSUME NEW p \in Proc, NEW a \in Account,
             ClaimTarget(p, a) \/ CancelUnread(p, a) \/ DeviceError(p, a)
      PROVE  FALSE
  BY <1>u, <1>3 DEF ClaimTarget, CancelUnread, DeviceError, rows
<1>4. ASSUME NEW p \in Proc,
             ClaimDueCampaigns(p) \/ RenewCampaignLease(p) \/ CloseOrphanedTargets(p)
             \/ WorkerError(p) \/ Restart(p) \/ Crash(p)
      PROVE  FALSE
  BY <1>u, <1>4 DEF ClaimDueCampaigns, RenewCampaignLease, CloseOrphanedTargets, WorkerError,
     Restart, Crash, rows
<1>5. ASSUME OperatorStep PROVE FALSE
  BY <1>u, <1>5 DEF OperatorStep, CancelCampaign, RetryFailed, RunNow, ScheduleCampaign,
     ResendChecked, ResetTargets, ResetCampaign, ArchiveChecked, ArchiveStops, ArchiveCampaign,
     UnarchiveCampaign, rows
<1>6. ASSUME WorldStep PROVE FALSE
  BY <1>u, <1>6 DEF WorldStep, Accept, Drop, AdvanceCampaignTargets, AdvanceMessageStatus,
     GoOffline, GoOnline, ExpireTargetLease, ExpireCampaignLease, GracePeriodEnds, rows
<1> QED BY <1>1, <1>2, <1>3, <1>4, <1>5, <1>6 DEF Next, ProcessStep

\* The claim alone counts attempts, upwards, while nobody resets them.
LEMMA AttemptsCounted ==
  ASSUME OnceInv, NoRequeue, Next, NEW t \in Target
  PROVE  tgt'[t].attempt = tgt[t].attempt \/ tgt'[t].attempt = tgt[t].attempt + 1
<1>0. TypeOK /\ tgt[t] \in Recipient
  BY DEF OnceInv, TypeOK
<1>n. ~Request("retry") /\ ~Request("resend") /\ ui \notin {"resend", "requeue"}
  BY DEF NoRequeue, Request, OnceInv, NoResend
<1>u. ASSUME tgt'[t] = tgt[t] \/ tgt'[t].attempt = tgt[t].attempt
      PROVE  tgt'[t].attempt = tgt[t].attempt
  BY <1>u
<1>1. ASSUME NEW p \in Proc, WorkerStep(p) PROVE tgt'[t].attempt = tgt[t].attempt
  <2>1. CASE ReconcileStuckTargets(p)
    <3>1. tgt'[t] = tgt[t] \/ tgt'[t] = ReconciledTarget(t)
      BY <2>1 DEF ReconcileStuckTargets
    <3> QED BY <1>0, <3>1, RowFields DEF ReconciledTarget
  <2>2. CASE CancelRemainingWork(p)
    BY <1>0, <2>2, RowFields DEF CancelRemainingWork
  <2> QED BY <1>1, <1>u, <2>1, <2>2 DEF WorkerStep, CheckCancel, FetchMedia, DevicesDone,
        ClearCampaignStalled, MarkCampaignStalled, FailCampaign, ReleaseCampaign,
        PendingTargetCount, FinishCampaign, LaunchDevice, rows
<1>2. ASSUME NEW p \in Proc, NEW a \in Account, DeviceStep(p, a)
      PROVE  tgt'[t].attempt = tgt[t].attempt
  <2>1. CASE AbandonDeviceShare(p, a)
    BY <1>0, <2>1, RowFields DEF AbandonDeviceShare
  <2>2. CASE FinishAttemptSent(p, a)
    <3>1. tgt'[t] = tgt[t] \/ tgt'[t] = SentAs(tgt[t], Try(p, a), "none")
      BY <1>0, <2>2 DEF FinishAttemptSent, Try, TypeOK
    <3> QED BY <1>0, <3>1, RowFields
  <2>3. CASE FinishAttemptFailed(p, a)
    <3>1. tgt'[t] = tgt[t] \/ \E s, c : tgt'[t] = Closed(tgt[t], s, c)
      BY <1>0, <2>3 DEF FinishAttemptFailed, TypeOK
    <3> QED BY <1>0, <3>1, RowFields
  <2> QED BY <1>2, <1>u, <2>1, <2>2, <2>3 DEF DeviceStep, CheckDevice, NoTarget, RenderFails,
        BeginAttempt, RecordOutgoing, SendCampaignMessage, Acknowledged, Refused, SendTimedOut,
        MessageSent, MessageFailed, rows
<1>3. ASSUME NEW p \in Proc, NEW a \in Account, ClaimTarget(p, a)
      PROVE  tgt'[t].attempt = tgt[t].attempt \/ tgt'[t].attempt = tgt[t].attempt + 1
  <2>1. tgt'[t] = tgt[t] \/ tgt'[t] = Claimed(tgt[t])
    BY <1>0, <1>3 DEF ClaimTarget, TypeOK
  <2> QED BY <1>0, <2>1, RowFields
<1>4. ASSUME NEW p \in Proc, NEW a \in Account, CancelUnread(p, a) \/ DeviceError(p, a)
      PROVE  tgt'[t].attempt = tgt[t].attempt
  BY <1>u, <1>4 DEF CancelUnread, DeviceError, rows
<1>5. ASSUME NEW p \in Proc,
             ClaimDueCampaigns(p) \/ RenewCampaignLease(p) \/ WorkerError(p) \/ Restart(p) \/ Crash(p)
      PROVE  tgt'[t].attempt = tgt[t].attempt
  BY <1>u, <1>5 DEF ClaimDueCampaigns, RenewCampaignLease, WorkerError, Restart, Crash, rows
<1>6. ASSUME NEW p \in Proc, CloseOrphanedTargets(p) PROVE tgt'[t].attempt = tgt[t].attempt
  BY <1>0, <1>6, RowFields DEF CloseOrphanedTargets
<1>7. ASSUME OperatorStep PROVE tgt'[t].attempt = tgt[t].attempt
  <2>1. ASSUME RequestCancel PROVE tgt'[t].attempt = tgt[t].attempt
    BY <1>0, <2>1, RowFields DEF RequestCancel
  <2>2. CASE CancelCampaign \/ ArchiveStops
    BY <1>u, <2>1, <2>2 DEF CancelCampaign, ArchiveStops
  <2>3. CASE RetryFailed \/ ResendChecked \/ ResetTargets \/ ResetCampaign
    BY <1>n, <2>3 DEF RetryFailed, ResendChecked, ResetTargets, ResetCampaign
  <2> QED BY <1>7, <1>u, <2>2, <2>3 DEF OperatorStep, RunNow, ScheduleCampaign, ArchiveChecked,
        ArchiveCampaign, UnarchiveCampaign, rows
<1>8. ASSUME WorldStep PROVE tgt'[t].attempt = tgt[t].attempt
  <2>1. ASSUME NEW u \in Target, NEW k \in Tries, NEW r \in ReceiptType,
               AdvanceCampaignTargets(u, k, r)
        PROVE  tgt'[t].attempt = tgt[t].attempt
    <3>1. tgt'[t] = tgt[t] \/ tgt'[t] = Advanced(tgt[t], r)
      BY <1>0, <2>1 DEF AdvanceCampaignTargets, AdvancedTarget, TypeOK
    <3> QED BY <1>0, <3>1, RowFields
  <2>2. ASSUME NEW u \in Target, ExpireTargetLease(u) PROVE tgt'[t].attempt = tgt[t].attempt
    <3>1. tgt'[t] = tgt[t] \/ tgt'[t] = Expired(tgt[t])
      BY <1>0, <2>2 DEF ExpireTargetLease, TypeOK
    <3> QED BY <1>0, <3>1, RowFields
  <2> QED BY <1>8, <1>u, <2>1, <2>2 DEF WorldStep, Accept, Drop, AdvanceMessageStatus, GoOffline,
        GoOnline, ExpireCampaignLease, GracePeriodEnds, rows
<1> QED BY <1>1, <1>2, <1>3, <1>4, <1>5, <1>6, <1>7, <1>8 DEF Next, ProcessStep

LEMMA ClaimStep == ASSUME NoRequeue PROVE ClaimInv /\ [Next]_vars => ClaimInv'
<1> SUFFICES ASSUME ClaimInv, [Next]_vars PROVE ClaimInv'
  OBVIOUS
<1>0. OnceInv /\ OnceInv' /\ TypeOK /\ HandsOK
  BY OnceStep DEF ClaimInv, OnceInv
<1>1. CASE UNCHANGED vars
  BY <1>0, <1>1 DEF vars, ClaimInv, Now, Try
<1>2. CASE Next
  <2>1. ASSUME NEW t \in Target, NEW k \in Tries, k > tgt'[t].attempt PROVE att'[t][k] = "none"
    <3>1. tgt[t].attempt \in Nat /\ k \in Nat
      BY <1>0, ConstantsAssumption DEF TypeOK, Recipient, Tries
    <3>2. k > tgt[t].attempt
      BY <1>0, <1>2, <2>1, <3>1, AttemptsCounted
    <3>3. att[t][k] = "none"
      BY <3>2 DEF ClaimInv
    <3>4. ASSUME NEW p \in Proc, NEW a \in Account, Writes(p, a, t, k) PROVE FALSE
      <4>1. tgt[t].attempt = k
        BY <1>0, <3>4 DEF Writes, OnceInv, HeldOut
      <4> QED BY <3>1, <3>2, <4>1
    <3> QED BY <1>0, <1>2, <3>3, <3>4, AttemptWritten
  <2>2. ASSUME NEW q \in Proc, NEW b \in Account, dev'[q][b].pc = "pace"
        PROVE  att'[Now(q, b)'][Try(q, b)'] = "none"
    <3>1. Holds(q, b)' /\ Now(q, b)' \in Target /\ Try(q, b)' \in Tries
      BY <1>0, <2>2 DEF OnceInv, HandsOK, Holds, Busy
    <3>2. dev'[q][b] = dev[q][b] \/ TakesUp(q, b)
      BY <1>0, <1>2, <2>2, <3>1, ErrandsNext DEF Errands, Errand, GoesOn
    <3>3. CASE TakesUp(q, b)
      <4> DEFINE u == Now(q, b)'
                 j == Try(q, b)'
      <4>1. u \in Target /\ j \in Tries /\ j = tgt[u].attempt + 1 /\ UNCHANGED att
        BY <3>1, <3>3 DEF TakesUp
      <4>2. tgt[u].attempt \in Nat
        BY <1>0, <4>1, ConstantsAssumption DEF TypeOK, Recipient
      <4> HIDE DEF u, j
      <4>3. j > tgt[u].attempt
        BY <4>1, <4>2
      <4>4. att'[u][j] = "none"
        BY <4>1, <4>3 DEF ClaimInv
      <4> QED BY <4>4 DEF u, j
    <3>4. CASE dev'[q][b] = dev[q][b]
      <4>1. /\ Holds(q, b) /\ dev[q][b].pc = "pace"
            /\ Now(q, b)' = Now(q, b) /\ Try(q, b)' = Try(q, b)
        BY <2>2, <3>4 DEF Holds, Busy, Now, Try
      <4>2. att[Now(q, b)][Try(q, b)] = "none" /\ Now(q, b) \in Target /\ Try(q, b) \in Tries
        BY <1>0, <4>1 DEF ClaimInv, HandsOK
      <4>3. ASSUME NEW p \in Proc, NEW a \in Account, Writes(p, a, Now(q, b), Try(q, b))
            PROVE  FALSE
        <5>1. p = q /\ a = b
          BY <1>0, <4>1, <4>3 DEF Writes, OnceInv, OneHolder
        <5> QED BY <2>2, <4>3, <5>1 DEF Writes
      <4> QED BY <1>0, <1>2, <4>1, <4>2, <4>3, AttemptWritten
    <3> QED BY <3>2, <3>3, <3>4
  <2> QED BY <1>0, <2>1, <2>2 DEF ClaimInv
<1> QED BY <1>1, <1>2

\* A recipient taken up is attempted: the unique index uq_broadcast_attempt turns
\* no claim away, since only a retry or a resend numbers attempts anew.
THEOREM ClaimLeadsToAttempt ==
  ASSUME NoRequeue PROVE Spec => ClaimedIsAttempted
<1> DEFINE Attempted ==
      \A p \in Proc, a \in Account :
        ~(dev[p][a].pc = "pace" /\ att'[Now(p, a)][Try(p, a)] # "none" /\ dev'[p][a].pc = "running")
<1>1. ASSUME ClaimInv, [Next]_vars PROVE [Attempted]_vars
  <2>1. CASE UNCHANGED vars
    BY <2>1
  <2>2. CASE Next
    <3> SUFFICES ASSUME NEW p \in Proc, NEW a \in Account, dev[p][a].pc = "pace",
                        att'[Now(p, a)][Try(p, a)] # "none", dev'[p][a].pc = "running"
                 PROVE  FALSE
      OBVIOUS
    <3>1. TypeOK /\ HandsOK /\ Holds(p, a) /\ att[Now(p, a)][Try(p, a)] = "none"
      BY <1>1 DEF ClaimInv, OnceInv, Holds, Busy
    <3>2. Now(p, a) \in Target /\ Try(p, a) \in Tries
      BY <3>1 DEF HandsOK
    <3>3. PICK q \in Proc, b \in Account : Writes(q, b, Now(p, a), Try(p, a))
      BY <2>2, <3>1, <3>2, AttemptWritten
    <3>4. q = p /\ b = a
      BY <1>1, <3>1, <3>3 DEF Writes, ClaimInv, OnceInv, OneHolder
    <3> QED BY <3>3, <3>4 DEF Writes
  <2> QED BY <1>1, <2>1, <2>2
<1>2. ClaimInv /\ [Next]_vars => [Attempted]_vars
  BY <1>1
<1>3. Init => ClaimInv
  <2> SUFFICES ASSUME Init PROVE ClaimInv
    OBVIOUS
  <2>1. \A p \in Proc, a \in Account : dev[p][a].pc = "off"
    BY DeviceFields DEF Init
  <2>2. \A t \in Target, k \in Tries : att[t][k] = "none"
    BY DEF Init
  <2> QED BY <2>1, <2>2, OnceInit DEF ClaimInv
<1>4. ClaimInv /\ [Next]_vars => ClaimInv'
  BY ClaimStep
<1> QED BY <1>2, <1>3, <1>4, PTL DEF Spec, ClaimedIsAttempted

-----------------------------------------------------------------------------
(* ClosedWasNotReached *)

\* The goroutine that closes the recipient it knows not to have been reached.
ClosesKnown(p, a, t) ==
  /\ dev[p][a].pc = "failed" /\ dev[p][a].why # "timeout" /\ Now(p, a) = t
  /\ dev'[p][a].pc = "running" /\ UNCHANGED net

LEMMA RowCloses ==
  ASSUME TypeOK, HandsOK, NoResend, NothingCancelled, NoRequeue, NoCancel, Next,
         NEW t \in Target, KnownClosed(tgt'[t])
  PROVE  KnownClosed(tgt[t]) \/ \E p \in Proc, a \in Account : ClosesKnown(p, a, t)
<1>0. tgt[t] \in Recipient
  BY DEF TypeOK
<1>n. ~Request("retry") /\ ~Request("resend") /\ ~Request("cancel") /\ ~Request("archive")
      /\ ui \notin {"resend", "requeue", "stop"}
  BY DEF NoRequeue, NoCancel, Request, NoResend, NothingCancelled
<1>u. ASSUME tgt'[t] = tgt[t] PROVE KnownClosed(tgt[t])
  BY <1>u
<1>1. ASSUME NEW p \in Proc, WorkerStep(p) PROVE KnownClosed(tgt[t])
  <2>1. CASE ReconcileStuckTargets(p)
    <3>1. tgt'[t] = tgt[t] \/ tgt'[t] = ReconciledTarget(t)
      BY <2>1 DEF ReconcileStuckTargets
    <3> QED BY <1>0, <3>1, RowFields, RowCodes DEF ReconciledTarget, KnownClosed
  <2>2. CASE CancelRemainingWork(p)
    BY <2>2 DEF CancelRemainingWork, NothingCancelled
  <2> QED BY <1>1, <1>u, <2>1, <2>2 DEF WorkerStep, CheckCancel, FetchMedia, DevicesDone,
        ClearCampaignStalled, MarkCampaignStalled, FailCampaign, ReleaseCampaign,
        PendingTargetCount, FinishCampaign, LaunchDevice, rows
<1>2. ASSUME NEW p \in Proc, NEW a \in Account, DeviceStep(p, a)
      PROVE  KnownClosed(tgt[t]) \/ ClosesKnown(p, a, t)
  <2>1. CASE AbandonDeviceShare(p, a)
    BY <2>1 DEF AbandonDeviceShare, NothingCancelled
  <2>2. CASE FinishAttemptSent(p, a)
    <3>1. tgt'[t] = tgt[t] \/ tgt'[t] = SentAs(tgt[t], Try(p, a), "none")
      BY <1>0, <2>2 DEF FinishAttemptSent, Try, TypeOK
    <3> QED BY <1>0, <3>1, RowFields DEF KnownClosed
  <2>3. CASE FinishAttemptFailed(p, a)
    <3>1. /\ dev[p][a].pc = "failed" /\ UNCHANGED net /\ SetDevice(p, a, At("running"))
          /\ \E s \in {"retry_wait", "failed"} :
                tgt' = [tgt EXCEPT ![Now(p, a)] = Closed(tgt[Now(p, a)], s, ErrorCode(dev[p][a]))]
      BY <2>3 DEF FinishAttemptFailed, world
    <3>2. dev'[p][a].pc = "running"
      BY <3>1, SetDeviceFact, DeviceFields
    <3>3. CASE Now(p, a) # t
      BY <3>1, <3>3, <1>u
    <3>4. CASE Now(p, a) = t
      <4>1. PICK s \in {"retry_wait", "failed"} : tgt'[t] = Closed(tgt[t], s, ErrorCode(dev[p][a]))
        BY <3>1, <3>4 DEF TypeOK
      <4>2. ErrorCode(dev[p][a]) # "unknown"
        BY <1>0, <4>1, RowFields, RowCodes DEF KnownClosed
      <4> QED BY <3>1, <3>2, <3>4, <4>2 DEF ErrorCode, ClosesKnown
    <3> QED BY <3>3, <3>4
  <2> QED BY <1>2, <1>u, <2>1, <2>2, <2>3 DEF DeviceStep, CheckDevice, NoTarget, RenderFails,
        BeginAttempt, RecordOutgoing, SendCampaignMessage, Acknowledged, Refused, SendTimedOut,
        MessageSent, MessageFailed, rows
<1>3. ASSUME NEW p \in Proc, NEW a \in Account, ClaimTarget(p, a) PROVE KnownClosed(tgt[t])
  <2>1. tgt'[t] = tgt[t] \/ tgt'[t] = Claimed(tgt[t])
    BY <1>0, <1>3 DEF ClaimTarget, TypeOK
  <2> QED BY <1>0, <2>1, RowFields DEF KnownClosed
<1>4. ASSUME NEW p \in Proc, NEW a \in Account, CancelUnread(p, a) \/ DeviceError(p, a)
      PROVE  KnownClosed(tgt[t])
  BY <1>u, <1>4 DEF CancelUnread, DeviceError, rows
<1>5. ASSUME NEW p \in Proc,
             ClaimDueCampaigns(p) \/ RenewCampaignLease(p) \/ WorkerError(p) \/ Restart(p) \/ Crash(p)
      PROVE  KnownClosed(tgt[t])
  BY <1>u, <1>5 DEF ClaimDueCampaigns, RenewCampaignLease, WorkerError, Restart, Crash, rows
<1>6. ASSUME NEW p \in Proc, CloseOrphanedTargets(p) PROVE KnownClosed(tgt[t])
  BY <1>0, <1>6, RowFields, RowCodes DEF CloseOrphanedTargets, KnownClosed
<1>7. ASSUME OperatorStep PROVE KnownClosed(tgt[t])
  <2>1. CASE CancelCampaign \/ ArchiveStops \/ RetryFailed \/ ResendChecked \/ ResetTargets
             \/ ResetCampaign
    BY <1>n, <2>1 DEF CancelCampaign, ArchiveStops, RetryFailed, ResendChecked, ResetTargets,
       ResetCampaign
  <2> QED BY <1>7, <1>u, <2>1 DEF OperatorStep, RunNow, ScheduleCampaign, ArchiveChecked,
        ArchiveCampaign, UnarchiveCampaign, rows
<1>8. ASSUME WorldStep PROVE KnownClosed(tgt[t])
  <2>1. ASSUME NEW u \in Target, NEW k \in Tries, NEW r \in ReceiptType,
               AdvanceCampaignTargets(u, k, r)
        PROVE  KnownClosed(tgt[t])
    <3>1. tgt'[t] = tgt[t] \/ tgt'[t] = Advanced(tgt[t], r)
      BY <1>0, <2>1 DEF AdvanceCampaignTargets, AdvancedTarget, TypeOK
    <3> QED BY <1>0, <3>1, RowFields DEF KnownClosed, ReceiptType
  <2>2. ASSUME NEW u \in Target, ExpireTargetLease(u) PROVE KnownClosed(tgt[t])
    <3>1. tgt'[t] = tgt[t] \/ tgt'[t] = Expired(tgt[t])
      BY <1>0, <2>2 DEF ExpireTargetLease, TypeOK
    <3> QED BY <1>0, <3>1, RowFields, RowCodes DEF KnownClosed
  <2> QED BY <1>8, <1>u, <2>1, <2>2 DEF WorldStep, Accept, Drop, AdvanceMessageStatus, GoOffline,
        GoOnline, ExpireCampaignLease, GracePeriodEnds, rows
<1> QED BY <1>1, <1>2, <1>3, <1>4, <1>5, <1>6, <1>7, <1>8 DEF Next, ProcessStep

\* A message gets on its way from the hands of the goroutine that sends it.
Sends(p, a, t, k) ==
  /\ dev[p][a].pc = "send" /\ Now(p, a) = t /\ Try(p, a) = k
  /\ dev'[p][a].pc = "sending" /\ UNCHANGED tgt

LEMMA MessageLeaves ==
  ASSUME TypeOK, HandsOK, Next, NEW t \in Target, NEW k \in Tries, InFlight(t, k)'
  PROVE  InFlight(t, k) \/ \E p \in Proc, a \in Account : Sends(p, a, t, k)
<1> USE DEF InFlight
<1>u. ASSUME net' = net PROVE InFlight(t, k)
  BY <1>u
<1>1. ASSUME NEW p \in Proc, NEW a \in Account, DeviceStep(p, a)
      PROVE  InFlight(t, k) \/ Sends(p, a, t, k)
  <2>0. dev[p][a] \in Device
    BY DEF TypeOK
  <2>1. CASE SendCampaignMessage(p, a) /\ net' # net
    <3>1. /\ dev[p][a].pc = "send" /\ UNCHANGED tgt /\ Step(p, a, "sending")
          /\ net' = [net EXCEPT ![Now(p, a)][Try(p, a)] = "wire"]
      BY <2>1 DEF SendCampaignMessage, rows
    <3>2. dev'[p][a].pc = "sending"
      BY <2>0, <3>1, SetDeviceFact, DeviceFields DEF Step
    <3>3. InFlight(t, k) \/ (t = Now(p, a) /\ k = Try(p, a))
      BY <3>1 DEF TypeOK
    <3> QED BY <3>1, <3>2, <3>3 DEF Sends
  <2>2. CASE Refused(p, a)
    <3>1. net' = [net EXCEPT ![Now(p, a)][Try(p, a)] = "dropped"]
      BY <2>2 DEF Refused
    <3> QED BY <3>1 DEF TypeOK
  <2> QED BY <1>1, <1>u, <2>1, <2>2 DEF DeviceStep, CheckDevice, AbandonDeviceShare, NoTarget,
        RenderFails, BeginAttempt, RecordOutgoing, Acknowledged, SendTimedOut, MessageSent,
        MessageFailed, FinishAttemptSent, FinishAttemptFailed, world
<1>2. ASSUME NEW p \in Proc, WorkerStep(p) PROVE InFlight(t, k)
  BY <1>u, <1>2 DEF WorkerStep, ReconcileStuckTargets, CheckCancel, FetchMedia, DevicesDone,
     ClearCampaignStalled, MarkCampaignStalled, FailCampaign, ReleaseCampaign,
     PendingTargetCount, FinishCampaign, CancelRemainingWork, LaunchDevice, world
<1>3. ASSUME NEW p \in Proc, NEW a \in Account,
             ClaimTarget(p, a) \/ CancelUnread(p, a) \/ DeviceError(p, a)
      PROVE  InFlight(t, k)
  BY <1>u, <1>3 DEF ClaimTarget, CancelUnread, DeviceError, world
<1>4. ASSUME NEW p \in Proc,
             ClaimDueCampaigns(p) \/ RenewCampaignLease(p) \/ CloseOrphanedTargets(p)
             \/ WorkerError(p) \/ Restart(p) \/ Crash(p)
      PROVE  InFlight(t, k)
  BY <1>u, <1>4 DEF ClaimDueCampaigns, RenewCampaignLease, CloseOrphanedTargets, WorkerError,
     Restart, Crash, world
<1>5. ASSUME OperatorStep PROVE InFlight(t, k)
  BY <1>u, <1>5 DEF OperatorStep, CancelCampaign, RetryFailed, RunNow, ScheduleCampaign,
     ResendChecked, ResetTargets, ResetCampaign, ArchiveChecked, ArchiveStops, ArchiveCampaign,
     UnarchiveCampaign, world
<1>6. ASSUME WorldStep PROVE InFlight(t, k)
  <2>1. ASSUME NEW u \in Target, NEW j \in Tries, Accept(u, j) \/ Drop(u, j) PROVE InFlight(t, k)
    <3>1. PICK fate \in {"accepted", "dropped"} :
            net[u][j] = "wire" /\ net' = [net EXCEPT ![u][j] = fate]
      BY <2>1 DEF Accept, Drop
    <3> QED BY <3>1 DEF TypeOK
  <2> QED BY <1>6, <1>u, <2>1 DEF WorldStep, AdvanceCampaignTargets, AdvanceMessageStatus,
        GoOffline, GoOnline, ExpireTargetLease, ExpireCampaignLease, GracePeriodEnds, world
<1> QED BY <1>1, <1>2, <1>3, <1>4, <1>5, <1>6 DEF Next, ProcessStep

\* With no request to cancel and offline numbers waited for, nobody takes the
\* two ways that close recipients wholesale.
LEMMA NothingCancelledStep ==
  ASSUME TypeOK, NothingCancelled, NoCancel, AutoRetry, Next PROVE NothingCancelled'
<1> USE DEF NothingCancelled
<1>n. ~Request("cancel") /\ ~Request("archive")
  BY DEF NoCancel, Request
<1>1. ~camp'.cancel
  <2>1. ASSUME camp'.cancel PROVE FALSE
    BY <1>n, <2>1, RaisesCancel DEF CancelCampaign, ArchiveStops
  <2> QED BY <2>1
<1>2. ASSUME UNCHANGED <<run, dev>>, ui' # "stop" PROVE NothingCancelled'
  BY <1>1, <1>2
<1>r. ASSUME UNCHANGED <<dev, ui>>, NEW p \in Proc, NEW s, s # "cancelling",
             run' = [run EXCEPT ![p] = s]
      PROVE  NothingCancelled'
  BY <1>1, <1>r DEF TypeOK
<1>d. ASSUME UNCHANGED <<run, ui>>, NEW p \in Proc, NEW a \in Account, NEW d, SetDevice(p, a, d),
             d.pc # "abandon"
      PROVE  NothingCancelled'
  BY <1>1, <1>d, SetDeviceFact
<1>3. ASSUME NEW p \in Proc, WorkerStep(p) PROVE NothingCancelled'
  <2>0. UNCHANGED ui
    BY <1>3 DEF WorkerStep, ReconcileStuckTargets, CheckCancel, FetchMedia, DevicesDone,
       ClearCampaignStalled, MarkCampaignStalled, FailCampaign, ReleaseCampaign,
       PendingTargetCount, FinishCampaign, CancelRemainingWork, LaunchDevice, book
  <2>1. CASE FetchMedia(p) \/ DevicesDone(p)
    <3>1. \A q \in Proc : run'[q] # "cancelling"
      BY <2>1 DEF FetchMedia, DevicesDone, TypeOK
    <3>2. \A q \in Proc, a \in Account :
            dev'[q][a] = dev[q][a] \/ dev'[q][a] = At("todo") \/ dev'[q][a] = Idle
      <4>1. UNCHANGED dev \/ dev' = [dev EXCEPT ![p] = [a \in Account |-> At("todo")]]
            \/ dev' = [dev EXCEPT ![p] = [a \in Account |-> Idle]]
        BY <2>1 DEF FetchMedia, DevicesDone
      <4>2. dev \in [Proc -> [Account -> Device]]
        BY DEF TypeOK
      <4> QED BY <4>1, <4>2
    <3>3. At("todo").pc # "abandon" /\ Idle.pc # "abandon"
      BY DeviceFields
    <3>4. \A q \in Proc, a \in Account : dev'[q][a].pc # "abandon"
      BY <3>2, <3>3
    <3> QED BY <1>1, <2>0, <3>1, <3>4
  <2>2. ASSUME NEW a \in Account, LaunchDevice(p, a) PROVE NothingCancelled'
    BY <1>d, <2>2, DeviceFields DEF LaunchDevice, book
  <2>3. CASE CheckCancel(p)
    BY <1>r, <2>0, <2>3 DEF CheckCancel
  <2>4. CASE ReconcileStuckTargets(p) \/ ClearCampaignStalled(p) \/ MarkCampaignStalled(p)
             \/ FailCampaign(p)
    BY <1>r, <2>0, <2>4 DEF ReconcileStuckTargets, ClearCampaignStalled, MarkCampaignStalled, FailCampaign
  <2>5. CASE ReleaseCampaign(p) \/ PendingTargetCount(p) \/ FinishCampaign(p)
             \/ CancelRemainingWork(p)
    BY <1>r, <2>0, <2>5 DEF ReleaseCampaign, PendingTargetCount, FinishCampaign, CancelRemainingWork
  <2> QED BY <1>3, <2>1, <2>2, <2>3, <2>4, <2>5 DEF WorkerStep
<1>4. ASSUME NEW p \in Proc, NEW a \in Account, DeviceStep(p, a) \/ ClaimTarget(p, a)
      PROVE  NothingCancelled'
  <2>0. dev[p][a] \in Device /\ UNCHANGED <<run, ui>>
    BY <1>4 DEF TypeOK, book, DeviceStep, CheckDevice, AbandonDeviceShare, NoTarget, RenderFails,
       BeginAttempt, RecordOutgoing, SendCampaignMessage, Acknowledged, Refused, SendTimedOut,
       MessageSent, MessageFailed, FinishAttemptSent, FinishAttemptFailed, ClaimTarget
  <2>1. ASSUME NEW pc, pc # "abandon", SetDevice(p, a, At(pc)) PROVE NothingCancelled'
    BY <2>0, <2>1, <1>d, DeviceFields
  <2>2. ASSUME NEW pc, pc # "abandon", Step(p, a, pc) PROVE NothingCancelled'
    BY <2>0, <2>2, <1>d, DeviceFields DEF Step
  <2>3. ASSUME NEW pc, NEW w, pc # "abandon", SetDevice(p, a, Blamed(dev[p][a], pc, w))
        PROVE  NothingCancelled'
    BY <2>0, <2>3, <1>d, DeviceFields
  <2>4. CASE CheckDevice(p, a) \/ AbandonDeviceShare(p, a) \/ NoTarget(p, a)
             \/ FinishAttemptSent(p, a) \/ FinishAttemptFailed(p, a)
    BY <2>1, <2>4 DEF CheckDevice, AfterCheck, Onward, AbandonDeviceShare, NoTarget,
       FinishAttemptSent, FinishAttemptFailed
  <2>5. CASE RenderFails(p, a) \/ Refused(p, a) \/ SendTimedOut(p, a)
    BY <2>3, <2>5 DEF RenderFails, Refused, SendTimedOut
  <2>6. CASE BeginAttempt(p, a) \/ SendCampaignMessage(p, a)
    BY <2>1, <2>2, <2>3, <2>6 DEF BeginAttempt, SendCampaignMessage
  <2>7. CASE RecordOutgoing(p, a) \/ Acknowledged(p, a) \/ MessageSent(p, a) \/ MessageFailed(p, a)
    BY <2>2, <2>7 DEF RecordOutgoing, Acknowledged, MessageSent, MessageFailed
  <2>8. CASE ClaimTarget(p, a)
    BY <2>0, <2>8, <1>d, DeviceFields DEF ClaimTarget
  <2> QED BY <1>4, <2>4, <2>5, <2>6, <2>7, <2>8 DEF DeviceStep
<1>5. ASSUME NEW p \in Proc, NEW a \in Account, CancelUnread(p, a) PROVE NothingCancelled'
  BY <1>d, <1>5, DeviceFields DEF CancelUnread, Onward
<1>6. ASSUME NEW p \in Proc, NEW a \in Account, DeviceError(p, a) PROVE NothingCancelled'
  <2>1. dev[p][a] \in Device /\ UNCHANGED <<run, ui>>
    BY <1>6 DEF TypeOK, DeviceError
  <2>2. DeviceAfterError[dev[p][a].pc] # "abandon"
    BY <1>6 DEF DeviceError, DeviceAfterError
  <2>3. \E d : SetDevice(p, a, d) /\ d.pc # "abandon"
    BY <1>6, <2>1, <2>2, DeviceFields DEF DeviceError
  <2> QED BY <1>d, <2>1, <2>3
<1>7. ASSUME NEW p \in Proc, ClaimDueCampaigns(p) \/ WorkerError(p) \/ Restart(p) PROVE NothingCancelled'
  <2>1. CASE ClaimDueCampaigns(p)
    BY <1>2, <1>r, <2>1 DEF ClaimDueCampaigns, book
  <2>2. CASE Restart(p)
    BY <1>r, <2>2 DEF Restart, book
  <2>3. CASE WorkerError(p)
    <3>1. WorkerAfterError[run[p]] # "cancelling" /\ UNCHANGED <<dev, ui>>
      BY <2>3 DEF WorkerError, WorkerAfterError
    <3> QED BY <1>r, <2>3, <3>1 DEF WorkerError
  <2> QED BY <1>7, <2>1, <2>2, <2>3
<1>8. ASSUME NEW p \in Proc, RenewCampaignLease(p) \/ CloseOrphanedTargets(p) PROVE NothingCancelled'
  BY <1>2, <1>8 DEF RenewCampaignLease, CloseOrphanedTargets, book
<1>9. ASSUME NEW p \in Proc, Crash(p) PROVE NothingCancelled'
  <2>1. \A q \in Proc : run'[q] # "cancelling"
    BY <1>9 DEF Crash, TypeOK
  <2>2. \A q \in Proc, a \in Account : dev'[q][a] = dev[q][a] \/ dev'[q][a] = Idle
    BY <1>9 DEF Crash, TypeOK
  <2>3. UNCHANGED ui
    BY <1>9 DEF Crash
  <2> QED BY <1>1, <2>1, <2>2, <2>3, DeviceFields
<1>10. ASSUME OperatorStep PROVE NothingCancelled'
  BY <1>n, <1>2, <1>10 DEF OperatorStep, CancelCampaign, RetryFailed, RunNow, ScheduleCampaign,
     ResendChecked, ResetTargets, ResetCampaign, ArchiveChecked, ArchiveStops, ArchiveCampaign,
     UnarchiveCampaign
<1>11. ASSUME WorldStep PROVE NothingCancelled'
  BY <1>2, <1>11 DEF WorldStep, Accept, Drop, AdvanceCampaignTargets, AdvanceMessageStatus,
     GoOffline, GoOnline, ExpireTargetLease, ExpireCampaignLease, GracePeriodEnds, book
<1> QED BY <1>3, <1>4, <1>5, <1>6, <1>7, <1>8, <1>9, <1>10, <1>11 DEF Next, ProcessStep

LEMMA ClosedStep ==
  ASSUME NoRequeue, NoCancel, AutoRetry PROVE ClosedInv /\ [Next]_vars => ClosedInv'
<1> SUFFICES ASSUME ClosedInv, [Next]_vars PROVE ClosedInv'
  OBVIOUS
<1>0. OnceInv /\ OnceInv' /\ TypeOK /\ HandsOK /\ NoResend /\ NothingCancelled
  BY OnceStep DEF ClosedInv, OnceInv
<1>1. CASE UNCHANGED vars
  BY <1>0, <1>1 DEF vars, ClosedInv, NothingCancelled, HeldIsOpen, FinalUnsent, ClosedWasNotReached,
     KnownClosed, Holds, InFlight, Now, Try
<1>2. CASE Next
  <2>1. NothingCancelled'
    BY <1>0, <1>2, NothingCancelledStep
  <2>c. ASSUME NEW t \in Target, KnownClosed(tgt'[t])
        PROVE  KnownClosed(tgt[t]) \/ \E p \in Proc, a \in Account : ClosesKnown(p, a, t)
    BY <1>0, <1>2, <2>c, RowCloses
  <2>m. ASSUME NEW t \in Target, NEW k \in Tries, InFlight(t, k)'
        PROVE  InFlight(t, k) \/ \E p \in Proc, a \in Account : Sends(p, a, t, k)
    BY <1>0, <1>2, <2>m, MessageLeaves
  <2>e. Errands
    BY <1>0, <1>2, ErrandsNext
  <2>2. HeldIsOpen'
    <3> SUFFICES ASSUME NEW q \in Proc, NEW b \in Account, Holds(q, b)',
                        KnownClosed(tgt'[Now(q, b)'])
                 PROVE  FALSE
      BY DEF HeldIsOpen
    <3>1. CASE TakesUp(q, b)
      BY <3>1 DEF TakesUp, KnownClosed
    <3>2. CASE Holds(q, b) /\ Now(q, b)' = Now(q, b)
      <4>1. Now(q, b) \in Target /\ ~KnownClosed(tgt[Now(q, b)])
        BY <1>0, <3>2 DEF HandsOK, ClosedInv, HeldIsOpen
      <4>2. PICK p \in Proc, a \in Account : ClosesKnown(p, a, Now(q, b))
        BY <2>c, <3>2, <4>1
      <4>3. p = q /\ a = b
        BY <1>0, <3>2, <4>2 DEF OnceInv, OneHolder, ClosesKnown, Holds, Busy
      <4> QED BY <4>2, <4>3 DEF ClosesKnown, Holds, Busy
    <3> QED BY <2>e, <3>1, <3>2 DEF Errands, Errand, GoesOn, Holds, Now
  <2>3. FinalUnsent'
    <3> SUFFICES ASSUME NEW q \in Proc, NEW b \in Account,
                        dev'[q][b].pc \in {"refused", "failed"}, dev'[q][b].why # "timeout",
                        net'[dev'[q][b].target][dev'[q][b].try] \in {"wire", "accepted"}
                 PROVE  FALSE
      BY DEF FinalUnsent, InFlight, Now, Try
    <3>1. Holds(q, b)'
      BY DEF Holds, Busy
    <3>2. Holds(q, b) /\ Now(q, b)' = Now(q, b) /\ Try(q, b)' = Try(q, b)
          /\ (dev'[q][b] = dev[q][b] \/ Blames(q, b))
      BY <2>e, <3>1 DEF Errands, Errand, GoesOn, TakesUp, Holds, Now, Try
    <3>3. /\ Now(q, b) \in Target /\ Try(q, b) \in Tries
          /\ net'[Now(q, b)][Try(q, b)] \in {"wire", "accepted"}
      BY <1>0, <3>2 DEF HandsOK, Now, Try
    <3>4. InFlight(Now(q, b), Try(q, b))
      <4> SUFFICES ASSUME NEW p \in Proc, NEW a \in Account, Sends(p, a, Now(q, b), Try(q, b))
                   PROVE  FALSE
        BY <2>m, <3>3 DEF InFlight
      <4>1. p = q /\ a = b
        BY <1>0, <3>2 DEF OnceInv, OneHolder, Sends, Holds, Busy
      <4> QED BY <4>1 DEF Sends
    <3>5. CASE dev'[q][b] = dev[q][b]
      BY <3>4, <3>5 DEF ClosedInv, FinalUnsent
    <3>6. CASE Blames(q, b)
      <4>1. CASE net'[Now(q, b)][Try(q, b)] = "dropped"
        BY <3>3, <4>1 DEF InFlight
      <4>2. CASE dev[q][b].pc \in {"pace", "send"}
        BY <1>0, <3>4, <4>2 DEF OnceInv, UnsentYet, Fresh, InFlight
      <4>3. CASE dev[q][b].pc = "refused" /\ dev'[q][b].why = dev[q][b].why
        BY <3>4, <4>3 DEF ClosedInv, FinalUnsent
      <4> QED BY <3>6, <4>1, <4>2, <4>3 DEF Blames
    <3> QED BY <3>2, <3>5, <3>6
  <2>4. ClosedWasNotReached'
    <3> SUFFICES ASSUME NEW t \in Target, NEW k \in Tries, KnownClosed(tgt'[t]), InFlight(t, k)'
                 PROVE  FALSE
      BY DEF ClosedWasNotReached, KnownClosed, InFlight
    <3>1. CASE KnownClosed(tgt[t])
      <4>1. ~InFlight(t, k)
        BY <3>1 DEF ClosedInv, ClosedWasNotReached, KnownClosed, InFlight
      <4>2. PICK p \in Proc, a \in Account : Sends(p, a, t, k)
        BY <2>m, <4>1
      <4> QED BY <3>1, <4>2 DEF ClosedInv, HeldIsOpen, Sends, Holds, Busy
    <3>2. ASSUME NEW p \in Proc, NEW a \in Account, ClosesKnown(p, a, t) PROVE FALSE
      <4>1. Holds(p, a) /\ Try(p, a) \in Tries /\ ~InFlight(t, Try(p, a)) /\ InFlight(t, k)
        BY <1>0, <3>2 DEF ClosesKnown, ClosedInv, FinalUnsent, HandsOK, Holds, Busy, InFlight
      <4>2. tgt[t].attempt = Try(p, a) /\ tgt[t].attempt = k
        BY <1>0, <3>2, <4>1 DEF ClosesKnown, OnceInv, HeldOut, LastAttempt
      <4> QED BY <4>1, <4>2
    <3> QED BY <2>c, <3>1, <3>2
  <2> QED BY <1>0, <2>1, <2>2, <2>3, <2>4 DEF ClosedInv
<1> QED BY <1>1, <1>2

LEMMA ClosedInit == Init => ClosedInv
<1> SUFFICES ASSUME Init PROVE ClosedInv
  OBVIOUS
<1>1. \A p \in Proc, a \in Account : dev[p][a].pc = "off"
  BY DeviceFields DEF Init
<1>2. NothingCancelled
  BY <1>1 DEF Init, NothingCancelled
<1>3. ClosedWasNotReached
  BY DEF Init, ClosedWasNotReached
<1> QED BY <1>1, <1>2, <1>3, OnceInit DEF ClosedInv, HeldIsOpen, FinalUnsent, Holds, Busy

\* Nobody but the goroutine that knows its send failed closes a recipient, and no
\* message of a closed one is under way.
THEOREM ClosedInvariant ==
  ASSUME NoRequeue, NoCancel, AutoRetry PROVE Spec => []ClosedInv
<1>1. ClosedInv /\ [Next]_vars => ClosedInv'
  BY ClosedStep
<1> QED BY <1>1, ClosedInit, PTL DEF Spec

\* A recipient reported as failed for a stated reason was not reached and will
\* not be: only the goroutine that has its message in its hands, and has seen it
\* refused, writes that report. A cancel, and an offline number that is not
\* waited for, close a recipient somebody may still be sending to.
THEOREM ClosedKnownUnreached ==
  ASSUME NoRequeue, NoCancel, AutoRetry PROVE Spec => []ClosedWasNotReached
<1>1. ClosedInv => ClosedWasNotReached
  BY DEF ClosedInv
<1> QED BY <1>1, ClosedInvariant, PTL

-----------------------------------------------------------------------------
(* The refinement *)

Report == [t \in Target |-> Told(tgt[t])]

DeliveryInv == HandsInv /\ ClosedInv /\ SentInv

LEMMA ToldType == \A r : Told(r) \in {"open", "reached", "unknown", "closed"}
BY DEF Told

\* What the report says of a recipient changes once, when it settles.
LEMMA ToldOnce ==
  ASSUME HandsInv, NoRequeue, Next, NEW t \in Target
  PROVE  Told(tgt'[t]) = Told(tgt[t]) \/ Told(tgt[t]) = "open"
<1>1. RowMoves(t)
  BY MovesNext
<1>2. CASE Stays(t)
  BY <1>2 DEF Stays, Told
<1>3. CASE SettledNow(t)
  BY <1>3 DEF SettledNow, Told
<1>4. CASE MovesUp(t)
  BY <1>4 DEF MovesUp, Told, Open, Waiting, Reached
<1>5. CASE tgt[t].status \in Open
  BY <1>5 DEF Told
<1> QED BY <1>1, <1>2, <1>3, <1>4, <1>5 DEF RowMoves, TakenUp, PutBack, Claimable, Open

\* WhatsApp alone lets a message through, and only one that is on its way.
LEMMA ReceivedStep ==
  ASSUME OnceInv, Next
  PROVE  \/ \A t \in Target, k \in Tries : net'[t][k] = "accepted" <=> net[t][k] = "accepted"
         \/ \E t \in Target, k \in Tries : Accept(t, k)
<1> DEFINE Same == \A t \in Target, k \in Tries : net'[t][k] = "accepted" <=> net[t][k] = "accepted"
<1>0. TypeOK /\ HandsOK
  BY DEF OnceInv
<1>u. ASSUME net' = net PROVE Same
  BY <1>u
<1>e. ASSUME NEW t \in Target, NEW k \in Tries, net[t][k] # "accepted",
             NEW fate, fate # "accepted", net' = [net EXCEPT ![t][k] = fate]
      PROVE  Same
  BY <1>0, <1>e DEF TypeOK
<1>1. ASSUME NEW p \in Proc, NEW a \in Account, DeviceStep(p, a) PROVE Same
  <2>1. CASE SendCampaignMessage(p, a) /\ net' # net
    <3>1. /\ Now(p, a) \in Target /\ Try(p, a) \in Tries
          /\ net[Now(p, a)][Try(p, a)] = "none"
          /\ net' = [net EXCEPT ![Now(p, a)][Try(p, a)] = "wire"]
      BY <1>0, <2>1, InHand DEF SendCampaignMessage, Holds, Busy, OnceInv, UnsentYet, Fresh
    <3> QED BY <1>e, <3>1
  <2>2. CASE Refused(p, a)
    <3>1. /\ Now(p, a) \in Target /\ Try(p, a) \in Tries
          /\ net[Now(p, a)][Try(p, a)] = "wire"
          /\ net' = [net EXCEPT ![Now(p, a)][Try(p, a)] = "dropped"]
      BY <1>0, <2>2, InHand DEF Refused, Holds, Busy
    <3> QED BY <1>e, <3>1
  <2> QED BY <1>1, <1>u, <2>1, <2>2 DEF DeviceStep, CheckDevice, AbandonDeviceShare, NoTarget,
        RenderFails, BeginAttempt, RecordOutgoing, Acknowledged, SendTimedOut, MessageSent,
        MessageFailed, FinishAttemptSent, FinishAttemptFailed, world
<1>2. ASSUME NEW p \in Proc, WorkerStep(p) PROVE Same
  BY <1>u, <1>2 DEF WorkerStep, ReconcileStuckTargets, CheckCancel, FetchMedia, DevicesDone,
     ClearCampaignStalled, MarkCampaignStalled, FailCampaign, ReleaseCampaign,
     PendingTargetCount, FinishCampaign, CancelRemainingWork, LaunchDevice, world
<1>3. ASSUME NEW p \in Proc, NEW a \in Account,
             ClaimTarget(p, a) \/ CancelUnread(p, a) \/ DeviceError(p, a)
      PROVE  Same
  BY <1>u, <1>3 DEF ClaimTarget, CancelUnread, DeviceError, world
<1>4. ASSUME NEW p \in Proc,
             ClaimDueCampaigns(p) \/ RenewCampaignLease(p) \/ CloseOrphanedTargets(p)
             \/ WorkerError(p) \/ Restart(p) \/ Crash(p)
      PROVE  Same
  BY <1>u, <1>4 DEF ClaimDueCampaigns, RenewCampaignLease, CloseOrphanedTargets, WorkerError,
     Restart, Crash, world
<1>5. ASSUME OperatorStep PROVE Same
  BY <1>u, <1>5 DEF OperatorStep, CancelCampaign, RetryFailed, RunNow, ScheduleCampaign,
     ResendChecked, ResetTargets, ResetCampaign, ArchiveChecked, ArchiveStops, ArchiveCampaign,
     UnarchiveCampaign, world
<1>6. ASSUME WorldStep PROVE Same \/ \E t \in Target, k \in Tries : Accept(t, k)
  <2>1. ASSUME NEW t \in Target, NEW k \in Tries, Drop(t, k) PROVE Same
    BY <1>e, <2>1 DEF Drop
  <2> QED BY <1>6, <1>u, <2>1 DEF WorldStep, AdvanceCampaignTargets, AdvanceMessageStatus,
        GoOffline, GoOnline, ExpireTargetLease, ExpireCampaignLease, GracePeriodEnds, world
<1> HIDE DEF Same
<1>7. Same \/ \E t \in Target, k \in Tries : Accept(t, k)
  BY <1>1, <1>2, <1>3, <1>4, <1>5, <1>6 DEF Next, ProcessStep
<1> QED BY <1>7 DEF Same

\* A step whose messages stay where they are settles recipients, truthfully.
LEMMA SettleMaps ==
  ASSUME DeliveryInv, DeliveryInv', NoRequeue, Next,
         \A t \in Target, k \in Tries : net'[t][k] = "accepted" <=> net[t][k] = "accepted"
  PROVE  D!Settle
<1>1. Received' = Received
  BY DEF Received
<1>2. Report' \in [Target -> {"open", "reached", "closed", "unknown"}]
  BY ToldType DEF Report
<1>3. ASSUME NEW t \in Target
      PROVE  \/ Report'[t] = Report[t]
             \/ /\ Report[t] = "open"
                /\ \/ Received[t] # {} /\ Report'[t] = "reached"
                   \/ Received[t] = {} /\ Report'[t] = "closed"
                   \/ Report'[t] = "unknown"
  <2>1. /\ Report[t] = Told(tgt[t]) /\ Report'[t] = Told(tgt'[t])
        /\ Received[t] = {k \in Tries : net[t][k] = "accepted"}
    BY DEF Report, Received
  <2>2. Report'[t] = Report[t] \/ Report[t] = "open"
    BY <2>1, ToldOnce DEF DeliveryInv
  <2>3. CASE Report'[t] = "reached"
    <3>1. tgt'[t].status \in Reached
      BY <2>1, <2>3 DEF Told
    <3>2. tgt'[t].wamid \in Tries /\ net'[t][tgt'[t].wamid] = "accepted"
      BY <3>1 DEF DeliveryInv, SentInv, SentWasAccepted
    <3>3. Received[t] # {}
      BY <2>1, <3>2
    <3> QED BY <2>2, <2>3, <3>3
  <2>4. CASE Report'[t] = "closed"
    <3>1. tgt'[t].status \in TargetStatus
      BY DEF DeliveryInv, SentInv, TypeOK, Recipient
    <3>2. KnownClosed(tgt'[t]) \/ (tgt'[t].status = "failed" /\ tgt'[t].code # "unknown")
      BY <2>1, <2>4, <3>1 DEF Told, TargetStatus, Lost, KnownClosed
    <3>3. \A k \in Tries : net'[t][k] # "accepted"
      BY <3>2 DEF DeliveryInv, ClosedInv, ClosedWasNotReached, KnownClosed
    <3>4. Received[t] = {}
      BY <2>1, <3>3
    <3> QED BY <2>2, <2>4, <3>4
  <2>5. CASE Report'[t] \in {"open", "unknown"}
    <3>1. Report'[t] = "open" => Report'[t] = Report[t]
      BY <2>2
    <3> QED BY <2>2, <2>5, <3>1
  <2> QED BY <2>1, <2>3, <2>4, <2>5, ToldType
<1> QED BY <1>1, <1>2, <1>3 DEF D!Settle, D!Confirmed, D!Closed, D!GivenUp, Report

\* A message let through is its recipient's first, and not one the report had
\* closed or reached.
LEMMA DeliverMaps ==
  ASSUME DeliveryInv, NEW t \in Target, NEW k \in Tries, Accept(t, k)
  PROVE  D!Deliver(t)
<1>0. TypeOK /\ OnceInv
  BY DEF DeliveryInv, ClosedInv, OnceInv
<1>1. /\ net[t][k] = "wire" /\ net' = [net EXCEPT ![t][k] = "accepted"]
      /\ UNCHANGED tgt
  BY DEF Accept, rows
<1>2. \A j \in Tries : net[t][j] # "accepted"
  BY <1>0, <1>1 DEF OnceInv, LastAttempt, InFlight
<1>3. Received[t] = {}
  BY <1>2 DEF Received
<1>4. Received' = [Received EXCEPT ![t] = {k}]
  <2>1. \A u \in Target, j \in Tries :
          net'[u][j] = "accepted" <=> (net[u][j] = "accepted" \/ (u = t /\ j = k))
    BY <1>0, <1>1 DEF TypeOK
  <2>2. \A u \in Target :
          {j \in Tries : net'[u][j] = "accepted"} =
            IF u = t THEN {k} ELSE {j \in Tries : net[u][j] = "accepted"}
    BY <1>2, <2>1
  <2> QED BY <2>2 DEF Received
<1>5. Report[t] \in {"open", "unknown"}
  <2>1. tgt[t].status \in TargetStatus
    BY <1>0 DEF TypeOK, Recipient
  <2>2. tgt[t].status \notin Reached
    BY <1>2 DEF DeliveryInv, SentInv, SentWasAccepted
  <2>3. ~KnownClosed(tgt[t])
    BY <1>1 DEF DeliveryInv, ClosedInv, ClosedWasNotReached, KnownClosed
  <2> QED BY <2>1, <2>2, <2>3 DEF Report, Told, KnownClosed, TargetStatus, Lost
<1>6. Report' = Report
  BY <1>1 DEF Report
<1> QED BY <1>3, <1>4, <1>5, <1>6 DEF D!Deliver, Report

\* The whole queue, seen by the operator of a campaign nobody interferes with,
\* is Delivery: a copy at most for each recipient, and a report that settles
\* once and is true. Leases that are kept, no operator's retry, resend, cancel or
\* archive, and numbers that are waited for are what "nobody interferes" means.
THEOREM DeliveryImplemented ==
  ASSUME LeasesKept, NoRequeue, NoCancel, AutoRetry PROVE Spec => ImplementsDelivery
<1>1. Init => D!Init
  <2> SUFFICES ASSUME Init PROVE D!Init
    OBVIOUS
  <2>1. Received = [t \in Target |-> {}]
    BY DEF Init, Received
  <2>2. \A t \in Target : Told(tgt[t]) = "open"
    BY DEF Init, NewRecipient, Told, Open, Waiting
  <2> QED BY <2>1, <2>2 DEF D!Init
<1>2. Init => DeliveryInv
  BY HandsInit, ClosedInit, SentInit DEF DeliveryInv
<1>3. DeliveryInv /\ [Next]_vars => DeliveryInv'
  BY HandsStep, ClosedStep, SentStep DEF DeliveryInv
<1>4. DeliveryInv /\ DeliveryInv' /\ [Next]_vars => [D!Next]_<<Received, Report>>
  <2> SUFFICES ASSUME DeliveryInv, DeliveryInv', [Next]_vars
               PROVE  [D!Next]_<<Received, Report>>
    OBVIOUS
  <2>1. CASE UNCHANGED vars
    BY <2>1 DEF vars, Received, Report
  <2>2. CASE Next
    <3>1. ASSUME NEW t \in Target, NEW k \in Tries, Accept(t, k) PROVE D!Next
      BY <3>1, DeliverMaps DEF D!Next
    <3>2. OnceInv
      BY DEF DeliveryInv, ClosedInv
    <3> QED BY <2>2, <3>1, <3>2, ReceivedStep, SettleMaps DEF D!Next
  <2> QED BY <2>1, <2>2
<1> QED BY <1>1, <1>2, <1>3, <1>4, PTL DEF Spec, ImplementsDelivery, D!Spec, Report
=============================================================================
