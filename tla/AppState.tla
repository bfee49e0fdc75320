------------------------------ MODULE AppState ------------------------------
(***************************************************************************)
(* How one number keeps reading, and writing, the app-state collection its *)
(* labels live in, when WhatsApp's own data may not verify.                *)
(*                                                                         *)
(* The library stores a version and reads the patches after it.  When a    *)
(* patch does not verify the session may ask the phone for a plain copy;   *)
(* a forced request first clears the version, shuts a gate that writes     *)
(* wait at, and keeps the version aside in memory in case no copy comes.   *)
(* The reconciler, the Sinkron button, the event goroutine and a label     *)
(* write all do this, at the same time, on the same session.               *)
(*                                                                         *)
(* Durations are flags that a step of their own lowers: a timer may run    *)
(* out at any moment, in any order.  Labels is about what the collection   *)
(* says; this module is about whether it can be read.                      *)
(***************************************************************************)
EXTENDS Integers, Sequences

CONSTANTS
  ForceAfter,  \* appStateForceAfter
  ForceBudget, \* appStateForceBudget
  MaxEvents,   \* bound on the events the library has not dispatched
  Budgets      \* what is broken at first, and bounds on what happens; one for a behaviour

Kinds == {"broken", "changes", "breaks", "rebuilds", "answers", "failures", "presses", "writes",
          "crashes"}

AppStateAssumption ==
  /\ ForceAfter \in Nat \ {0} /\ ForceBudget \in Nat \ {0} /\ MaxEvents \in Nat \ {0}
  /\ Budgets \subseteq [Kinds -> Nat]

VARIABLES
  head,     \* the collection's latest version at WhatsApp: external
  broken,   \* the patch that does not verify, or 0: external
  asked,    \* the phone has a request for a plain copy: external
  events,   \* the library's events not handled yet
  stored,   \* the library's stored version; 0 is none
  rollback, \* Session.appStateRollback, or 0
  gate,     \* Session.recoveryGates has the collection
  timers,   \* the AfterFuncs of markRecovering still to fire
  cooling,  \* appStateRetryAt is less than appStateRetryCooldown ago
  failures, \* appStateFailures
  recent,   \* appStateForcedAt is less than appStateForceBackoff ago
  forced,   \* appStateForceCount
  wedge,    \* Session.wedges
  since,    \* labelRecoverySince: none, young, or past the grace
  account,  \* the label columns of public.whatsapp_accounts
  proc,     \* where each process is
  decoded,  \* (history) the collection has decoded once, however
  left      \* what is left of the bound

server == <<head, broken, asked>>
session == <<rollback, gate, timers, cooling, failures, recent, forced, wedge, since>>
vars == <<server, events, stored, session, account, proc, decoded, left>>

Idle == [at |-> "idle"]
Procs == {"pass", "sync", "event", "write"}
NoWedge == [patch |-> 0, due |-> TRUE]

Spend(b) == left[b] > 0 /\ left' = [left EXCEPT ![b] = @ - 1]
Goes(p, s) == proc' = [proc EXCEPT ![p] = s]

(* Reading from version v passes the patch that does not verify. *)
Unreadable(v) == broken > v
Dispatch(e) == events' = Append(events, e)

----------------------------------------------------------------------------
(* WhatsApp, the phone and the library: external *)

(* A change on the phone: the library reads on, and reports how it went. *)
PhoneChanges ==
  /\ Spend("changes") /\ Len(events) < MaxEvents
  /\ head' = head + 1
  /\ broken' \in {broken} \cup (IF left.breaks > 0 /\ broken = 0 THEN {head + 1} ELSE {})
  /\ IF broken' > stored
     THEN Dispatch([k |-> "error", patch |-> broken', full |-> stored = 0])
          /\ UNCHANGED <<stored, decoded>>
     ELSE Dispatch([k |-> "complete"]) /\ stored' = head + 1 /\ decoded' = TRUE
  /\ UNCHANGED <<asked, session, account, proc>>

(* WhatsApp builds the collection again, and it verifies. *)
Rebuilds ==
  /\ broken # 0 /\ broken' = 0 /\ Spend("rebuilds")
  /\ UNCHANGED <<head, asked, events, stored, session, account, proc, decoded>>

(* The copy lands unless what is stored is as new; or the phone is silent. *)
PhoneAnswers ==
  /\ asked /\ asked' = FALSE
  /\ \/ /\ Spend("answers") /\ stored < head /\ Len(events) < MaxEvents
        /\ stored' = head /\ decoded' = TRUE
        /\ Dispatch([k |-> "complete"])
     \/ UNCHANGED <<stored, events, decoded, left>>
  /\ UNCHANGED <<head, broken, session, account, proc>>

----------------------------------------------------------------------------
(* The wedge *)

(* noteWedge: the state it leaves, and whether to act on it *)
Noted(w, patch) == IF w.patch # patch THEN [patch |-> patch, due |-> FALSE] ELSE [w EXCEPT !.due = FALSE]
Acts(w, patch) == w.patch # patch \/ w.due

SaveLabelWedge(a, patch) == [a EXCEPT !.wedged = patch]
ClearLabelWedge(a) == [a EXCEPT !.wedged = 0]
LoadLabelWedge == IF account.wedged = 0 THEN NoWedge ELSE [patch |-> account.wedged, due |-> FALSE]

(* noteWedgeFrom *)
NoteWedge(patch) ==
  /\ wedge' = Noted(wedge, patch)
  /\ account' = SaveLabelWedge(account, patch)

(* forgetWedge clears the record only when memory has one. *)
ForgetWedge ==
  /\ wedge' = NoWedge
  /\ account' = IF wedge.patch # 0 THEN ClearLabelWedge(account) ELSE account

----------------------------------------------------------------------------
(* requestAppStateRecovery, by any process *)

Asking(force) == [at |-> "claim", force |-> force]

(* Where p goes on when a request was sent, was not needed, or failed: a     *)
(* write waits at the gate again, and the Sinkron button is done.            *)
Asked(p, r) ==
  Goes(p, CASE p = "pass" -> [at |-> "record", outcome |-> CASE r = "yes" -> "recovering"
                                                             [] r = "no" -> "stale"
                                                             [] r = "error" -> "error"]
            [] p = "write" -> IF r = "error" THEN Idle ELSE [at |-> "await", retry |-> TRUE]
            [] OTHER -> Idle)

(* claimRecoverySlot, and for a forced one markRecovering *)
ClaimRecoverySlot(p) ==
  /\ proc[p].at = "claim"
  /\ IF cooling THEN Asked(p, "no") /\ UNCHANGED <<cooling, gate, timers>>
     ELSE /\ cooling' = TRUE
          /\ IF proc[p].force
             THEN /\ gate' = TRUE /\ timers' = IF gate THEN timers ELSE timers + 1
                  /\ Goes(p, [proc[p] EXCEPT !.at = "clear"])
             ELSE Goes(p, [proc[p] EXCEPT !.at = "send"]) /\ UNCHANGED <<gate, timers>>
  /\ UNCHANGED <<server, events, stored, rollback, failures, recent, forced, wedge, since,
                 account, decoded, left>>

(* The version is kept aside and cleared, under appStateMu. *)
ClearVersion(p) ==
  /\ proc[p].at = "clear"
  /\ rollback' = IF stored > 0 THEN stored ELSE rollback
  /\ stored' = 0
  /\ Goes(p, [proc[p] EXCEPT !.at = "send"])
  /\ UNCHANGED <<server, events, gate, timers, cooling, failures, recent, forced, wedge, since,
                 account, decoded, left>>

Restored == IF rollback > 0 THEN rollback ELSE stored

(* Mutant: what waits is not woken. *)
GateAfter_shut == gate

(* markRecovered closes the channel of the gate that is there. *)
GateAfter == FALSE

(* What handleAppStateSyncError does with the answer comes with it. *)
SendRecoveryRequest(p) ==
  /\ proc[p].at = "send"
  /\ \/ /\ asked' = TRUE /\ Asked(p, "yes")
        /\ failures' = IF p = "event" /\ proc[p].force THEN 0 ELSE failures
        /\ UNCHANGED <<stored, rollback, gate, account, left>>
     \/ /\ Spend("failures") /\ Asked(p, "error")
        /\ IF proc[p].force
           THEN stored' = Restored /\ rollback' = 0 /\ gate' = FALSE
           ELSE UNCHANGED <<stored, rollback, gate>>
        /\ account' = IF p = "event" THEN [account EXCEPT !.badge = "failed"] ELSE account
        /\ UNCHANGED <<asked, failures>>
  /\ UNCHANGED <<head, broken, events, timers, cooling, recent, forced, wedge, since, decoded>>

(* The AfterFunc of markRecovering.  It looks whether there is a gate, not  *)
(* whether it is its own: an older one may release a newer gate.            *)
GateTimesOut ==
  /\ timers > 0 /\ timers' = timers - 1
  /\ IF gate
     THEN /\ stored' = Restored /\ rollback' = 0 /\ gate' = GateAfter
     ELSE UNCHANGED <<stored, rollback, gate>>
  /\ UNCHANGED <<server, events, cooling, failures, recent, forced, wedge, since, account, proc,
                 decoded, left>>

Durations == {"cooldown", "force", "wedge", "grace", "stale"}

(* A duration has passed. *)
TimePasses(d) ==
  /\ CASE d = "cooldown" -> cooling
       [] d = "force" -> recent
       [] d = "wedge" -> ~wedge.due
       [] d = "grace" -> since = "young"
       [] d = "stale" -> account.stale = "young"
  /\ cooling' = (cooling /\ d # "cooldown")
  /\ recent' = (recent /\ d # "force")
  /\ wedge' = IF d = "wedge" THEN [wedge EXCEPT !.due = TRUE] ELSE wedge
  /\ since' = IF d = "grace" THEN "past" ELSE since
  /\ account' = IF d = "stale" THEN [account EXCEPT !.stale = "proven"] ELSE account
  /\ UNCHANGED <<server, events, stored, rollback, gate, timers, failures, forced, proc, decoded, left>>

----------------------------------------------------------------------------
(* reconcileLabels, every labelReconcileInterval *)

Badge(b) == account' = [account EXCEPT !.badge = b]
After(o) == [at |-> "record", outcome |-> o]

ReconcileStarts ==
  /\ proc["pass"] = Idle
  /\ Badge("syncing") /\ Goes("pass", [at |-> "read"])
  /\ UNCHANGED <<server, events, stored, session, decoded, left>>

(* An incremental read: it may also fail for a reason of its own. *)
Reads(p, ok, wedged, other) ==
  \/ /\ ~Unreadable(stored) /\ Len(events) < MaxEvents
     /\ stored' = head /\ decoded' = TRUE /\ Dispatch([k |-> "complete"])
     /\ ForgetWedge /\ Goes(p, ok) /\ UNCHANGED left
  \/ /\ Unreadable(stored)
     /\ wedged /\ UNCHANGED <<stored, decoded, events, left>>
  \/ /\ Spend("failures")
     /\ other /\ UNCHANGED <<stored, decoded, events, wedge, account>>

(* syncAppState, not forced: a wedge whose turn has not come is left alone. *)
ReconcileReads ==
  /\ proc["pass"].at = "read"
  /\ LET ask == Goes("pass", Asking(FALSE)) IN
       IF wedge.patch > 0 /\ ~wedge.due
       THEN Goes("pass", After("wedged")) /\ UNCHANGED <<stored, decoded, events, wedge, account, left>>
       ELSE Reads("pass", After("ok"), NoteWedge(broken) /\ ask, ask)
  /\ UNCHANGED <<server, rollback, gate, timers, cooling, failures, recent, forced, since>>

MarkLabelCollectionRead(a) ==
  [a EXCEPT !.everRead = TRUE, !.stale = "none", !.wedged = 0, !.unverified = FALSE]
MarkLabelCollectionStale(a) == [a EXCEPT !.stale = IF @ = "none" THEN "young" ELSE @]
MarkLabelsUnverified(a) == [a EXCEPT !.unverified = TRUE, !.badge = "partial"]

(* healProvenWedge: only a wedge that has outlasted the confirmation window,    *)
(* and not again for healRetryAfter, which no behaviour outlasts (a bound).     *)
Heals(a) == wedge.patch > 0 /\ a.stale = "proven" /\ ~a.unverified

RecordLabelReadability ==
  /\ proc["pass"].at = "record"
  /\ account' = IF proc["pass"].outcome = "ok" THEN MarkLabelCollectionRead(account)
                ELSE MarkLabelCollectionStale(account)
  /\ Goes("pass", IF Heals(account') THEN [at |-> "lenient", outcome |-> proc["pass"].outcome, from |-> stored]
                  ELSE [proc["pass"] EXCEPT !.at = "settle"])
  /\ UNCHANGED <<server, events, stored, session, decoded, left>>

(* The versions a read without verification may get to *)
CrossWedgedPatches(from) == from .. head

(* ReadLabelsUnverified: what it decoded is adopted, as far as it got.  The *)
(* stored version it started from was read before.                          *)
ReadLabelsUnverified ==
  /\ proc["pass"].at = "lenient"
  /\ \/ /\ \E v \in CrossWedgedPatches(proc["pass"].from) :
             stored' = IF v > proc["pass"].from THEN v ELSE stored
        /\ account' = MarkLabelsUnverified(account)
        /\ UNCHANGED left
     \/ Spend("failures") /\ UNCHANGED <<stored, account>>
  /\ Goes("pass", [at |-> "settle", outcome |-> proc["pass"].outcome])
  /\ UNCHANGED <<server, events, session, decoded>>

(* Mutant: whether it was ever read is not asked. *)
LabelIndicator_unread == IF wedge.patch > 0 /\ account.stale = "proven" THEN "failed" ELSE "synced"

(* labelIndicatorState *)
LabelIndicator ==
  IF wedge.patch > 0 /\ account.unverified THEN "partial"
  ELSE IF wedge.patch > 0 /\ account.stale = "proven" THEN "failed"
  ELSE IF ~account.everRead THEN "failed" ELSE "synced"

(* Mutant: the wait is measured and never begun. *)
Waiting_never(s) == s

(* labelRecoverySince: from the first pass that found a request outstanding *)
Waiting(s) == IF s = "none" THEN "young" ELSE s

(* The switch of reconcileLabels *)
ReconcileSettles ==
  /\ proc["pass"].at = "settle"
  /\ LET o == proc["pass"].outcome IN
       \/ o = "ok" /\ since' = "none" /\ Badge("synced")
       \/ o = "stale" /\ since' = "none" /\ Badge(LabelIndicator)
       \/ o = "wedged" /\ Badge(LabelIndicator) /\ UNCHANGED since
       \/ o = "error" /\ Badge("failed") /\ UNCHANGED since
       \/ /\ o = "recovering" /\ since' = Waiting(since)
          /\ IF since # "past" THEN UNCHANGED account
             ELSE Badge(IF forced >= ForceBudget THEN "failed" ELSE LabelIndicator)
  /\ Goes("pass", Idle)
  /\ UNCHANGED <<server, events, stored, rollback, gate, timers, cooling, failures, recent, forced,
                 wedge, decoded, left>>

----------------------------------------------------------------------------
(* SyncAccount: the Sinkron button, a forced pass *)

Presses ==
  /\ proc["sync"] = Idle /\ Spend("presses")
  /\ Goes("sync", [at |-> "read"])
  /\ UNCHANGED <<server, events, stored, session, account, decoded>>

AskForced == Goes("sync", Asking(TRUE))

(* The whole collection is read only when no failing patch is on record. *)
SyncReads ==
  /\ proc["sync"].at = "read"
  /\ LET known == wedge.patch > 0
         full == Goes("sync", [at |-> "full"])
         wedged == IF known THEN NoteWedge(broken) /\ AskForced
                   ELSE full /\ UNCHANGED <<wedge, account>>
     IN  Reads("sync", Idle, wedged, IF known THEN AskForced ELSE full)
  /\ UNCHANGED <<server, rollback, gate, timers, cooling, failures, recent, forced, since>>

(* fullFetchKeepingVersion: kept aside, and cleared by the library *)
FullFetchStarts ==
  /\ proc["sync"].at = "full"
  /\ rollback' = IF stored > 0 THEN stored ELSE rollback
  /\ stored' = 0
  /\ Goes("sync", [at |-> "fetching"])
  /\ UNCHANGED <<server, events, gate, timers, cooling, failures, recent, forced, wedge, since,
                 account, decoded, left>>

FullFetchEnds ==
  /\ proc["sync"].at = "fetching"
  /\ \/ /\ broken = 0 /\ Len(events) < MaxEvents
        /\ stored' = head /\ rollback' = 0 /\ decoded' = TRUE /\ Dispatch([k |-> "complete"])
        /\ ForgetWedge /\ Goes("sync", Idle)
     \/ /\ broken # 0
        /\ stored' = Restored /\ rollback' = 0 /\ NoteWedge(broken) /\ AskForced
        /\ UNCHANGED <<events, decoded>>
  /\ UNCHANGED <<server, gate, timers, cooling, failures, recent, forced, since, left>>

----------------------------------------------------------------------------
(* The event goroutine *)

(* markRecovered and appStateRecovered; the wedge stays on record.  The event *)
(* may be handled long after the read it reports.                            *)
HandleAppStateSyncComplete ==
  /\ proc["event"] = Idle /\ events # <<>> /\ Head(events).k = "complete"
  /\ events' = Tail(events)
  /\ rollback' = 0 /\ gate' = GateAfter
  /\ failures' = 0 /\ recent' = FALSE /\ forced' = 0 /\ since' = "none"
  /\ Badge("synced")
  /\ UNCHANGED <<server, stored, timers, cooling, wedge, proc, decoded, left>>

Capped(n) == IF n > ForceAfter THEN ForceAfter ELSE n

MayForceAppState == ~recent /\ forced < ForceBudget

(* handleAppStateSyncError: a wedge seen before is left alone until due; a   *)
(* run of failures that the stored version may have caused forces a re-read, *)
(* at most ForceBudget times and not often.                                   *)
HandleAppStateSyncError ==
  /\ proc["event"] = Idle /\ events # <<>> /\ Head(events).k = "error"
  /\ events' = Tail(events)
  /\ LET e == Head(events)
         act == Acts(wedge, e.patch)
         n == Capped(failures + 1)
         force == n >= ForceAfter /\ ~e.full /\ MayForceAppState
     IN  IF ~act
         THEN /\ account' = SaveLabelWedge(account, e.patch)
              /\ UNCHANGED <<failures, recent, forced, proc, wedge>>
         ELSE /\ wedge' = Noted(wedge, e.patch)
              /\ account' = [SaveLabelWedge(account, e.patch) EXCEPT !.badge = "syncing"]
              /\ failures' = n
              /\ recent' = (recent \/ force) /\ forced' = forced + (IF force THEN 1 ELSE 0)
              /\ Goes("event", Asking(force))
  /\ UNCHANGED <<server, stored, rollback, gate, timers, cooling, since, decoded, left>>

----------------------------------------------------------------------------
(* A label write: PushChatLabel, PushLabelDefinition *)

WriteStarts ==
  /\ proc["write"] = Idle /\ Spend("writes")
  /\ Goes("write", [at |-> "await", retry |-> FALSE])
  /\ UNCHANGED <<server, events, stored, session, account, decoded>>

(* awaitWritable: until the gate opens, or labelWriteWait *)
AwaitWritable ==
  /\ proc["write"].at = "await"
  /\ \/ ~gate /\ Goes("write", [proc["write"] EXCEPT !.at = "write"])
     \/ gate /\ Goes("write", Idle)
  /\ UNCHANGED <<server, events, stored, session, account, decoded, left>>

(* sendAppState, under appStateMu.  A patch on the latest version lands, and *)
(* the library reads it back; on an older one WhatsApp answers with the      *)
(* patches between, and when they verify it is written on those.             *)
SendAppState ==
  /\ proc["write"].at = "write"
  /\ \/ /\ stored > 0 /\ ~Unreadable(stored) /\ Len(events) < MaxEvents
        /\ head' = head + 1 /\ stored' = head + 1 /\ Dispatch([k |-> "complete"]) /\ decoded' = TRUE
        /\ Goes("write", Idle)
        /\ UNCHANGED <<broken, left>>
     \/ /\ stored > 0 /\ stored = head /\ broken = 0 /\ Spend("breaks")
        \* writeLanded: accepted, and what was read back does not verify
        /\ head' = head + 1 /\ broken' = head + 1 /\ UNCHANGED <<stored, events, decoded>>
        /\ Goes("write", Idle)
     \/ /\ stored = 0 \/ Unreadable(stored)
        \* wedgedCollection, repairAndRetryLabelWrite: repaired once, unless the failing patch is on record
        /\ Goes("write", IF Unreadable(stored) /\ wedge.patch = 0 /\ ~proc["write"].retry
                         THEN Asking(TRUE) ELSE Idle)
        /\ UNCHANGED <<head, broken, stored, events, decoded, left>>
  /\ UNCHANGED <<asked, session, account>>

----------------------------------------------------------------------------
(* The process stops; startLabelReconciler loads the wedge on record. *)
Restart ==
  /\ Spend("crashes")
  /\ rollback' = 0 /\ gate' = FALSE /\ timers' = 0 /\ cooling' = FALSE /\ failures' = 0
  /\ recent' = FALSE /\ forced' = 0 /\ since' = "none" /\ events' = <<>>
  /\ wedge' = LoadLabelWedge
  /\ proc' = [p \in Procs |-> Idle]
  /\ UNCHANGED <<server, stored, account, decoded>>

Init ==
  /\ left \in Budgets
  /\ head = 1 /\ broken = left.broken /\ asked = FALSE /\ events = <<>> /\ stored = 0
  /\ rollback = 0 /\ gate = FALSE /\ timers = 0 /\ cooling = FALSE /\ failures = 0
  /\ recent = FALSE /\ forced = 0 /\ wedge = NoWedge /\ since = "none"
  /\ account = [badge |-> "idle", everRead |-> FALSE, stale |-> "none", wedged |-> 0,
                unverified |-> FALSE]
  /\ proc = [p \in Procs |-> Idle]
  /\ decoded = FALSE

Recovery(p) == ClaimRecoverySlot(p) \/ ClearVersion(p) \/ SendRecoveryRequest(p)

Pass ==
  \/ ReconcileStarts \/ ReconcileReads \/ RecordLabelReadability \/ ReadLabelsUnverified
  \/ ReconcileSettles \/ Recovery("pass")

Events ==
  \/ HandleAppStateSyncComplete \/ HandleAppStateSyncError 
  \/ Recovery("event")

Next ==
  \/ PhoneChanges \/ Rebuilds \/ PhoneAnswers \/ GateTimesOut \/ (\E d \in Durations : TimePasses(d))
  \/ Pass \/ Events
  \/ Presses \/ SyncReads \/ FullFetchStarts \/ FullFetchEnds \/ Recovery("sync")
  \/ WriteStarts \/ AwaitWritable \/ SendAppState \/ Recovery("write")
  \/ Restart

(* The ticker, the event goroutine and each timer run; nothing is assumed   *)
(* of WhatsApp, of the phone or of the operator.                           *)
Fairness == WF_vars(Pass) /\ WF_vars(Events) /\ WF_vars(GateTimesOut)
            /\ \A d \in Durations : WF_vars(TimePasses(d))

Spec == Init /\ [][Next]_vars
FairSpec == Spec /\ Fairness

----------------------------------------------------------------------------
(***************************************************************************)
(* The badge never says synced of a number whose labels have not decoded   *)
(* once: the lie labels_read_at was added to expose.                       *)
(***************************************************************************)
SyncedWasRead == account.badge = "synced" => decoded

(* A phone that never answers cannot shut label writes out: the gate opens. *)
GateOpens == gate ~> ~gate

Syncing == account.badge = "syncing"

(* The badge does not read Menyinkronkan for ever. *)
BadgeSettles == Syncing ~> ~Syncing

(***************************************************************************)
(* The stake comes back: a version that was cleared for a re-read is       *)
(* stored again, or a newer one, once nobody is re-reading any more.       *)
(***************************************************************************)
StakeComesBack ==
  decoded /\ stored = 0 =>
    gate \/ rollback # 0 \/ \E p \in Procs : proc[p].at \in {"clear", "send", "fetching"}
=============================================================================
