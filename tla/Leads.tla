------------------------------- MODULE Leads --------------------------------
(***************************************************************************)
(* Which contacts count as new leads: the verdict drawn from what is       *)
(* stored about a contact, after each message and by a sweep.              *)
(*                                                                         *)
(* contacts  the address book, in the order its rows were written          *)
(* early     contacts whose row is older than the tracking of the number   *)
(* messages  what was exchanged: when, by whom, live or imported, shown    *)
(* label     a label carried since before tracking, since, or none         *)
(* verdict   lead_classifications; date is qualified_date                  *)
(* order     contacts with a verdict, by classified_at                     *)
(* job       the refresh each caller is in; queue is the rest of a sweep   *)
(*                                                                         *)
(* Tracking started at Start.  Contacts are not merged or deleted here.    *)
(***************************************************************************)
EXTENDS Integers, SequencesExt, FiniteSetsExt

CONSTANTS Contact, Time, Start, Limit, None, MaxChanges

LeadsAssumption == Time \subseteq Nat /\ Start \in Nat /\ Limit \in Nat \ {0}

VARIABLES contacts, early, messages, label, verdict, order, job, queue, changes

vars == <<contacts, early, messages, label, verdict, order, job, queue, changes>>
stored == <<contacts, early, messages, label>>

Caller == {"session", "sweep"}
Idle == [at |-> "idle"]
NoVerdict == [status |-> None, date |-> None]

-----------------------------------------------------------------------------
(* What is known about c, and what follows from it. *)

FirstInbound(c) ==
    LET in == {m \in messages[c] : ~m.fromMe /\ m.shown} IN
    IF in = {} THEN None ELSE CHOOSE m \in in : \A n \in in : m.at <= n.at

Evidence(c) ==
    [first |-> FirstInbound(c),
     historyBefore |-> \E m \in messages[c] : m.at < Start,
     hadLabelBefore |-> label[c] = "before",
     early |-> c \in early]

ClassifyLead(e) ==
    CASE e.first # None /\ e.first.imported -> "historical"
      [] ~(e.first # None /\ e.first.imported) /\
         (e.historyBefore \/ e.hadLabelBefore \/ e.early) -> "historical"
      [] e.first = None /\ ~(e.historyBefore \/ e.hadLabelBefore \/ e.early) -> "unknown"
      [] OTHER -> "verified_new"

Classified(c) ==
    LET e == Evidence(c) status == ClassifyLead(e) IN
    [status |-> status, date |-> IF status = "verified_new" THEN e.first.at ELSE None]

-----------------------------------------------------------------------------
Init ==
    /\ contacts = <<>> /\ early = {}
    /\ messages = [c \in Contact |-> {}]
    /\ label = [c \in Contact |-> "none"]
    /\ verdict = [c \in Contact |-> NoVerdict]
    /\ order = <<>>
    /\ job = [k \in Caller |-> Idle]
    /\ queue = <<>>
    /\ changes = 0

Changed == changes < MaxChanges /\ changes' = changes + 1
Known(c) == c \in Range(contacts)
Upserted(c) == IF Known(c) THEN contacts ELSE Append(contacts, c)
NoMessageAt(c, at) == \A m \in messages[c] : m.at # at
Keep(c, at, fromMe, imported) ==
    messages' = [messages EXCEPT ![c] = @ \cup
                    {[at |-> at, fromMe |-> fromMe, imported |-> imported, shown |-> TRUE]}]

\* The directory of the phone: contacts that never wrote.  A row from before
\* the number was tracked is one the migration found.
UpsertContact(c, old) ==
    /\ ~Known(c) /\ Changed
    /\ contacts' = Append(contacts, c)
    /\ early' = IF old THEN early \cup {c} ELSE early
    /\ UNCHANGED <<messages, label, verdict, order, job, queue>>

\* A live message; the contact of an incoming one is classified next.
HandleMessage(c, at, fromMe) ==
    /\ job["session"] = Idle /\ Changed
    /\ at >= Start /\ NoMessageAt(c, at)
    /\ fromMe => Known(c)
    /\ contacts' = Upserted(c)
    /\ Keep(c, at, fromMe, FALSE)
    /\ job' = IF fromMe THEN job ELSE [job EXCEPT !["session"] = [at |-> "due", contact |-> c]]
    /\ UNCHANGED <<early, label, verdict, order, queue>>

\* A history sync refreshes the chat's metrics, and no lead.  Without a batch
\* its messages look live.
HandleHistorySync(c, at, fromMe, batch) ==
    /\ Changed
    /\ NoMessageAt(c, at)
    /\ contacts' = Upserted(c)
    /\ Keep(c, at, fromMe, batch)
    /\ UNCHANGED <<early, label, verdict, order, job, queue>>

HideMessage(c, m) ==
    /\ Changed
    /\ m.shown
    /\ messages' = [messages EXCEPT ![c] = (@ \ {m}) \cup {[m EXCEPT !.shown = FALSE]}]
    /\ UNCHANGED <<contacts, early, label, verdict, order, job, queue>>

SetLabel(c, to) ==
    /\ Known(c) /\ Changed
    /\ label[c] # to
    /\ label' = [label EXCEPT ![c] = to]
    /\ UNCHANGED <<contacts, early, messages, verdict, order, job, queue>>

-----------------------------------------------------------------------------
\* RefreshLead reads the evidence in one statement ...
ReadEvidence(k) ==
    /\ job[k].at = "due"
    /\ job' = [job EXCEPT ![k] = [at |-> "read", contact |-> job[k].contact,
                                  found |-> Classified(job[k].contact)]]
    /\ UNCHANGED <<stored, verdict, order, queue, changes>>

\* ... and writes it with the verdict in a transaction.
WriteVerdict(k) ==
    LET c == job[k].contact IN
    /\ job[k].at = "read"
    /\ verdict' = [verdict EXCEPT ![c] = job[k].found]
    /\ order' = IF c \in Range(order) THEN order ELSE Append(order, c)
    /\ job' = [job EXCEPT ![k] = Idle]
    /\ UNCHANGED <<stored, queue, changes>>

\* A refresh that fails is logged; the sweep goes on with the next contact.
RefreshFails(k) ==
    /\ job[k] # Idle /\ Changed
    /\ job' = [job EXCEPT ![k] = Idle]
    /\ UNCHANGED <<stored, verdict, order, queue>>

Prefix(s, n) == SubSeq(s, 1, IF Len(s) < n THEN Len(s) ELSE n)

UnclassifiedContacts_new ==
    Prefix(Reverse(SelectSeq(contacts, LAMBDA c : c \notin Range(order))), Limit)
\* Those without a verdict, the newest first, then the Limit oldest verdicts,
\* the newest of them first; of all that, the first Limit.
UnclassifiedContacts ==
    Prefix(Reverse(SelectSeq(contacts, LAMBDA c : c \notin Range(order)))
               \o Reverse(Prefix(order, Limit)),
           Limit)

ReconcileMetrics ==
    /\ job["sweep"] = Idle /\ queue = <<>>
    /\ UnclassifiedContacts # <<>>
    /\ queue' = UnclassifiedContacts
    /\ UNCHANGED <<stored, verdict, order, job, changes>>

SweepNext ==
    /\ job["sweep"] = Idle /\ queue # <<>>
    /\ job' = [job EXCEPT !["sweep"] = [at |-> "due", contact |-> Head(queue)]]
    /\ queue' = Tail(queue)
    /\ UNCHANGED <<stored, verdict, order, changes>>

\* A restart forgets what was running.
Restart ==
    /\ (\E k \in Caller : job[k] # Idle) \/ queue # <<>>
    /\ Changed
    /\ job' = [k \in Caller |-> Idle]
    /\ queue' = <<>>
    /\ UNCHANGED <<stored, verdict, order>>

Step(k) == ReadEvidence(k) \/ WriteVerdict(k)
Next ==
    \/ \E c \in Contact :
          \/ \E old \in BOOLEAN : UpsertContact(c, old)
          \/ \E at \in Time, fromMe \in BOOLEAN :
                \/ HandleMessage(c, at, fromMe)
                \/ \E batch \in BOOLEAN : HandleHistorySync(c, at, fromMe, batch)
          \/ \E m \in messages[c] : HideMessage(c, m)
          \/ \E to \in {"none", "before", "after"} : SetLabel(c, to)
    \/ \E k \in Caller : Step(k) \/ RefreshFails(k)
    \/ ReconcileMetrics \/ SweepNext \/ Restart

Spec == Init /\ [][Next]_vars

\* The sweep's timer keeps firing and a caller that runs goes on.
Fairness ==
    /\ WF_vars(ReconcileMetrics) /\ WF_vars(SweepNext)
    /\ \A k \in Caller : WF_vars(Step(k))
FairSpec == Spec /\ Fairness

-----------------------------------------------------------------------------
Settled == \A c \in Contact : Known(c) => verdict[c] = Classified(c)

(* "Re-drawing [a verdict] costs nothing": whatever is stored about a      *)
(* contact, late, imported, hidden or labelled, its verdict ends up being  *)
(* the one its evidence gives, for contacts already decided as well        *)
(* (UnclassifiedContacts).                                                 *)
VerdictsFollowEvidence == <>[]Settled
=============================================================================
