------------------------------ MODULE Metrics -------------------------------
(***************************************************************************)
(* The reporting rows of one conversation: SLA cycles and follow-ups of a  *)
(* personal chat, mentions of a group, recomputed from the stored timeline *)
(* after every change and by a sweep.                                      *)
(*                                                                         *)
(* kind      what the conversation is                                      *)
(* timeline  its messages, in the order they were stored; a message may    *)
(*           carry an earlier time than one stored before it               *)
(* cycles, followUps, mentions   the derived tables                        *)
(* fresh     messages stored after the rows were last written              *)
(* job       each caller's recompute: the timeline it read                 *)
(* exact     the last write was made from the timeline as it is now        *)
(*                                                                         *)
(* Times are whole units; a day has Day of them.  Messages are told apart  *)
(* by their place in the timeline, which also breaks ties.  The reload's   *)
(* limit of 5000 rows is out of reach of the bounds.                       *)
(***************************************************************************)
EXTENDS Integers, SequencesExt, FiniteSetsExt

CONSTANTS Caller, Kinds, Senders, Settings, Time, Day, Target, Gap, None, MaxMessages, MaxChanges

VARIABLES kind, settings, timeline, cycles, followUps, mentions, fresh, job, exact, changes

vars == <<kind, settings, timeline, cycles, followUps, mentions, fresh, job, exact, changes>>
tables == <<cycles, followUps, mentions>>

-----------------------------------------------------------------------------
(* What a message counts as. *)

Inbound == {"inbound", "mention"}
Manual == {"web_admin", "whatsapp_device"}

MetricsAssumption ==
    /\ "sweep" \in Caller /\ None \notin Nat
    /\ Senders \subseteq Inbound \cup Manual \cup {"broadcast"}
    /\ Time \subseteq Nat /\ Day \in Nat \ {0} /\ Gap \in Nat /\ Target \in Nat

Countable(m) == ~m.gone
NeedsReply(m) == m.from \in Inbound /\ Countable(m)
IsManualReply(m) == m.from \in Manual /\ Countable(m)

Earlier(m, n) == m.at < n.at \/ (m.at = n.at /\ m.id < n.id)
SortTimeline(log) == SetToSortSeq(Range(log), Earlier)

-----------------------------------------------------------------------------
(* Working hours: windows [from, to) that may overlap. *)

Opens(v, w) == v.from < w.from
Merged(out, w) ==
    IF out # <<>> /\ w.from <= Last(out).to
    THEN [out EXCEPT ![Len(out)].to = IF w.to > @ THEN w.to ELSE @]
    ELSE Append(out, w)
MergeWindows_not(windows) == SetToSortSeq(windows, Opens)
MergeWindows(windows) ==
    FoldLeft(Merged, <<>>, SetToSortSeq({w \in windows : w.to > w.from}, Opens))

Overlap(w, from, to) ==
    LET a == IF from > w.from THEN from ELSE w.from
        b == IF to < w.to THEN to ELSE w.to
    IN  IF b > a THEN b - a ELSE 0
BusinessSeconds(windows, from, to) ==
    FoldLeft(LAMBDA sum, w : sum + Overlap(w, from, to), 0, MergeWindows(windows))
InHours(windows, at) == \E w \in windows : w.from <= at /\ at < w.to

-----------------------------------------------------------------------------
(* The rules, as the passes over the sorted timeline that compute them. *)

OffHours(conf, at) == conf.business /\ conf.windows # {} /\ ~InHours(conf.windows, at)

Scored(conf, from, to) ==
    IF conf.business /\ conf.windows # {} THEN BusinessSeconds(conf.windows, from, to) ELSE to - from

\* closeCycle
CloseCycle(c, m, conf) ==
    [c EXCEPT !.response = m.id,
        !.status = CASE OffHours(conf, c.started) -> "queued"
                     [] ~OffHours(conf, c.started) /\ OffHours(conf, m.at) -> "excluded"
                     [] OTHER -> IF Scored(conf, c.started, m.at) <= Target
                                 THEN "achieved" ELSE "breached"]

OpenCycle(m, conf) ==
    [inbound |-> m.id, started |-> m.at, count |-> 1, response |-> None,
     status |-> IF OffHours(conf, m.at) THEN "queued" ELSE "waiting"]

Waits(out) == out # <<>> /\ Last(out).response = None

CycleStep_restart(out, m, conf) ==
    CASE NeedsReply(m) -> Append(out, OpenCycle(m, conf))
      [] IsManualReply(m) /\ Waits(out) -> [out EXCEPT ![Len(out)] = CloseCycle(@, m, conf)]
      [] OTHER -> out
CycleStep(out, m, conf) ==
    CASE NeedsReply(m) /\ Waits(out) -> [out EXCEPT ![Len(out)].count = @ + 1]
      [] NeedsReply(m) /\ ~Waits(out) -> Append(out, OpenCycle(m, conf))
      [] IsManualReply(m) /\ Waits(out) -> [out EXCEPT ![Len(out)] = CloseCycle(@, m, conf)]
      [] OTHER -> out
ComputeSLACycles(log, conf) ==
    Range(FoldLeft(LAMBDA out, m : CycleStep(out, m, conf), <<>>, SortTimeline(log)))

DayOf(at) == at \div Day

FollowUp(s, m) ==
    s.seen /\ ~s.awaiting /\ (s.lastIn = None \/ m.at - s.lastIn >= Gap)

\* Several follow-ups of a day are one row.
AddFollowUp(rows, m) ==
    IF rows # <<>> /\ DayOf(Last(rows).started) = DayOf(m.at)
    THEN [rows EXCEPT ![Len(rows)].count = @ + 1]
    ELSE Append(rows, [day |-> DayOf(m.at), trigger |-> m.id, started |-> m.at,
                       count |-> 1, response |-> None])

FollowUpStep_stillAwaiting(s, m) ==
    CASE NeedsReply(m) -> [s EXCEPT !.lastIn = m.at, !.awaiting = TRUE, !.seen = TRUE]
      [] IsManualReply(m) -> [s EXCEPT !.rows = IF FollowUp(s, m) THEN AddFollowUp(@, m) ELSE @,
                                       !.seen = TRUE]
      [] OTHER -> [s EXCEPT !.seen = @ \/ Countable(m)]
FollowUpStep(s, m) ==
    CASE NeedsReply(m) -> [s EXCEPT !.lastIn = m.at, !.awaiting = TRUE, !.seen = TRUE]
      [] IsManualReply(m) -> [s EXCEPT !.rows = IF FollowUp(s, m) THEN AddFollowUp(@, m) ELSE @,
                                       !.awaiting = FALSE, !.seen = TRUE]
      [] OTHER -> [s EXCEPT !.seen = @ \/ Countable(m)]

\* The first of sorted that passes, as an id.
FirstId(sorted, Test(_)) ==
    LET found == SelectSeq(sorted, Test) IN IF found = <<>> THEN None ELSE Head(found).id

\* attachFollowUpResponses: up to the next row.
Responded(rows, i, sorted) ==
    FirstId(sorted, LAMBDA m : /\ NeedsReply(m)
                               /\ m.at > rows[i].started
                               /\ i < Len(rows) => m.at < rows[i + 1].started)
ComputeFollowUps(log) ==
    LET sorted == SortTimeline(log)
        rows == FoldLeft(FollowUpStep,
                         [rows |-> <<>>, lastIn |-> None, awaiting |-> FALSE, seen |-> FALSE],
                         sorted).rows
    IN  {[rows[i] EXCEPT !.response = Responded(rows, i, sorted)] : i \in DOMAIN rows}

ComputeMentions(log) ==
    LET sorted == SortTimeline(log) IN
    {[message |-> m.id,
      response |-> FirstId(sorted, LAMBDA r : IsManualReply(r) /\ r.at > m.at)] :
        m \in {m \in Range(log) : m.from = "mention" /\ Countable(m)}}

-----------------------------------------------------------------------------
Idle == [at |-> "idle", log |-> <<>>]

Init ==
    /\ kind \in Kinds
    /\ settings \in Settings
    /\ timeline = <<>>
    /\ cycles = {} /\ followUps = {} /\ mentions = {}
    /\ fresh = {}
    /\ job = [c \in Caller |-> Idle]
    /\ exact = TRUE
    /\ changes = 0

Due(c) == job' = [job EXCEPT ![c] = [at |-> "due", log |-> <<>>]]

\* A message is stored: from the phone, the page or another device, in order,
\* late, or as part of a history sync.  The caller refreshes next.
Store(c, at, from) ==
    /\ c # "sweep" /\ job[c] = Idle
    /\ Len(timeline) < MaxMessages
    /\ from = "mention" => kind = "group"
    /\ timeline' = Append(timeline, [id |-> Len(timeline) + 1, at |-> at, from |-> from,
                                     gone |-> FALSE])
    /\ fresh' = fresh \cup {Len(timeline) + 1}
    /\ exact' = FALSE
    /\ Due(c)
    /\ UNCHANGED <<kind, settings, tables, changes>>

\* A message is hidden or revoked.
TakeBack(c, i) ==
    /\ c # "sweep" /\ job[c] = Idle
    /\ changes < MaxChanges /\ changes' = changes + 1
    /\ ~timeline[i].gone
    /\ timeline' = [timeline EXCEPT ![i].gone = TRUE]
    /\ exact' = FALSE
    /\ Due(c)
    /\ UNCHANGED <<kind, settings, tables, fresh>>

\* A refresh that fails is logged and forgotten.
Forget(c) ==
    /\ job[c] # Idle
    /\ changes < MaxChanges /\ changes' = changes + 1
    /\ job' = [job EXCEPT ![c] = Idle]
    /\ UNCHANGED <<kind, settings, timeline, tables, fresh, exact>>

\* RecomputeConversation reads the timeline before it opens its transaction ...
ConversationTimeline(c) ==
    /\ job[c].at = "due"
    /\ job' = [job EXCEPT ![c] = [at |-> "read", log |-> timeline]]
    /\ UNCHANGED <<kind, settings, timeline, tables, fresh, exact, changes>>

\* ... which inserts, overwrites by key, and deletes what is left over.
Obsolete_never(key, keep) == FALSE
Obsolete(key, keep) == key \notin keep
Written(old, new, Key(_)) ==
    LET all == new \cup {o \in old : \A n \in new : Key(n) # Key(o)}
        keep == {Key(n) : n \in new}
    IN  {r \in all : ~Obsolete(Key(r), keep)}

RecomputeConversation(c) ==
    LET log == job[c].log IN
    /\ job[c].at = "read"
    /\ IF kind = "personal"
       THEN /\ cycles' = Written(cycles, ComputeSLACycles(log, settings), LAMBDA r : r.inbound)
            /\ followUps' = Written(followUps, ComputeFollowUps(log), LAMBDA r : r.day)
            /\ UNCHANGED mentions
       ELSE /\ mentions' = Written(mentions, ComputeMentions(log), LAMBDA r : r.message)
            /\ UNCHANGED <<cycles, followUps>>
    /\ fresh' = {}
    /\ exact' = (log = timeline)
    /\ job' = [job EXCEPT ![c] = Idle]
    /\ UNCHANGED <<kind, settings, timeline, changes>>

\* A message that no row is younger than, or a mention without its row.
StaleMetricConversations ==
    \E m \in Range(timeline) :
        /\ ~m.gone
        /\ IF kind = "personal"
           THEN m.id \in fresh \/ (cycles = {} /\ followUps = {})
           ELSE m.from = "mention" /\ \A r \in mentions : r.message # m.id

ReconcileMetrics ==
    /\ job["sweep"] = Idle
    /\ StaleMetricConversations
    /\ Due("sweep")
    /\ UNCHANGED <<kind, settings, timeline, tables, fresh, exact, changes>>

Next ==
    \/ \E c \in Caller :
          \/ \E at \in Time, from \in Senders : Store(c, at, from)
          \/ \E i \in DOMAIN timeline : TakeBack(c, i)
          \/ Forget(c) \/ ConversationTimeline(c) \/ RecomputeConversation(c)
    \/ ReconcileMetrics

Spec == Init /\ [][Next]_vars

-----------------------------------------------------------------------------
(* The same rules, stated without a pass over the timeline. *)

Needing == {m \in Range(timeline) : NeedsReply(m)}
Replies == {m \in Range(timeline) : IsManualReply(m)}
Between(S, m, n) == {x \in S : Earlier(m, x) /\ Earlier(x, n)}
After(S, m) == {x \in S : Earlier(m, x)}
First(S) == IF S = {} THEN None ELSE (CHOOSE m \in S : \A n \in S \ {m} : Earlier(m, n)).id

Worked(from, to) ==
    IF settings.business /\ settings.windows # {}
    THEN Cardinality({t \in from..(to - 1) : InHours(settings.windows, t)})
    ELSE to - from

(* Every wait is one SLA cycle: it opens with a message nobody was already *)
(* waiting for an answer to, counts those that follow, ends with the first *)
(* manual reply and is scored by the hours worked in between               *)
(* (ComputeSLACycles, writeSLACycles).                                     *)
CyclesAreTheWaits ==
    exact /\ kind = "personal" =>
        cycles = {LET r == First(After(Replies, m)) IN
                  [inbound |-> m.id, started |-> m.at, response |-> r,
                   count |-> Cardinality({n \in Needing : n = m \/
                                (Earlier(m, n) /\ Between(Replies, m, n) = {})}),
                   status |->
                     CASE OffHours(settings, m.at) -> "queued"
                       [] ~OffHours(settings, m.at) /\ r = None -> "waiting"
                       [] ~OffHours(settings, m.at) /\ r # None /\ OffHours(settings, timeline[r].at)
                              -> "excluded"
                       [] OTHER -> IF Worked(m.at, timeline[r].at) <= Target
                                   THEN "achieved" ELSE "breached"] :
                  m \in {m \in Needing : \A p \in Needing :
                            Earlier(p, m) => Between(Replies, p, m) # {}}}

FollowsUp(r) ==
    /\ \E m \in Range(timeline) : ~m.gone /\ Earlier(m, r)
    /\ \A m \in Needing : Earlier(m, r) =>
          Between(Replies, m, r) # {} /\ r.at - m.at >= Gap

(* A day has a follow-up row exactly when somebody wrote again, unasked    *)
(* and after the gap, on that day; it counts them, starts with the first   *)
(* and carries the customer's answer to it, if one came before the next    *)
(* row (ComputeFollowUps, writeFollowUps).                                 *)
FollowUpsAreTheDays ==
    LET chasing == {r \in Replies : FollowsUp(r)}
        opening == {r \in chasing : \A q \in chasing : Earlier(q, r) => DayOf(q.at) # DayOf(r.at)}
    IN  exact /\ kind = "personal" =>
        followUps = {[day |-> DayOf(r.at), trigger |-> r.id, started |-> r.at,
                      count |-> Cardinality({q \in chasing : DayOf(q.at) = DayOf(r.at)}),
                      response |-> First({m \in Needing :
                          m.at > r.at /\ \A q \in opening : q.at > r.at => m.at < q.at})] :
                     r \in opening}

(* Every mention of the number that is still shown has its row, with the   *)
(* first manual answer given later (ComputeMentions, writeMentions).       *)
MentionsAreAnswered ==
    exact /\ kind = "group" =>
        mentions = {[message |-> m.id, response |-> First({r \in Replies : r.at > m.at})] :
                    m \in {m \in Needing : m.from = "mention"}}

(* "Calling it twice, out of order, or after a replay all reach the same   *)
(* answer" (RefreshConversationMetrics): when no recompute is running, was *)
(* lost or is due, the rows are those of the timeline.                     *)
Converges ==
    (\A c \in Caller : job[c] = Idle) /\ ~StaleMetricConversations /\ changes = 0 => exact
=============================================================================
