-------------------------------- MODULE Records --------------------------------
(***************************************************************************)
(* What the database keeps, under overlapping requests, events and passes: *)
(* labels (Labels), polls, reactions and edits (Annotations), contacts     *)
(* (Contacts), who is looking at what (Hub), the organisation (Org), what  *)
(* conversations are scored (Metrics), and campaigns that repeat (Series). *)
(* A behaviour is of one of these components, which part names; the pool   *)
(* x1, x2, ... holds its variables.  A component that is proved about in a *)
(* module of its own is instantiated with its theorems.                    *)
(***************************************************************************)
EXTENDS Integers

CONSTANTS
    \* of the labels
    Lab, Chat, Known, Name, PhoneId, FirstLabel, Editor, Doings,
    \* of polls, reactions and edits
    Customer, Own, Lid, Choice, Emoji, Text, Removed, MaxUpdates,
    \* of contacts
    MaxRows, MaxEvents,
    \* of the hub
    Clients, Person, Convs, SendBuffer, Screens,
    \* of the organisation
    User, Application, Owner, Member, Request, MaxRequests,
    \* of what is scored
    Scorer, ChatKind, Senders, Settings, Time, Day, Target, Gap, MaxMessages, MaxChanges,
    \* of campaigns that repeat
    Runner, Doc, Caption, MaxCampaigns, MaxActs,
    None

VARIABLES
    part,       \* the component this behaviour is of
    x1, x2, x3, x4, x5, x6, x7, x8, x9, x10, x11, x12, x13, x14, x15, x16, x17, x18

-----------------------------------------------------------------------------
L == INSTANCE Labels WITH
        Request <- Editor, NoName <- None, First <- FirstLabel, Budgets <- Doings,
        rows <- x1, assigned <- x2, known <- x3, claimed <- x4, counted <- x5, state <- x6,
        pending <- x7, phone <- x8, net <- x9, hand <- x10, web <- x11, now <- x12, word <- x13, heard <- x14,
        erased <- x15, gap <- x16, behind <- x17, left <- x18

A == INSTANCE Annotations_proofs WITH
        Nothing <- None, MaxActs <- MaxUpdates, poll <- x1, voters <- x2, votes <- x3,
        reactions <- x4, message <- x5, web <- x6, net <- x7, applied <- x8, clock <- x9

C == INSTANCE Contacts WITH
        MaxActs <- MaxEvents, row <- x1, made <- x2, mapped <- x3, thread <- x4, target <- x5,
        state <- x6, job <- x7, lost <- x8, deleted <- x9, acts <- x10

H == INSTANCE Hub WITH
        Budgets <- Screens, conn <- x1, queue <- x2, closed <- x3, viewing <- x4,
        clients <- x5, index <- x6, hub <- x7, stack <- x8, shown <- x9, left <- x10

O == INSTANCE Org WITH
        NoOne <- None, there <- x1, active <- x2, role <- x3, assigned <- x4, picApps <- x5,
        freeApps <- x6, picOf <- x7, req <- x8, made <- x9, misplaced <- x10

M == INSTANCE Metrics WITH
        Caller <- Scorer, Kinds <- ChatKind,
        kind <- x1, settings <- x2, timeline <- x3, cycles <- x4, followUps <- x5,
        mentions <- x6, fresh <- x7, job <- x8, exact <- x9, changes <- x10

S == INSTANCE Series_proofs WITH
        Text <- Caption, campaign <- x1, run <- x2, file <- x3, resend <- x4, over <- x5,
        used <- x6

ASSUME LabelsAssumption == L!LabelsAssumption
ASSUME AnnotationsAssumption == A!AnnotationsAssumption
ASSUME ContactsAssumption == C!ContactsAssumption
ASSUME HubAssumption == H!HubAssumption
ASSUME OrgAssumption == O!OrgAssumption
ASSUME MetricsAssumption == M!MetricsAssumption
ASSUME SeriesAssumption == S!SeriesAssumption

vars == <<part,
          x1, x2, x3, x4, x5, x6, x7, x8, x9, x10, x11, x12, x13, x14, x15, x16, x17, x18>>

(* The variables a component has no use for. *)
Unused10 ==
    /\ x11 = "unused" /\ x12 = "unused" /\ x13 = "unused" /\ x14 = "unused"
    /\ x15 = "unused" /\ x16 = "unused" /\ x17 = "unused" /\ x18 = "unused"
Unused9 ==
    /\ x10 = "unused" /\ Unused10
Unused6 ==
    /\ x7 = "unused" /\ x8 = "unused" /\ x9 = "unused" /\ Unused9
rest10 == <<x11, x12, x13, x14, x15, x16, x17, x18>>
rest9 == <<x10, rest10>>
rest6 == <<x7, x8, x9, rest9>>

LabelsOnly == part = "labels" /\ UNCHANGED part
AnnotationsOnly == part = "annotations" /\ UNCHANGED <<part, rest9>>
ContactsOnly == part = "contacts" /\ UNCHANGED <<part, rest10>>
HubOnly == part = "hub" /\ UNCHANGED <<part, rest10>>
OrgOnly == part = "org" /\ UNCHANGED <<part, rest10>>
MetricsOnly == part = "metrics" /\ UNCHANGED <<part, rest10>>
SeriesOnly == part = "series" /\ UNCHANGED <<part, rest6>>

Init ==
    \/ part = "labels" /\ L!Init
    \/ part = "annotations" /\ A!Init /\ Unused9
    \/ part = "contacts" /\ C!Init /\ Unused10
    \/ part = "hub" /\ H!Init /\ Unused10
    \/ part = "org" /\ O!Init /\ Unused10
    \/ part = "metrics" /\ M!Init /\ Unused10
    \/ part = "series" /\ S!Init /\ Unused6

Next ==
    \/ LabelsOnly /\ L!Next
    \/ AnnotationsOnly /\ A!Next
    \/ ContactsOnly /\ C!Next
    \/ HubOnly /\ H!Next
    \/ OrgOnly /\ O!Next
    \/ MetricsOnly /\ M!Next
    \/ SeriesOnly /\ S!Next

Spec == Init /\ [][Next]_vars

-----------------------------------------------------------------------------
(* A label is what was last said of it; its chats' history adds up to the
   labels they have; and the labels the reports count are those the chats have
   (UpsertWALabel, SetChatLabelByWAID, refreshLabelState). *)
LabelsAgree == part = "labels" => L!LastWordStands /\ L!HistoryAddsUp /\ L!StateIsCurrent

(* A vote counts once, the reaction that came last is the one shown, and what
   was taken back stays empty, in whatever order updates arrive
   (ApplyPollVote, ApplyReaction, EditMessageContent). *)
AnnotationsAgree ==
    part = "annotations" =>
        A!PollCountsLastVotes /\ A!LastReactionShows /\ A!TakenBackStaysEmpty

(* Merging two rows of a person loses nothing that hangs on them, and an event
   that knows the person's number leaves them one row (mergeContactInto,
   UpsertContact). *)
OnePersonOneRow ==
    [][part = "contacts" => C!NobodyLeftBehind /\ C!OneRowLeft]_vars

(* The hub's two structures and the client's own field never disagree about
   a connection: whoever is counted as looking at a conversation is
   registered, says so itself, and looks at no other (hub.go). *)
ViewingAgrees == part = "hub" => H!ViewingAgrees

(* Nothing is sent on a closed channel, whatever was copied before: in Go
   that is a panic which takes the process down (hub.go). *)
NoSendAfterClose == [][part = "hub" => H!ClosedGetsNothing]_vars

(* No application has two PICs, and what the tables say of a person fits
   their role, whichever requests overlap (SetMemberAssignments,
   SetOperationalRole, SetMemberActive). *)
OrganisationAgrees == part = "org" => O!OrganisationAgrees

(* Whatever overlaps, each wait is one SLA cycle, each day of unasked messages
   one follow-up and each mention one row, as the timeline has them
   (RecomputeConversation, reconcileMetrics). *)
LedgersAgree ==
    part = "metrics" => M!CyclesAreTheWaits /\ M!FollowUpsAreTheDays /\ M!MentionsAreAnswered

(* An occurrence leaves at most one successor behind, whoever finishes it and
   however often it runs again (CloneCampaignForNextRun). *)
OneSuccessor == part = "series" => S!OneSuccessor
=============================================================================
