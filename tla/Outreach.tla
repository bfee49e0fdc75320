------------------------------ MODULE Outreach ------------------------------
(***************************************************************************)
(* Reaching people: whom a campaign addresses (Recipients), when it runs   *)
(* again (Recurrence), the Stories it posts (Story), and which of those    *)
(* who write are new (Leads).  A behaviour is of one of these components,  *)
(* which part names; the pool x1, x2, ... holds its variables.             *)
(***************************************************************************)
EXTENDS Integers

CONSTANTS
    \* of a Story
    Account, Viewer, MaxAttempts, Batch, Slots, MaxEvents,
    \* of new leads
    Contact, Time, Earliest, Limit, MaxChanges,
    \* of a list of recipients
    Device, Subscriber, Worlds, ContactLimit, MaxFlips,
    \* of a campaign that repeats
    Months, Starts, FirstWeekday, Rule, Lateness,
    None

VARIABLES
    part,       \* the component this behaviour is of
    x1, x2, x3, x4, x5, x6, x7, x8, x9, x10, x11, x12, x13, x14

-----------------------------------------------------------------------------
Y == INSTANCE Story WITH
        camp <- x1, pub <- x2, msg <- x3, run <- x4, stopping <- x5, job <- x6,
        minted <- x7, shown <- x8, takenDown <- x9, views <- x10, frozen <- x11,
        counted <- x12, spent <- x13

L == INSTANCE Leads WITH
        Start <- Earliest,
        contacts <- x1, early <- x2, messages <- x3, label <- x4,
        verdict <- x5, order <- x6, job <- x7, queue <- x8, changes <- x9

P == INSTANCE Recipients WITH
        online <- x1, threads <- x2,
        groups <- x3, book <- x4, request <- x5, phase <- x6, candidates <- x7, problems <- x8,
        duplicates <- x9, rows <- x10, cursor <- x11, sent <- x12, replied <- x13, flips <- x14

R == INSTANCE Recurrence WITH rule <- x1, due <- x2, last <- x3

ASSUME StoryAssumption == Y!StoryAssumption
ASSUME LeadsAssumption == L!LeadsAssumption
ASSUME RecipientsAssumption == P!RecipientsAssumption
ASSUME RecurrenceAssumption == R!RecurrenceAssumption

vars == <<part,
          x1, x2, x3, x4, x5, x6, x7, x8, x9, x10, x11, x12, x13, x14>>

(* The variables a component has no use for. *)
Unused13 ==
    /\ x14 = "unused"
Unused9 ==
    /\ x10 = "unused" /\ x11 = "unused" /\ x12 = "unused" /\ x13 = "unused"
    /\ Unused13
Unused3 ==
    /\ x4 = "unused" /\ x5 = "unused" /\ x6 = "unused" /\ x7 = "unused"
    /\ x8 = "unused" /\ x9 = "unused" /\ Unused9
rest13 == <<x14>>
rest9 == <<x10, x11, x12, x13, rest13>>
rest3 == <<x4, x5, x6, x7, x8, x9, rest9>>

StoryOnly == part = "story" /\ UNCHANGED <<part, rest13>>
LeadsOnly == part = "leads" /\ UNCHANGED <<part, rest9>>
ListOnly == part = "list" /\ UNCHANGED part
SeriesOnly == part = "series" /\ UNCHANGED <<part, rest3>>

Init ==
    \/ part = "story" /\ Y!Init /\ Unused13
    \/ part = "leads" /\ L!Init /\ Unused9
    \/ part = "list" /\ P!Init
    \/ part = "series" /\ R!Init /\ Unused3

Next ==
    \/ StoryOnly /\ Y!Next
    \/ LeadsOnly /\ L!Next
    \/ ListOnly /\ P!Next
    \/ SeriesOnly /\ R!Next

Spec == Init /\ [][Next]_vars

(* The fairness of each component, as its module states it. *)
FairSpec ==
    /\ Spec
    /\ WF_vars(StoryOnly /\ Y!ClaimCampaign)
    /\ WF_vars(StoryOnly /\ Y!RunStep)
    /\ WF_vars(StoryOnly /\ Y!CampaignLeaseEnds)
    /\ \A a \in Account :
           /\ WF_vars(StoryOnly /\ Y!JobStep(a))
           /\ WF_vars(StoryOnly /\ Y!LeaseEnds(a))
           /\ WF_vars(StoryOnly /\ Y!GapPasses(a))
    /\ WF_vars(LeadsOnly /\ L!ReconcileMetrics)
    /\ WF_vars(LeadsOnly /\ L!SweepNext)
    /\ \A k \in L!Caller :
           /\ WF_vars(LeadsOnly /\ L!Step(k))

-----------------------------------------------------------------------------
(* A number publishes a Story once: however often the worker dies, times out
   or tries again, its followers are shown one message (publishStory). *)
OneStoryPerNumber == part = "story" => Y!OneStoryPerNumber

(* The report of a Story counts each view that was accepted once, with the
   final figures frozen before the rows go (RecordStoryView, ExpireStories). *)
ReportAddsUp == part = "story" => Y!ReportAddsUp

(* A Story due to go out settles for good, whatever the worker that held it
   left behind (runStory, settleCancelled), and a contact's verdict ends up
   being the one its evidence gives (UnclassifiedContacts, reconcileMetrics). *)
SettlesForGood ==
    <>[](/\ part = "story" => ~Y!Unsettled
         /\ part = "leads" => L!Settled)

(* The list has each person once, whichever way their number was typed; every
   choice is a row or a named problem; and the recipients who may be reached
   from any number are spread evenly (ContactTargets, GroupTargets,
   NormalizeMSISDN, assign). *)
ListIsWhole ==
    part = "list" => P!OneRowPerPerson /\ P!NobodyVanishes /\ P!LoadIsEven

(* The next run of a series is the first instant of its rule after the run
   that settled, or the series ends there (spawnNextOccurrence). *)
NextIsTheFirst == [][part = "series" => R!IsTheFirst]_vars
=============================================================================
