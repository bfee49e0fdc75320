---------------------------------- MODULE Sync ----------------------------------
(***************************************************************************)
(* What is kept in step with WhatsApp: a conversation against the phone and *)
(* the network (Chat), the files of its messages (Media), the labels in app *)
(* state (AppState), the sessions of the number (Sessions).  A behaviour is *)
(* of one of these components, which part names; the pool x1, x2, ... holds *)
(* its variables.  A component that is proved about is instantiated with its *)
(* theorems.                                                               *)
(***************************************************************************)
EXTENDS Integers

CONSTANTS
    \* of a conversation
    Inbound, Typed, Sent, Mentions, Late, Group, AutoMarkRead, Stamp, Local, Budget,
    \* of its files
    In, Out, File, Content, Hashed, Story, Fetcher, Request, Token, Transfers,
    \* of the labels in app state
    ForceAfter, ForceBudget, MaxEvents, Troubles,
    \* of the sessions
    Operator, MaxSessions, MaxDevices, MaxRequests, MaxFaults, Ops,
    Nothing

VARIABLES
    part,       \* the component this behaviour is of
    x1, x2, x3, x4, x5, x6, x7, x8, x9, x10, x11, x12, x13, x14, x15, x16, x17, x18

-----------------------------------------------------------------------------
C == INSTANCE Chat_proofs WITH
        NoMsg <- Nothing, row <- x1, conv <- x2, claimed <- x3, phone <- x4, wire <- x5,
        patches <- x6, online <- x7, handler <- x8, history <- x9, connect <- x10, web <- x11,
        sender <- x12, torn <- x13, lost <- x14, shown <- x15, left <- x16

M == INSTANCE Media_proofs WITH
        Budgets <- Transfers, NoKey <- Nothing, att <- x1, objects <- x2, bucket <- x3,
        msg <- x4, fetch <- x5, janitor <- x6, deleter <- x7, req <- x8, online <- x9,
        old <- x10, wire <- x11, cut <- x12, cleared <- x13, left <- x14

A == INSTANCE AppState WITH
        Budgets <- Troubles, head <- x1, broken <- x2, asked <- x3, events <- x4,
        stored <- x5, rollback <- x6, gate <- x7, timers <- x8, cooling <- x9,
        failures <- x10, recent <- x11, forced <- x12, wedge <- x13, since <- x14,
        account <- x15, proc <- x16, decoded <- x17, left <- x18

S == INSTANCE Sessions WITH
        Request <- Operator, row <- x1, stored <- x2, linked <- x3, live <- x4, sess <- x5,
        made <- x6, req <- x7, loops <- x8, tasks <- x9, down <- x10, spent <- x11

ASSUME ChatAssumption == C!ChatAssumption
ASSUME MediaAssumption == M!MediaAssumption
ASSUME AppStateAssumption == A!AppStateAssumption
ASSUME SessionsAssumption == S!SessionsAssumption

vars == <<part,
          x1, x2, x3, x4, x5, x6, x7, x8, x9, x10, x11, x12, x13, x14, x15, x16, x17, x18>>

(* The variables a component has no use for. *)
Unused16 ==
    /\ x17 = "unused" /\ x18 = "unused"
Unused14 ==
    /\ x15 = "unused" /\ x16 = "unused" /\ Unused16
Unused11 ==
    /\ x12 = "unused" /\ x13 = "unused" /\ x14 = "unused" /\ Unused14
rest16 == <<x17, x18>>
rest14 == <<x15, x16, rest16>>
rest11 == <<x12, x13, x14, rest14>>

ChatOnly == part = "chat" /\ UNCHANGED <<part, rest16>>
MediaOnly == part = "media" /\ UNCHANGED <<part, rest14>>
AppstateOnly == part = "appstate" /\ UNCHANGED part
SessionsOnly == part = "sessions" /\ UNCHANGED <<part, rest11>>

Init ==
    \/ part = "chat" /\ C!Init /\ Unused16
    \/ part = "media" /\ M!Init /\ Unused14
    \/ part = "appstate" /\ A!Init
    \/ part = "sessions" /\ S!Init /\ Unused11

Next ==
    \/ ChatOnly /\ C!Next
    \/ MediaOnly /\ M!Next
    \/ AppstateOnly /\ A!Next
    \/ SessionsOnly /\ S!Next

Spec == Init /\ [][Next]_vars

(* The fairness of each component, as its module states it. *)
FairSpec ==
    /\ Spec
    /\ WF_vars(ChatOnly /\ C!Handler)
    /\ WF_vars(ChatOnly /\ C!ApplyPatch)
    /\ WF_vars(ChatOnly /\ C!History)
    /\ WF_vars(ChatOnly /\ C!Reconcile)
    /\ WF_vars(ChatOnly /\ C!Connect)
    /\ WF_vars(ChatOnly /\ C!Web)
    /\ WF_vars(ChatOnly /\ C!Sender)
    /\ WF_vars(MediaOnly /\ M!Sweeps)
    /\ WF_vars(MediaOnly /\ M!Deletes)
    /\ \A f \in Fetcher :
           /\ WF_vars(MediaOnly /\ M!Fetches(f))
    /\ \A q \in Request :
           /\ WF_vars(MediaOnly /\ M!Sends(q))
    /\ WF_vars(AppstateOnly /\ A!Pass)
    /\ WF_vars(AppstateOnly /\ A!Events)
    /\ WF_vars(AppstateOnly /\ A!GateTimesOut)
    /\ \A d \in A!Durations :
           /\ WF_vars(AppstateOnly /\ A!TimePasses(d))
    /\ WF_vars(SessionsOnly /\ (\E t \in x9 : S!TaskSteps(t)))
    /\ WF_vars(SessionsOnly /\ (\E l \in x8 : S!LoopSteps(l)))
    /\ \A r \in Operator :
           /\ WF_vars(SessionsOnly /\ S!RequestSteps(r))
    /\ \A s \in S!Sess :
           /\ WF_vars(SessionsOnly /\ S!ScanEnds(s))
           /\ WF_vars(SessionsOnly /\ S!LogsIn(s))
           /\ WF_vars(SessionsOnly /\ S!Reconnects(s))
           /\ WF_vars(SessionsOnly /\ S!Handlers(s))

-----------------------------------------------------------------------------
(* The conversation's unread and mention counters, its head and whether it
   awaits a reply are those of its messages, between two statements of a
   handler and after a crash as far as the code keeps them (PersistMessage,
   RefreshConversationHead, RecomputeConversationUnread). *)
ConversationAgrees == part = "chat" => C!CountersAgree /\ C!HeadAgrees

(* The bucket and its registry agree: a stored file inside the window is
   registered, and no file in the bucket is unknown to rows, registry and
   goroutines (ClaimStoredObject, ReleaseStorageObjects). *)
StoreAgrees == part = "media" => M!YoungIsRegistered /\ M!NoFileIsForgotten

(* One client token is one message, however often it is sent again, and what
   the customer was sent has its file in the bucket (SendMedia). *)
SendsOnce == part = "media" => M!OneMessagePerToken /\ M!SentHasItsFile

(* The badge never says synced of a number whose labels have not decoded once:
   the lie labels_read_at was added to expose (labelIndicator). *)
SyncedWasRead == part = "appstate" => A!SyncedWasRead

(* Each component catches up again and again: what the operator read on the
   phone is read here, unless its receipt was lost with the connection or in a
   restart (handleReceipt); a file all of whose messages are past the window
   has left the bucket, but for the failures and races that Media names
   (sweepExpiredMedia); a phone that never answers neither shuts label writes
   out nor leaves the badge reading Menyinkronkan (markRecovering,
   startLabelReconciler); a session that is torn down is silent, whoever
   stopped it, a shutdown has ended, and a paired account nobody touches is
   logged in and its row says so (startConnectLoop, stop, Shutdown,
   Bootstrap). *)
CatchesUp ==
    []<>(/\ part = "chat" => \A m \in Inbound : C!ReadOnPhone(m) => C!ReadHere(m)
         /\ part = "media" => \A k \in File : M!Outlived(k) => M!Gone(k)
         /\ part = "appstate" => ~x7 /\ ~A!Syncing
         /\ part = "sessions" =>
              /\ \A s \in S!Sess : S!TornDown(s) => S!Silent(s)
              /\ x10 => S!AllReturned
              /\ S!LeftAlone => S!Back)
=============================================================================
