------------------------------ MODULE Sync_proofs ------------------------------
(***************************************************************************)
(* Proofs about Sync for every value of its constants: the badge of a      *)
(* number's labels, whose proof is here; and what the runs check of the    *)
(* composition, from the invariants that Chat_proofs and Media_proofs prove *)
(* of their components.                                                    *)
(***************************************************************************)
EXTENDS Sync, SequenceTheorems, TLAPS

(* The variables of AppState, by their names there. *)
head == x1
broken == x2
asked == x3
events == x4
stored == x5
rollback == x6
gate == x7
timers == x8
cooling == x9
failures == x10
recent == x11
forced == x12
wedge == x13
since == x14
account == x15
proc == x16
decoded == x17
left == x18

USE DEF head, broken, asked, events, stored, rollback, gate, timers, cooling, failures, recent,
        forced, wedge, since, account, proc, decoded, left

-----------------------------------------------------------------------------
(* The badge of a number's labels *)

Event == [k : {"complete"}] \cup [k : {"error"}, patch : Nat, full : BOOLEAN]
Outcome == {"ok", "stale", "wedged", "error", "recovering"}
Place ==
  [at : {"idle", "read", "full", "fetching"}] \cup [at : {"await", "write"}, retry : BOOLEAN]
    \cup [at : {"claim", "clear", "send"}, force : BOOLEAN]
    \cup [at : {"record", "settle"}, outcome : Outcome]
    \cup [at : {"lenient"}, outcome : Outcome, from : Nat]
Columns ==
  [badge : {"idle", "syncing", "synced", "failed", "partial"}, everRead : BOOLEAN,
   stale : {"none", "young", "proven"}, wedged : Nat, unverified : BOOLEAN]

\* The types of the reader's state.
ReaderTypes ==
  /\ head \in Nat /\ broken \in Nat /\ stored \in Nat /\ rollback \in Nat
  /\ events \in Seq(Event) /\ Len(events) <= MaxEvents
  /\ gate \in BOOLEAN /\ cooling \in BOOLEAN /\ recent \in BOOLEAN
  /\ timers \in Nat /\ failures \in Nat /\ forced \in 0..ForceBudget
  /\ wedge \in [patch : Nat, due : BOOLEAN]
  /\ account \in Columns /\ decoded \in BOOLEAN
  /\ proc \in [A!Procs -> Place]
  /\ left \in [A!Kinds -> Nat]

\* What stands for a read that went well: an event that was not handled yet, a
\* pass that has yet to write it down, and the columns that say so.
ReadsOnTheWay ==
  \/ \E i \in 1 .. Len(events) : events[i].k = "complete"
  \/ proc["pass"].at \in {"record", "lenient", "settle"} /\ proc["pass"].outcome = "ok"
  \/ account.everRead \/ account.badge = "synced"

AppStateInv ==
  /\ ReaderTypes
  /\ ReadsOnTheWay => decoded
  /\ gate => timers > 0

\* Where a process is says what it holds.
LEMMA Places ==
  ASSUME NEW w \in Place
  PROVE  /\ w.at \in {"claim", "clear", "send"} =>
              /\ w.force \in BOOLEAN
              /\ \A s \in {"claim", "clear", "send"} : [w EXCEPT !.at = s] \in Place
         /\ w.at \in {"await", "write"} =>
              /\ w.retry \in BOOLEAN
              /\ [w EXCEPT !.at = "write"] \in Place
         /\ w.at \in {"record", "settle", "lenient"} => w.outcome \in Outcome
         /\ w.at = "record" =>
              /\ [w EXCEPT !.at = "settle"] \in Place
              /\ [w EXCEPT !.at = "settle"].at = "settle"
              /\ [w EXCEPT !.at = "settle"].outcome = w.outcome
         /\ w.at = "lenient" => w.from \in Nat
BY DEF Place, Outcome

LEMMA Named ==
  /\ A!Idle \in Place
  /\ \A s \in {"idle", "read", "full", "fetching"} : [at |-> s] \in Place
  /\ \A b \in BOOLEAN : A!Asking(b) \in Place /\ [at |-> "await", retry |-> b] \in Place
  /\ \A o \in Outcome : A!After(o) \in Place /\ [at |-> "settle", outcome |-> o] \in Place
  /\ \A o \in Outcome, n \in Nat : [at |-> "lenient", outcome |-> o, from |-> n] \in Place
BY DEF Place, A!Idle, A!Asking, A!After

\* The library dispatches an event at the end of the queue ...
LEMMA Dispatched ==
  ASSUME ReaderTypes, NEW e \in Event, A!Dispatch(e), Len(events) < MaxEvents, MaxEvents \in Nat
  PROVE  /\ events' \in Seq(Event) /\ Len(events') <= MaxEvents
         /\ \A i \in 1 .. Len(events') : events'[i] = e \/ (i \in 1 .. Len(events) /\ events'[i] = events[i])
<1>1. events \in Seq(Event)
  BY DEF ReaderTypes
<1>2. /\ events' \in Seq(Event) /\ Len(events') = Len(events) + 1
      /\ \A i \in 1 .. Len(events) : events'[i] = events[i]
      /\ events'[Len(events) + 1] = e
  BY <1>1, AppendProperties DEF A!Dispatch
<1> QED BY <1>1, <1>2

\* ... and one of them is handled at a time, the oldest first.
LEMMA Handled ==
  ASSUME ReaderTypes, events # <<>>, events' = Tail(events), MaxEvents \in Nat
  PROVE  /\ Head(events) = events[1] /\ 1 \in 1 .. Len(events) /\ events[1] \in Event
         /\ events' \in Seq(Event) /\ Len(events') <= MaxEvents
         /\ \A i \in 1 .. Len(events') : i + 1 \in 1 .. Len(events) /\ events'[i] = events[i + 1]
<1>1. events \in Seq(Event)
  BY DEF ReaderTypes
<1>2. /\ Len(events) \in Nat /\ Len(events) > 0
      /\ Head(events) = events[1] /\ Tail(events) \in Seq(Event)
      /\ Len(Tail(events)) = Len(events) - 1
      /\ \A i \in 1 .. Len(Tail(events)) : Tail(events)[i] = events[i + 1]
  BY <1>1, EmptySeq, HeadTailProperties
<1>3. events[1] \in Event /\ Len(events) <= MaxEvents
  BY <1>1, <1>2, ElementOfSeq DEF ReaderTypes
<1> QED BY <1>2, <1>3 DEF ReaderTypes

-----------------------------------------------------------------------------
(* The steps of the phone, of WhatsApp and of time *)

LEMMA Spent ==
  ASSUME ReaderTypes, NEW b \in A!Kinds, A!Spend(b)
  PROVE  left' \in [A!Kinds -> Nat]
BY DEF ReaderTypes, A!Spend

\* A process that goes on elsewhere, and says nothing of a read that went well.
LEMMA WentOn ==
  ASSUME ReaderTypes, NEW p \in A!Procs, NEW w \in Place, A!Goes(p, w)
  PROVE  /\ proc' \in [A!Procs -> Place]
         /\ proc'["pass"] = (IF p = "pass" THEN w ELSE proc["pass"])
BY DEF ReaderTypes, A!Goes, A!Procs

LEMMA WentOnAsked ==
  ASSUME ReaderTypes, NEW p \in A!Procs, NEW r \in {"yes", "no", "error"}, A!Asked(p, r)
  PROVE  /\ proc' \in [A!Procs -> Place]
         /\ proc'["pass"] = proc["pass"] \/ proc'["pass"].outcome # "ok"
<1>1. PICK w \in Place : /\ A!Goes(p, w)
                         /\ p = "pass" => w.outcome # "ok"
  <2>1. CASE p = "pass"
    <3>1. PICK o \in {"recovering", "stale", "error"} : A!Goes(p, [at |-> "record", outcome |-> o])
      BY <2>1 DEF A!Asked
    <3> QED BY <3>1, Named DEF A!After, Outcome
  <2>2. CASE p = "write"
    <3>1. A!Goes(p, A!Idle) \/ A!Goes(p, [at |-> "await", retry |-> TRUE])
      BY <2>2 DEF A!Asked
    <3> QED BY <3>1, <2>2, Named
  <2>3. CASE p # "pass" /\ p # "write"
    BY <2>3, Named DEF A!Asked
  <2> QED BY <2>1, <2>2, <2>3
<1> QED BY <1>1, WentOn

\* What keeps the badge honest: no read that went well is on the way but by a
\* step that says the collection has decoded.
LEMMA WayKept ==
  ASSUME AppStateInv, decoded => decoded',
         \A i \in 1 .. Len(events') : events'[i].k = "complete" =>
             decoded' \/ \E j \in 1 .. Len(events) : events[j].k = "complete",
         \/ proc'["pass"] = proc["pass"]
         \/ proc'["pass"].at \notin {"record", "lenient", "settle"}
         \/ proc'["pass"].outcome # "ok"
         \/ ReadsOnTheWay \/ decoded',
         account'.everRead => ReadsOnTheWay \/ decoded',
         account'.badge = "synced" => ReadsOnTheWay \/ decoded'
  PROVE  (ReadsOnTheWay => decoded)'
BY DEF AppStateInv, ReadsOnTheWay

LEMMA PhoneChangesStep ==
  ASSUME A!AppStateAssumption, AppStateInv, A!PhoneChanges
  PROVE  AppStateInv'
<1>1. PICK e \in Event : A!Dispatch(e) /\ (e.k = "complete" => decoded')
  <2>1. broken' \in Nat
    BY DEF A!PhoneChanges, AppStateInv, ReaderTypes
  <2>2. /\ [k |-> "error", patch |-> broken', full |-> stored = 0] \in Event
        /\ [k |-> "complete"] \in Event
    BY <2>1 DEF Event
  <2> QED BY <2>2 DEF A!PhoneChanges
<1>2. /\ events' \in Seq(Event) /\ Len(events') <= MaxEvents
      /\ \A i \in 1 .. Len(events') : events'[i] = e \/ (i \in 1 .. Len(events) /\ events'[i] = events[i])
  BY <1>1, Dispatched DEF A!PhoneChanges, AppStateInv, A!AppStateAssumption
<1>3. left' \in [A!Kinds -> Nat] /\ (decoded => decoded') /\ decoded' \in BOOLEAN
  BY Spent DEF A!PhoneChanges, AppStateInv, A!Kinds, ReaderTypes
<1>4. head' \in Nat /\ broken' \in Nat /\ stored' \in Nat
  BY DEF A!PhoneChanges, AppStateInv, ReaderTypes
<1>5. ReaderTypes'
  BY <1>2, <1>3, <1>4 DEF AppStateInv, ReaderTypes, A!PhoneChanges, A!session
<1>6. (ReadsOnTheWay => decoded)'
  BY <1>1, <1>2, <1>3, WayKept DEF AppStateInv, ReadsOnTheWay, A!PhoneChanges
<1> QED BY <1>5, <1>6 DEF AppStateInv, A!PhoneChanges, A!session

LEMMA RebuildsStep ==
  ASSUME AppStateInv, A!Rebuilds
  PROVE  AppStateInv'
<1>1. left' \in [A!Kinds -> Nat]
  BY Spent DEF A!Rebuilds, AppStateInv, A!Kinds
<1> QED BY <1>1 DEF AppStateInv, ReaderTypes, ReadsOnTheWay, A!Rebuilds, A!session

LEMMA PhoneAnswersStep ==
  ASSUME A!AppStateAssumption, AppStateInv, A!PhoneAnswers
  PROVE  AppStateInv'
<1>1. CASE UNCHANGED <<stored, events, decoded, left>>
  BY <1>1 DEF AppStateInv, ReaderTypes, ReadsOnTheWay, A!PhoneAnswers, A!session
<1>2. CASE /\ A!Spend("answers") /\ stored < head /\ Len(events) < MaxEvents
           /\ stored' = head /\ decoded' = TRUE
           /\ A!Dispatch([k |-> "complete"])
  <2>1. [k |-> "complete"] \in Event
    BY DEF Event
  <2>2. events' \in Seq(Event) /\ Len(events') <= MaxEvents /\ left' \in [A!Kinds -> Nat]
    BY <1>2, <2>1, Dispatched, Spent DEF AppStateInv, A!AppStateAssumption, A!Kinds
  <2> QED BY <1>2, <2>2 DEF AppStateInv, ReaderTypes, ReadsOnTheWay, A!PhoneAnswers, A!session
<1> QED BY <1>1, <1>2 DEF A!PhoneAnswers

LEMMA GateTimesOutStep ==
  ASSUME AppStateInv, A!GateTimesOut
  PROVE  AppStateInv'
<1>1. stored' \in Nat /\ rollback' \in Nat /\ gate' \in BOOLEAN /\ timers' \in Nat
  <2>1. timers' \in Nat
    BY DEF AppStateInv, ReaderTypes, A!GateTimesOut
  <2>2. CASE gate
    <3>1. stored' = A!Restored /\ rollback' = 0 /\ gate' = FALSE
      BY <2>2 DEF A!GateTimesOut, A!GateAfter
    <3> QED BY <2>1, <3>1 DEF AppStateInv, ReaderTypes, A!Restored
  <2>3. CASE ~gate
    BY <2>1, <2>3 DEF AppStateInv, ReaderTypes, A!GateTimesOut
  <2> QED BY <2>2, <2>3
<1>2. gate' => timers' > 0
  BY DEF AppStateInv, ReaderTypes, A!GateTimesOut, A!GateAfter
<1>3. (ReadsOnTheWay => decoded)'
  BY WayKept DEF AppStateInv, ReadsOnTheWay, A!GateTimesOut
<1> QED BY <1>1, <1>2, <1>3 DEF AppStateInv, ReaderTypes, A!GateTimesOut, A!server

LEMMA TimePassesStep ==
  ASSUME AppStateInv, NEW d \in A!Durations, A!TimePasses(d)
  PROVE  AppStateInv'
<1>1. wedge' \in [patch : Nat, due : BOOLEAN] /\ cooling' \in BOOLEAN /\ recent' \in BOOLEAN
  BY DEF AppStateInv, ReaderTypes, A!TimePasses
<1>2. /\ account' \in Columns
      /\ account'.everRead = account.everRead /\ account'.badge = account.badge
  BY DEF AppStateInv, ReaderTypes, A!TimePasses, Columns
<1> QED BY <1>1, <1>2 DEF AppStateInv, ReaderTypes, ReadsOnTheWay, A!TimePasses, A!server

-----------------------------------------------------------------------------
(* The steps of a request for a plain copy *)

LEMMA ClaimRecoverySlotStep ==
  ASSUME AppStateInv, NEW p \in A!Procs, A!ClaimRecoverySlot(p)
  PROVE  AppStateInv'
<1>1. proc[p] \in Place /\ proc[p].at = "claim"
  BY DEF AppStateInv, ReaderTypes, A!ClaimRecoverySlot
<1>2. /\ proc' \in [A!Procs -> Place]
      /\ \/ proc'["pass"] = proc["pass"] \/ proc'["pass"].outcome # "ok"
         \/ proc'["pass"].at \notin {"record", "lenient", "settle"}
  <2>1. CASE A!Asked(p, "no")
    BY <2>1, WentOnAsked DEF AppStateInv
  <2>2. ASSUME NEW s \in {"clear", "send"}, A!Goes(p, [proc[p] EXCEPT !.at = s])
        PROVE  /\ proc' \in [A!Procs -> Place]
               /\ \/ proc'["pass"] = proc["pass"]
                  \/ proc'["pass"].at \notin {"record", "lenient", "settle"}
    <3>1. [proc[p] EXCEPT !.at = s] \in Place /\ [proc[p] EXCEPT !.at = s].at = s
      BY <1>1, Places DEF Place
    <3> QED BY <3>1, <2>2, WentOn DEF AppStateInv
  <2> QED BY <2>1, <2>2 DEF A!ClaimRecoverySlot
<1>3. cooling' \in BOOLEAN /\ gate' \in BOOLEAN /\ timers' \in Nat /\ (gate' => timers' > 0)
  <2>1. \/ UNCHANGED <<cooling, gate, timers>>
        \/ cooling' = TRUE /\ gate' = TRUE /\ gate /\ UNCHANGED timers
        \/ cooling' = TRUE /\ gate' = TRUE /\ timers' = timers + 1
        \/ cooling' = TRUE /\ UNCHANGED <<gate, timers>>
    BY DEF A!ClaimRecoverySlot
  <2>2. CASE UNCHANGED <<cooling, gate, timers>>
    BY <2>2 DEF AppStateInv, ReaderTypes
  <2>3. CASE cooling' = TRUE /\ gate' = TRUE /\ gate /\ UNCHANGED timers
    BY <2>3 DEF AppStateInv, ReaderTypes
  <2>4. CASE cooling' = TRUE /\ gate' = TRUE /\ timers' = timers + 1
    BY <2>4 DEF AppStateInv, ReaderTypes
  <2>5. CASE cooling' = TRUE /\ UNCHANGED <<gate, timers>>
    BY <2>5 DEF AppStateInv, ReaderTypes
  <2> QED BY <2>1, <2>2, <2>3, <2>4, <2>5
<1>4. (ReadsOnTheWay => decoded)'
  BY <1>2, WayKept DEF AppStateInv, ReadsOnTheWay, A!ClaimRecoverySlot
<1> QED BY <1>2, <1>3, <1>4 DEF AppStateInv, ReaderTypes, A!ClaimRecoverySlot, A!server

LEMMA ClearVersionStep ==
  ASSUME AppStateInv, NEW p \in A!Procs, A!ClearVersion(p)
  PROVE  AppStateInv'
<1>1. proc[p] \in Place /\ proc[p].at = "clear"
  BY DEF AppStateInv, ReaderTypes, A!ClearVersion
<1>2. /\ [proc[p] EXCEPT !.at = "send"] \in Place
      /\ [proc[p] EXCEPT !.at = "send"].at = "send"
  BY <1>1, Places DEF Place
<1>3. /\ proc' \in [A!Procs -> Place]
      /\ proc'["pass"] = proc["pass"] \/ proc'["pass"].at \notin {"record", "lenient", "settle"}
  BY <1>2, WentOn DEF AppStateInv, A!ClearVersion
<1>4. stored' \in Nat /\ rollback' \in Nat
  BY DEF AppStateInv, ReaderTypes, A!ClearVersion
<1>5. (ReadsOnTheWay => decoded)'
  BY <1>3, WayKept DEF AppStateInv, ReadsOnTheWay, A!ClearVersion
<1> QED BY <1>3, <1>4, <1>5 DEF AppStateInv, ReaderTypes, A!ClearVersion, A!server

LEMMA SendRecoveryRequestStep ==
  ASSUME AppStateInv, NEW p \in A!Procs, A!SendRecoveryRequest(p)
  PROVE  AppStateInv'
<1>1. /\ proc' \in [A!Procs -> Place]
      /\ proc'["pass"] = proc["pass"] \/ proc'["pass"].outcome # "ok"
  BY WentOnAsked DEF AppStateInv, A!SendRecoveryRequest
<1>2. left' \in [A!Kinds -> Nat]
  <2>1. UNCHANGED left \/ A!Spend("failures")
    BY DEF A!SendRecoveryRequest
  <2> QED BY <2>1, Spent DEF AppStateInv, ReaderTypes, A!Kinds
<1>3. /\ account' \in Columns
      /\ account'.everRead = account.everRead
      /\ account'.badge = "synced" => account.badge = "synced"
  <2>1. UNCHANGED account \/ account' = [account EXCEPT !.badge = "failed"]
    BY DEF A!SendRecoveryRequest
  <2> QED BY <2>1 DEF AppStateInv, ReaderTypes, Columns
<1>4. stored' \in Nat /\ rollback' \in Nat /\ failures' \in Nat
  BY DEF AppStateInv, ReaderTypes, A!SendRecoveryRequest, A!Restored
<1>5. gate' \in BOOLEAN /\ (gate' => timers' > 0)
  BY DEF AppStateInv, ReaderTypes, A!SendRecoveryRequest
<1>6. (ReadsOnTheWay => decoded)'
  BY <1>1, <1>3, WayKept DEF AppStateInv, ReadsOnTheWay, A!SendRecoveryRequest
<1> QED BY <1>1, <1>2, <1>3, <1>4, <1>5, <1>6 DEF AppStateInv, ReaderTypes, A!SendRecoveryRequest

-----------------------------------------------------------------------------
(* The steps of a pass of the reconciler, and of the Sinkron button *)

LEMMA ReconcileStartsStep ==
  ASSUME AppStateInv, A!ReconcileStarts
  PROVE  AppStateInv'
<1>1. account' \in Columns /\ account'.everRead = account.everRead /\ account'.badge = "syncing"
  BY DEF AppStateInv, ReaderTypes, Columns, A!ReconcileStarts, A!Badge
<1>2. proc' \in [A!Procs -> Place] /\ proc'["pass"].at = "read"
  BY Named, WentOn DEF AppStateInv, A!ReconcileStarts, A!Procs
<1>3. (ReadsOnTheWay => decoded)'
  BY <1>1, <1>2, WayKept DEF AppStateInv, ReadsOnTheWay, A!ReconcileStarts
<1> QED BY <1>1, <1>2, <1>3 DEF AppStateInv, ReaderTypes, A!ReconcileStarts, A!session, A!server

\* What a read changes of the record of the wedge and of the columns.
LEMMA WedgeKept ==
  ASSUME AppStateInv, A!ForgetWedge \/ A!NoteWedge(broken) \/ UNCHANGED <<wedge, account>>
  PROVE  /\ wedge' \in [patch : Nat, due : BOOLEAN] /\ account' \in Columns
         /\ account'.everRead = account.everRead /\ account'.badge = account.badge
<1>1. CASE A!ForgetWedge
  BY <1>1 DEF AppStateInv, ReaderTypes, Columns, A!ForgetWedge, A!NoWedge, A!ClearLabelWedge
<1>2. CASE A!NoteWedge(broken)
  BY <1>2 DEF AppStateInv, ReaderTypes, Columns, A!NoteWedge, A!Noted, A!SaveLabelWedge
<1>3. CASE UNCHANGED <<wedge, account>>
  BY <1>3 DEF AppStateInv, ReaderTypes
<1> QED BY <1>1, <1>2, <1>3

\* An incremental read, whoever reads: it went well, and then it says so, or not.
LEMMA ReadsStep ==
  ASSUME A!AppStateAssumption, AppStateInv, NEW p \in {"pass", "sync"},
         \/ /\ stored' = head /\ decoded' = TRUE /\ A!Dispatch([k |-> "complete"])
            /\ Len(events) < MaxEvents /\ UNCHANGED left
         \/ UNCHANGED <<stored, decoded, events, left>>
         \/ A!Spend("failures") /\ UNCHANGED <<stored, decoded, events>>,
         A!ForgetWedge \/ A!NoteWedge(broken) \/ UNCHANGED <<wedge, account>>,
         NEW w \in Place, A!Goes(p, w),
         p = "pass" /\ w.at \in {"record", "lenient", "settle"} => w.outcome # "ok" \/ decoded',
         UNCHANGED <<A!server, rollback, gate, timers, cooling, failures, recent, forced, since>>
  PROVE  AppStateInv'
<1>1. /\ proc' \in [A!Procs -> Place]
      /\ proc'["pass"] = (IF p = "pass" THEN w ELSE proc["pass"])
  BY WentOn DEF AppStateInv, A!Procs
<1>2. /\ wedge' \in [patch : Nat, due : BOOLEAN] /\ account' \in Columns
      /\ account'.everRead = account.everRead /\ account'.badge = account.badge
  BY WedgeKept
<1>3. /\ events' \in Seq(Event) /\ Len(events') <= MaxEvents
      /\ stored' \in Nat /\ left' \in [A!Kinds -> Nat] /\ decoded' \in BOOLEAN
      /\ decoded => decoded'
      /\ UNCHANGED events \/ decoded'
  <2>1. CASE /\ stored' = head /\ decoded' = TRUE /\ A!Dispatch([k |-> "complete"])
             /\ Len(events) < MaxEvents /\ UNCHANGED left
    <3>1. [k |-> "complete"] \in Event
      BY DEF Event
    <3> QED BY <2>1, <3>1, Dispatched DEF AppStateInv, A!AppStateAssumption, ReaderTypes
  <2>2. CASE UNCHANGED <<stored, decoded, events, left>>
    BY <2>2 DEF AppStateInv, ReaderTypes
  <2>3. CASE A!Spend("failures") /\ UNCHANGED <<stored, decoded, events>>
    <3>1. left' \in [A!Kinds -> Nat]
      BY <2>3, Spent DEF AppStateInv, A!Kinds
    <3> QED BY <2>3, <3>1 DEF AppStateInv, ReaderTypes
  <2> QED BY <2>1, <2>2, <2>3
<1>4. decoded => decoded'
  BY <1>3 DEF AppStateInv, ReaderTypes
<1>5. (ReadsOnTheWay => decoded)'
  <2>1. CASE decoded'
    BY <2>1
  <2>2. CASE ~decoded'
    BY <2>2, <1>1, <1>2, <1>3, <1>4, WayKept DEF AppStateInv, ReadsOnTheWay
  <2> QED BY <2>1, <2>2
<1> QED BY <1>1, <1>2, <1>3, <1>5 DEF AppStateInv, ReaderTypes, A!server

LEMMA ReconcileReadsStep ==
  ASSUME A!AppStateAssumption, AppStateInv, A!ReconcileReads
  PROVE  AppStateInv'
<1>1. CASE /\ wedge.patch > 0 /\ ~wedge.due
           /\ A!Goes("pass", A!After("wedged")) /\ UNCHANGED <<stored, decoded, events, wedge, account, left>>
  BY <1>1, Named, ReadsStep DEF A!ReconcileReads, A!After, Outcome
<1>2. CASE A!Reads("pass", A!After("ok"), A!NoteWedge(broken) /\ A!Goes("pass", A!Asking(FALSE)),
                 A!Goes("pass", A!Asking(FALSE)))
  <2>1. CASE /\ Len(events) < MaxEvents
             /\ stored' = head /\ decoded' = TRUE /\ A!Dispatch([k |-> "complete"])
             /\ A!ForgetWedge /\ A!Goes("pass", A!After("ok")) /\ UNCHANGED left
    BY <2>1, Named, ReadsStep DEF A!ReconcileReads, Outcome
  <2>2. CASE /\ A!NoteWedge(broken) /\ A!Goes("pass", A!Asking(FALSE))
             /\ UNCHANGED <<stored, decoded, events, left>>
    <3>1. A!Asking(FALSE) \in Place /\ A!Asking(FALSE).at \notin {"record", "lenient", "settle"}
      BY Named DEF A!Asking
    <3> QED BY <2>2, <3>1, ReadsStep DEF A!ReconcileReads
  <2>3. CASE /\ A!Spend("failures") /\ A!Goes("pass", A!Asking(FALSE))
             /\ UNCHANGED <<stored, decoded, events, wedge, account>>
    <3>1. A!Asking(FALSE) \in Place /\ A!Asking(FALSE).at \notin {"record", "lenient", "settle"}
      BY Named DEF A!Asking
    <3> QED BY <2>3, <3>1, ReadsStep DEF A!ReconcileReads
  <2> QED BY <1>2, <2>1, <2>2, <2>3 DEF A!Reads
<1> QED BY <1>1, <1>2 DEF A!ReconcileReads

LEMMA SyncReadsStep ==
  ASSUME A!AppStateAssumption, AppStateInv, A!SyncReads
  PROVE  AppStateInv'
<1> DEFINE full == [at |-> "full"]
           ask == A!Asking(TRUE)
<1>1. /\ A!Idle \in Place /\ full \in Place /\ ask \in Place
  BY Named
<1> HIDE DEF full, ask
<1>2. CASE /\ Len(events) < MaxEvents
           /\ stored' = head /\ decoded' = TRUE /\ A!Dispatch([k |-> "complete"])
           /\ A!ForgetWedge /\ A!Goes("sync", A!Idle) /\ UNCHANGED left
  BY <1>1, <1>2, ReadsStep DEF A!SyncReads
<1>3. CASE /\ \/ A!NoteWedge(broken) /\ A!Goes("sync", ask)
              \/ A!Goes("sync", full) /\ UNCHANGED <<wedge, account>>
           /\ UNCHANGED <<stored, decoded, events, left>>
  BY <1>1, <1>3, ReadsStep DEF A!SyncReads
<1>4. CASE /\ A!Spend("failures")
           /\ \/ A!Goes("sync", ask)
              \/ A!Goes("sync", full)
           /\ UNCHANGED <<stored, decoded, events, wedge, account>>
  BY <1>1, <1>4, ReadsStep DEF A!SyncReads
<1> QED BY <1>2, <1>3, <1>4 DEF A!SyncReads, A!Reads, A!AskForced, full, ask

LEMMA RecordLabelReadabilityStep ==
  ASSUME AppStateInv, A!RecordLabelReadability
  PROVE  AppStateInv'
<1>1. /\ proc["pass"] \in Place /\ proc["pass"].at = "record" /\ proc["pass"].outcome \in Outcome
      /\ stored \in Nat
  BY Places DEF AppStateInv, ReaderTypes, A!RecordLabelReadability, A!Procs
<1>2. proc' \in [A!Procs -> Place] /\ proc'["pass"].outcome = proc["pass"].outcome
  <2>1. CASE A!Goes("pass", [at |-> "lenient", outcome |-> proc["pass"].outcome, from |-> stored])
    <3>1. [at |-> "lenient", outcome |-> proc["pass"].outcome, from |-> stored] \in Place
      BY <1>1, Named
    <3> QED BY <2>1, <3>1, WentOn DEF AppStateInv, A!Procs
  <2>2. CASE A!Goes("pass", [proc["pass"] EXCEPT !.at = "settle"])
    <3>1. /\ [proc["pass"] EXCEPT !.at = "settle"] \in Place
          /\ [proc["pass"] EXCEPT !.at = "settle"].outcome = proc["pass"].outcome
      BY <1>1, Places
    <3> QED BY <2>2, <3>1, WentOn DEF AppStateInv, A!Procs
  <2> QED BY <2>1, <2>2 DEF A!RecordLabelReadability
<1>3. /\ account' \in Columns /\ account'.badge = account.badge
      /\ account'.everRead => account.everRead \/ proc["pass"].outcome = "ok"
  <2>1. CASE proc["pass"].outcome = "ok" /\ account' = A!MarkLabelCollectionRead(account)
    BY <2>1 DEF AppStateInv, ReaderTypes, Columns, A!MarkLabelCollectionRead
  <2>2. CASE account' = A!MarkLabelCollectionStale(account)
    <3>1. (IF account.stale = "none" THEN "young" ELSE account.stale) \in {"none", "young", "proven"}
      BY DEF AppStateInv, ReaderTypes, Columns
    <3> QED BY <2>2, <3>1 DEF AppStateInv, ReaderTypes, Columns, A!MarkLabelCollectionStale
  <2> QED BY <2>1, <2>2 DEF A!RecordLabelReadability
<1>4. (ReadsOnTheWay => decoded)'
  BY <1>1, <1>2, <1>3 DEF AppStateInv, ReadsOnTheWay, A!RecordLabelReadability
<1> QED BY <1>2, <1>3, <1>4 DEF AppStateInv, ReaderTypes, A!RecordLabelReadability, A!session, A!server

LEMMA ReadLabelsUnverifiedStep ==
  ASSUME AppStateInv, A!ReadLabelsUnverified
  PROVE  AppStateInv'
<1>1. /\ proc["pass"] \in Place /\ proc["pass"].at = "lenient" /\ proc["pass"].outcome \in Outcome
      /\ proc["pass"].from \in Nat
  BY Places DEF AppStateInv, ReaderTypes, A!ReadLabelsUnverified, A!Procs
<1>2. proc' \in [A!Procs -> Place] /\ proc'["pass"].outcome = proc["pass"].outcome
  <2>1. [at |-> "settle", outcome |-> proc["pass"].outcome] \in Place
    BY <1>1, Named
  <2> QED BY <2>1, WentOn DEF AppStateInv, A!ReadLabelsUnverified, A!Procs
<1>3. /\ account' \in Columns /\ account'.everRead = account.everRead
      /\ account'.badge = account.badge \/ account'.badge = "partial"
  <2>1. account' = A!MarkLabelsUnverified(account) \/ UNCHANGED account
    BY DEF A!ReadLabelsUnverified
  <2> QED BY <2>1 DEF AppStateInv, ReaderTypes, Columns, A!MarkLabelsUnverified
<1>4. stored' \in Nat /\ left' \in [A!Kinds -> Nat]
  <2>1. CASE /\ \E v \in A!CrossWedgedPatches(proc["pass"].from) :
                  stored' = IF v > proc["pass"].from THEN v ELSE stored
             /\ UNCHANGED left
    <3>1. PICK v \in A!CrossWedgedPatches(proc["pass"].from) :
                  stored' = IF v > proc["pass"].from THEN v ELSE stored
      BY <2>1
    <3> QED BY <1>1, <2>1, <3>1 DEF AppStateInv, ReaderTypes, A!CrossWedgedPatches
  <2>2. CASE A!Spend("failures") /\ UNCHANGED stored
    BY <2>2, Spent DEF AppStateInv, ReaderTypes, A!Kinds
  <2> QED BY <2>1, <2>2 DEF A!ReadLabelsUnverified
<1>5. (ReadsOnTheWay => decoded)'
  BY <1>1, <1>2, <1>3 DEF AppStateInv, ReadsOnTheWay, A!ReadLabelsUnverified
<1> QED BY <1>2, <1>3, <1>4, <1>5 DEF AppStateInv, ReaderTypes, A!ReadLabelsUnverified, A!session, A!server

\* The badge is computed from columns that only a read that went well fills in.
LEMMA LabelIndicatorIsHonest ==
  /\ A!LabelIndicator \in {"partial", "failed", "synced"}
  /\ A!LabelIndicator = "synced" => account.everRead
BY DEF A!LabelIndicator

LEMMA ReconcileSettlesStep ==
  ASSUME AppStateInv, A!ReconcileSettles
  PROVE  AppStateInv'
<1>1. proc' \in [A!Procs -> Place] /\ proc'["pass"] = A!Idle
  BY Named, WentOn DEF AppStateInv, A!ReconcileSettles, A!Procs
<1>2. \/ UNCHANGED account
      \/ \E b \in {"failed", "synced", "partial"} :
           /\ A!Badge(b)
           /\ b = "synced" => proc["pass"].outcome = "ok" \/ account.everRead
  BY LabelIndicatorIsHonest DEF A!ReconcileSettles
<1>3. /\ account' \in Columns /\ account'.everRead = account.everRead
      /\ account'.badge = "synced" => ReadsOnTheWay
  BY <1>2 DEF AppStateInv, ReaderTypes, ReadsOnTheWay, Columns, A!Badge, A!ReconcileSettles
<1>4. (ReadsOnTheWay => decoded)'
  BY <1>1, <1>3, WayKept DEF AppStateInv, ReadsOnTheWay, A!ReconcileSettles, A!Idle
<1> QED BY <1>1, <1>3, <1>4 DEF AppStateInv, ReaderTypes, A!ReconcileSettles, A!server

LEMMA PressesStep ==
  ASSUME AppStateInv, A!Presses
  PROVE  AppStateInv'
<1>1. proc' \in [A!Procs -> Place] /\ proc'["pass"] = proc["pass"]
  BY Named, WentOn DEF AppStateInv, A!Presses, A!Procs
<1>2. left' \in [A!Kinds -> Nat]
  BY Spent DEF AppStateInv, A!Presses, A!Kinds
<1> QED BY <1>1, <1>2 DEF AppStateInv, ReaderTypes, ReadsOnTheWay, A!Presses, A!session, A!server

LEMMA FullFetchStartsStep ==
  ASSUME AppStateInv, A!FullFetchStarts
  PROVE  AppStateInv'
<1>1. proc' \in [A!Procs -> Place] /\ proc'["pass"] = proc["pass"]
  BY Named, WentOn DEF AppStateInv, A!FullFetchStarts, A!Procs
<1>2. stored' \in Nat /\ rollback' \in Nat
  BY DEF AppStateInv, ReaderTypes, A!FullFetchStarts
<1> QED BY <1>1, <1>2 DEF AppStateInv, ReaderTypes, ReadsOnTheWay, A!FullFetchStarts, A!server

LEMMA FullFetchEndsStep ==
  ASSUME A!AppStateAssumption, AppStateInv, A!FullFetchEnds
  PROVE  AppStateInv'
<1>1. A!Idle \in Place /\ A!Asking(TRUE) \in Place
  BY Named
<1>2. proc' \in [A!Procs -> Place] /\ proc'["pass"] = proc["pass"]
  BY <1>1, WentOn DEF AppStateInv, A!FullFetchEnds, A!AskForced, A!Procs
<1>3. /\ wedge' \in [patch : Nat, due : BOOLEAN] /\ account' \in Columns
      /\ account'.everRead = account.everRead /\ account'.badge = account.badge
  BY WedgeKept DEF A!FullFetchEnds
<1>4. CASE /\ broken = 0 /\ Len(events) < MaxEvents
           /\ stored' = head /\ rollback' = 0 /\ decoded' = TRUE /\ A!Dispatch([k |-> "complete"])
           /\ A!ForgetWedge /\ A!Goes("sync", A!Idle)
  <2>1. [k |-> "complete"] \in Event
    BY DEF Event
  <2>2. events' \in Seq(Event) /\ Len(events') <= MaxEvents
    BY <1>4, <2>1, Dispatched DEF AppStateInv, A!AppStateAssumption
  <2> QED BY <1>2, <1>3, <1>4, <2>2 DEF AppStateInv, ReaderTypes, ReadsOnTheWay, A!FullFetchEnds, A!server
<1>5. CASE /\ stored' = A!Restored /\ rollback' = 0 /\ A!NoteWedge(broken) /\ A!AskForced
           /\ UNCHANGED <<events, decoded>>
  <2>1. stored' \in Nat
    BY <1>5 DEF AppStateInv, ReaderTypes, A!Restored
  <2> QED BY <1>2, <1>3, <1>5, <2>1 DEF AppStateInv, ReaderTypes, ReadsOnTheWay, A!FullFetchEnds, A!server
<1> QED BY <1>4, <1>5 DEF A!FullFetchEnds

-----------------------------------------------------------------------------
(* The steps of the event goroutine, of a label write, and a restart *)

LEMMA HandleAppStateSyncCompleteStep ==
  ASSUME A!AppStateAssumption, AppStateInv, A!HandleAppStateSyncComplete
  PROVE  AppStateInv'
<1>1. /\ Head(events) = events[1] /\ 1 \in 1 .. Len(events) /\ events[1] \in Event
      /\ events' \in Seq(Event) /\ Len(events') <= MaxEvents
      /\ \A i \in 1 .. Len(events') : i + 1 \in 1 .. Len(events) /\ events'[i] = events[i + 1]
  BY Handled DEF AppStateInv, A!AppStateAssumption, A!HandleAppStateSyncComplete
<1>2. decoded
  BY <1>1 DEF AppStateInv, ReadsOnTheWay, A!HandleAppStateSyncComplete
<1>3. account' \in Columns
  BY DEF AppStateInv, ReaderTypes, Columns, A!Badge, A!HandleAppStateSyncComplete
<1>4. forced' \in 0 .. ForceBudget
  BY DEF A!HandleAppStateSyncComplete, A!AppStateAssumption
<1> QED BY <1>1, <1>2, <1>3, <1>4
       DEF AppStateInv, ReaderTypes, ReadsOnTheWay, A!HandleAppStateSyncComplete, A!GateAfter, A!server

LEMMA HandleAppStateSyncErrorStep ==
  ASSUME A!AppStateAssumption, AppStateInv, A!HandleAppStateSyncError
  PROVE  AppStateInv'
<1>1. /\ Head(events) = events[1] /\ 1 \in 1 .. Len(events) /\ events[1] \in Event
      /\ events' \in Seq(Event) /\ Len(events') <= MaxEvents
      /\ \A i \in 1 .. Len(events') : i + 1 \in 1 .. Len(events) /\ events'[i] = events[i + 1]
  BY Handled DEF AppStateInv, A!AppStateAssumption, A!HandleAppStateSyncError
<1>2. Head(events).k = "error" /\ Head(events).patch \in Nat /\ Head(events).full \in BOOLEAN
  BY <1>1 DEF Event, A!HandleAppStateSyncError
<1> DEFINE e == Head(events)
           force == A!Capped(failures + 1) >= ForceAfter /\ ~e.full /\ A!MayForceAppState
<1>3. \/ /\ account' = A!SaveLabelWedge(account, e.patch)
         /\ UNCHANGED <<failures, recent, forced, proc, wedge>>
      \/ /\ wedge' = A!Noted(wedge, e.patch)
         /\ account' = [A!SaveLabelWedge(account, e.patch) EXCEPT !.badge = "syncing"]
         /\ failures' = A!Capped(failures + 1)
         /\ recent' = (recent \/ force) /\ forced' = forced + (IF force THEN 1 ELSE 0)
         /\ A!Goes("event", A!Asking(force))
  BY DEF A!HandleAppStateSyncError
<1>4. force \in BOOLEAN /\ (force => forced < ForceBudget)
  BY DEF A!MayForceAppState
<1> HIDE DEF e, force
<1>5. e.patch \in Nat
  BY <1>2 DEF e
<1>6. /\ account' \in Columns /\ account'.everRead = account.everRead
      /\ account'.badge = account.badge \/ account'.badge = "syncing"
  <2>1. CASE account' = A!SaveLabelWedge(account, e.patch)
    BY <1>5, <2>1 DEF AppStateInv, ReaderTypes, Columns, A!SaveLabelWedge
  <2>2. CASE account' = [A!SaveLabelWedge(account, e.patch) EXCEPT !.badge = "syncing"]
    BY <1>5, <2>2 DEF AppStateInv, ReaderTypes, Columns, A!SaveLabelWedge
  <2> QED BY <1>3, <2>1, <2>2
<1>7. wedge' \in [patch : Nat, due : BOOLEAN]
  <2>1. wedge \in [patch : Nat, due : BOOLEAN]
    BY DEF AppStateInv, ReaderTypes
  <2>2. A!Noted(wedge, e.patch) \in [patch : Nat, due : BOOLEAN]
    BY <1>5, <2>1 DEF A!Noted
  <2> QED BY <1>3, <2>1, <2>2
<1>8. proc' \in [A!Procs -> Place] /\ proc'["pass"] = proc["pass"]
  <2>1. A!Asking(force) \in Place
    BY <1>4, Named
  <2> QED BY <1>3, <2>1, WentOn DEF AppStateInv, ReaderTypes, A!Procs
<1>9. failures' \in Nat /\ recent' \in BOOLEAN
  BY <1>3, <1>4 DEF AppStateInv, ReaderTypes, A!AppStateAssumption, A!Capped
<1>10. forced' \in 0 .. ForceBudget
  BY <1>3, <1>4 DEF AppStateInv, ReaderTypes, A!AppStateAssumption
<1>11. (ReadsOnTheWay => decoded)'
  BY <1>1, <1>6, <1>8, WayKept DEF AppStateInv, ReadsOnTheWay, A!HandleAppStateSyncError
<1> QED BY <1>1, <1>6, <1>7, <1>8, <1>9, <1>10, <1>11
       DEF AppStateInv, ReaderTypes, A!HandleAppStateSyncError, A!server

LEMMA WriteStartsStep ==
  ASSUME AppStateInv, A!WriteStarts
  PROVE  AppStateInv'
<1>1. proc' \in [A!Procs -> Place] /\ proc'["pass"] = proc["pass"]
  BY Named, WentOn DEF AppStateInv, A!WriteStarts, A!Procs
<1>2. left' \in [A!Kinds -> Nat]
  BY Spent DEF AppStateInv, A!WriteStarts, A!Kinds
<1> QED BY <1>1, <1>2 DEF AppStateInv, ReaderTypes, ReadsOnTheWay, A!WriteStarts, A!session, A!server

LEMMA AwaitWritableStep ==
  ASSUME AppStateInv, A!AwaitWritable
  PROVE  AppStateInv'
<1>1. proc["write"] \in Place /\ proc["write"].at = "await"
  BY DEF AppStateInv, ReaderTypes, A!AwaitWritable, A!Procs
<1>2. [proc["write"] EXCEPT !.at = "write"] \in Place /\ A!Idle \in Place
  BY <1>1, Places, Named
<1>3. proc' \in [A!Procs -> Place] /\ proc'["pass"] = proc["pass"]
  BY <1>2, WentOn DEF AppStateInv, A!AwaitWritable, A!Procs
<1> QED BY <1>3 DEF AppStateInv, ReaderTypes, ReadsOnTheWay, A!AwaitWritable, A!session, A!server

LEMMA SendAppStateStep ==
  ASSUME A!AppStateAssumption, AppStateInv, A!SendAppState
  PROVE  AppStateInv'
<1>1. proc' \in [A!Procs -> Place] /\ proc'["pass"] = proc["pass"]
  <2>1. A!Idle \in Place /\ A!Asking(TRUE) \in Place
    BY Named
  <2>2. A!Goes("write", A!Idle) \/ A!Goes("write", A!Asking(TRUE))
    BY DEF A!SendAppState
  <2> QED BY <2>1, <2>2, WentOn DEF AppStateInv, A!Procs
<1>2. CASE /\ Len(events) < MaxEvents
           /\ head' = head + 1 /\ stored' = head + 1 /\ A!Dispatch([k |-> "complete"]) /\ decoded' = TRUE
           /\ UNCHANGED <<broken, left>>
  <2>1. [k |-> "complete"] \in Event
    BY DEF Event
  <2>2. events' \in Seq(Event) /\ Len(events') <= MaxEvents
    BY <1>2, <2>1, Dispatched DEF AppStateInv, A!AppStateAssumption
  <2> QED BY <1>1, <1>2, <2>2 DEF AppStateInv, ReaderTypes, ReadsOnTheWay, A!SendAppState, A!session
<1>3. CASE /\ A!Spend("breaks")
           /\ head' = head + 1 /\ broken' = head + 1 /\ UNCHANGED <<stored, events, decoded>>
  <2>1. left' \in [A!Kinds -> Nat]
    BY <1>3, Spent DEF AppStateInv, A!Kinds
  <2> QED BY <1>1, <1>3, <2>1 DEF AppStateInv, ReaderTypes, ReadsOnTheWay, A!SendAppState, A!session
<1>4. CASE UNCHANGED <<head, broken, stored, events, decoded, left>>
  BY <1>1, <1>4 DEF AppStateInv, ReaderTypes, ReadsOnTheWay, A!SendAppState, A!session
<1> QED BY <1>2, <1>3, <1>4 DEF A!SendAppState

LEMMA RestartStep ==
  ASSUME A!AppStateAssumption, AppStateInv, A!Restart
  PROVE  AppStateInv'
<1>1. proc' \in [A!Procs -> Place] /\ proc'["pass"] = A!Idle
  BY Named DEF A!Restart, A!Procs
<1>2. wedge' \in [patch : Nat, due : BOOLEAN]
  BY DEF AppStateInv, ReaderTypes, Columns, A!Restart, A!LoadLabelWedge, A!NoWedge
<1>3. left' \in [A!Kinds -> Nat]
  BY Spent DEF AppStateInv, A!Restart, A!Kinds
<1>4. events' = <<>> /\ events' \in Seq(Event) /\ Len(events') = 0 /\ 0 <= MaxEvents
  BY EmptySeq DEF A!Restart, A!AppStateAssumption
<1>5. forced' \in 0 .. ForceBudget
  BY DEF A!Restart, A!AppStateAssumption
<1>6. (ReadsOnTheWay => decoded)'
  BY <1>1, <1>4 DEF AppStateInv, ReadsOnTheWay, A!Restart, A!Idle
<1> QED BY <1>1, <1>2, <1>3, <1>4, <1>5, <1>6 DEF AppStateInv, ReaderTypes, A!Restart, A!server

-----------------------------------------------------------------------------
LEMMA AppStateInit ==
  ASSUME A!AppStateAssumption, A!Init
  PROVE  AppStateInv
<1>1. left \in [A!Kinds -> Nat] /\ broken \in Nat
  BY DEF A!Init, A!AppStateAssumption, A!Kinds
<1>2. proc \in [A!Procs -> Place] /\ proc["pass"] = A!Idle
  BY Named DEF A!Init, A!Procs
<1>3. events = <<>> /\ events \in Seq(Event) /\ Len(events) = 0 /\ 0 <= MaxEvents
  BY EmptySeq DEF A!Init, A!AppStateAssumption
<1>4. forced \in 0 .. ForceBudget
  BY DEF A!Init, A!AppStateAssumption
<1>5. ~ReadsOnTheWay
  BY <1>2, <1>3 DEF ReadsOnTheWay, A!Init, A!Idle
<1> QED BY <1>1, <1>2, <1>3, <1>4, <1>5 DEF AppStateInv, ReaderTypes, A!Init, A!NoWedge, Columns

LEMMA AppStateNext ==
  ASSUME A!AppStateAssumption, AppStateInv, [A!Next]_(A!vars)
  PROVE  AppStateInv'
<1>1. CASE UNCHANGED A!vars
  BY <1>1 DEF AppStateInv, ReaderTypes, ReadsOnTheWay, A!vars, A!server, A!session
<1>2. ASSUME NEW p \in A!Procs, A!Recovery(p)
      PROVE  AppStateInv'
  BY <1>2, ClaimRecoverySlotStep, ClearVersionStep, SendRecoveryRequestStep DEF A!Recovery
<1>3. CASE A!Pass
  BY <1>2, <1>3, ReconcileStartsStep, ReconcileReadsStep, RecordLabelReadabilityStep,
     ReadLabelsUnverifiedStep, ReconcileSettlesStep DEF A!Pass, A!Procs
<1>4. CASE A!Events
  BY <1>2, <1>4, HandleAppStateSyncCompleteStep, HandleAppStateSyncErrorStep DEF A!Events, A!Procs
<1>5. CASE A!Presses \/ A!SyncReads \/ A!FullFetchStarts \/ A!FullFetchEnds \/ A!Recovery("sync")
  BY <1>2, <1>5, PressesStep, SyncReadsStep, FullFetchStartsStep, FullFetchEndsStep DEF A!Procs
<1>6. CASE A!WriteStarts \/ A!AwaitWritable \/ A!SendAppState \/ A!Recovery("write")
  BY <1>2, <1>6, WriteStartsStep, AwaitWritableStep, SendAppStateStep DEF A!Procs
<1>7. CASE \/ A!PhoneChanges \/ A!Rebuilds \/ A!PhoneAnswers \/ A!GateTimesOut
           \/ \E d \in A!Durations : A!TimePasses(d)
  BY <1>7, PhoneChangesStep, RebuildsStep, PhoneAnswersStep, GateTimesOutStep, TimePassesStep
<1>8. CASE A!Restart
  BY <1>8, RestartStep
<1> QED BY <1>1, <1>3, <1>4, <1>5, <1>6, <1>7, <1>8 DEF A!Next

-----------------------------------------------------------------------------
(* The composition: a step is one of the component that part names, and      *)
(* keeps that component's invariant.                                         *)

SyncInv ==
  /\ part = "chat" => C!ChatInv
  /\ part = "media" => M!MediaInv
  /\ part = "appstate" => AppStateInv

LEMMA SyncInit == Init => SyncInv
<1>1. part = "chat" /\ C!Init => C!ChatInv
  BY ChatAssumption, C!ChatInit
<1>2. part = "media" /\ M!Init => M!MediaInv
  BY MediaAssumption, M!MediaInit
<1>3. part = "appstate" /\ A!Init => AppStateInv
  BY AppStateAssumption, AppStateInit
<1> QED BY <1>1, <1>2, <1>3 DEF Init, SyncInv

LEMMA SyncNext == SyncInv /\ [Next]_vars => SyncInv'
<1> SUFFICES ASSUME SyncInv, [Next]_vars PROVE SyncInv'
  OBVIOUS
<1>1. CASE ChatOnly /\ C!Next
  <2>1. C!ChatInv'
    BY <1>1, ChatAssumption, C!ChatNext DEF SyncInv, ChatOnly
  <2> QED BY <1>1, <2>1 DEF SyncInv, ChatOnly
<1>2. CASE MediaOnly /\ M!Next
  <2>1. M!MediaInv'
    BY <1>2, MediaAssumption, M!MediaNext DEF SyncInv, MediaOnly
  <2> QED BY <1>2, <2>1 DEF SyncInv, MediaOnly
<1>3. CASE AppstateOnly /\ A!Next
  <2>1. AppStateInv'
    BY <1>3, AppStateAssumption, AppStateNext DEF SyncInv, AppstateOnly
  <2> QED BY <1>3, <2>1 DEF SyncInv, AppstateOnly
<1>4. CASE SessionsOnly /\ S!Next
  BY <1>4 DEF SyncInv, SessionsOnly
<1>5. CASE UNCHANGED vars
  <2>1. /\ UNCHANGED part
        /\ UNCHANGED C!vars /\ UNCHANGED M!vars /\ UNCHANGED A!vars
    BY <1>5 DEF vars, C!vars, C!procs, C!ghosts, C!store, M!vars, M!rows, M!procs, M!world,
                A!vars, A!server, A!session
  <2>2. part = "chat" => C!ChatInv'
    BY <2>1, ChatAssumption, C!ChatNext DEF SyncInv
  <2>3. part = "media" => M!MediaInv'
    BY <2>1, MediaAssumption, M!MediaNext DEF SyncInv
  <2>4. part = "appstate" => AppStateInv'
    BY <2>1, AppStateAssumption, AppStateNext DEF SyncInv
  <2> QED BY <2>1, <2>2, <2>3, <2>4 DEF SyncInv
<1> QED BY <1>1, <1>2, <1>3, <1>4, <1>5 DEF Next

(* The composition keeps the invariant of each of its components. *)
THEOREM SyncInductive == Spec => []SyncInv
BY SyncInit, SyncNext, PTL DEF Spec

(***************************************************************************)
(* The unread and mention counters, the head and the waiting badge of a    *)
(* conversation are those of its rows (RecomputeConversationUnread,        *)
(* RefreshConversationHead), whatever interleaves.                         *)
(***************************************************************************)
THEOREM ConversationStaysRight == Spec => []ConversationAgrees
<1>1. SyncInv => ConversationAgrees
  BY C!ChatPromises DEF SyncInv, ConversationAgrees
<1> QED BY <1>1, SyncInductive, PTL

(***************************************************************************)
(* A stored file inside its window is registered, and nothing in the       *)
(* bucket is forgotten by rows, registry and goroutines alike              *)
(* (ClaimStoredObject, ReleaseStorageObjects).                             *)
(***************************************************************************)
THEOREM StoreStaysRight == Spec => []StoreAgrees
<1>1. SyncInv => StoreAgrees
  BY MediaAssumption, M!MediaPromises DEF SyncInv, StoreAgrees
<1> QED BY <1>1, SyncInductive, PTL

(***************************************************************************)
(* One client token is one message, and what was sent has its file         *)
(* (SendMedia).                                                            *)
(***************************************************************************)
THEOREM TokenIsSentOnce == Spec => []SendsOnce
<1>1. SyncInv => SendsOnce
  BY MediaAssumption, M!MediaPromises DEF SyncInv, SendsOnce
<1> QED BY <1>1, SyncInductive, PTL

(***************************************************************************)
(* The badge says synced only of labels that have decoded: a "complete"    *)
(* event still in the queue, a pass still to be written down and the       *)
(* column labels_read_at all go back to a read that verified               *)
(* (labelIndicator, MarkLabelCollectionRead).                              *)
(***************************************************************************)
THEOREM BadgeIsHonest == Spec => []SyncedWasRead
<1>1. SyncInv => SyncedWasRead
  BY DEF SyncInv, AppStateInv, ReadsOnTheWay, SyncedWasRead, A!SyncedWasRead
<1> QED BY <1>1, SyncInductive, PTL

(***************************************************************************)
(* A gate that keeps label writes waiting has a timer that will open it    *)
(* (markRecovering), and a re-read is forced at most appStateForceBudget   *)
(* times between two that verify.                                          *)
(***************************************************************************)
THEOREM GateHasATimer == Spec => [](part = "appstate" => (gate => timers > 0) /\ forced <= ForceBudget)
<1>1. SyncInv => (part = "appstate" => (gate => timers > 0) /\ forced <= ForceBudget)
  BY AppStateAssumption DEF SyncInv, AppStateInv, ReaderTypes, A!AppStateAssumption
<1> QED BY <1>1, SyncInductive, PTL
=============================================================================
