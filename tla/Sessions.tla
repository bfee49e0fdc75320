------------------------------ MODULE Sessions ------------------------------
(***************************************************************************)
(* The lifetime of one account's WhatsApp sessions: the manager's map of   *)
(* live sessions, the connect loop, QR pairing, the events that change the *)
(* account row, and the requests that connect, pair, disconnect, log out   *)
(* and delete, while the process may be shutting down.                     *)
(*   internal/wa/manager.go, internal/wa/session.go, internal/wa/events.go *)
(*   internal/repository/accounts.go, internal/httpapi/accounts.go         *)
(*                                                                         *)
(* Every database statement, every critical section of the manager's lock  *)
(* and every call of the WhatsApp client is a step; what runs between two  *)
(* of them is another request, an event, or a goroutine of another session.*)
(* The table whatsapp_sessions is left out: nothing here reads it.         *)
(***************************************************************************)
EXTENDS Integers, FiniteSets

CONSTANTS
    Request,        \* requests served at the same time
    MaxSessions,    \* bound on the sessions created in a behaviour
    MaxDevices,     \* bound on the devices the phone links
    MaxRequests,    \* bound on the requests made
    MaxFaults,      \* bound on failed dials, dropped sockets and phone unlinks
    Ops             \* the requests that are made

SessionsAssumption ==
    /\ MaxSessions \in Nat /\ MaxDevices \in Nat /\ MaxRequests \in Nat /\ MaxFaults \in Nat
    /\ Ops \subseteq {"connect", "pair", "disconnect", "logout", "delete"}

VARIABLES
    row,        \* the account's row in whatsapp_accounts
    stored,     \* devices in whatsmeow's store
    linked,     \* devices the phone has linked
    live,       \* manager.sessions: the session held, 0 when none
    sess,       \* every session ever created
    made,       \* how many there are
    req,        \* requests, each at its next step
    loops,      \* connect loops running (startConnectLoop)
    tasks,      \* goroutines that restore a session at start-up, or stop one
    down,       \* the manager's root context is cancelled
    spent       \* devices linked, requests made and faults so far

vars == <<row, stored, linked, live, sess, made, req, loops, tasks, down, spent>>

Sess == 1..MaxSessions

-----------------------------------------------------------------------------
\* dev: the device the session runs on, 0 while it is not paired and once it
\* is unlinked; named: the device of the pairing event.
\* sock: the client's socket. "retry" is whatsmeow's own reconnection.
\* qr: a code is shown; pairing and scan: the flag and the goroutine of consumeQR.
\* event: the handler of an event at work, from the event to its last statement.
NewSession(d) ==
    [dev |-> d, named |-> d, done |-> FALSE, hears |-> TRUE, sock |-> "off",
     qr |-> FALSE, pairing |-> FALSE, scan |-> FALSE, event |-> "none"]

Idle == [op |-> "none", at |-> "idle", s |-> 0, dev |-> 0]

\* An account that was paired is restored at start-up (Bootstrap); one that
\* was not waits for a request.
Init ==
    /\ \E paired \in {0, 1} :
         /\ row = [there |-> TRUE, jid |-> paired, status |-> "disconnected"]
         /\ stored = {d \in {paired} : d # 0}
         /\ linked = stored /\ spent = [devices |-> paired, requests |-> 0, faults |-> 0]
         /\ req = [r \in Request |-> Idle]
         /\ tasks = {[s |-> 0, drop |-> FALSE, at |-> "restore", dev |-> d] : d \in stored}
    /\ live = 0 /\ made = 0 /\ loops = {} /\ down = FALSE
    /\ sess = [s \in Sess |-> [NewSession(0) EXCEPT !.done = TRUE, !.hears = FALSE]]

\* Statements on a row that was deleted change nothing.
SetStatus(st) == row' = IF row.there THEN [row EXCEPT !.status = st] ELSE row
SetIdentity(d) == row' = IF row.there THEN [row EXCEPT !.jid = d] ELSE row
ClearIdentity == row' = IF row.there THEN [row EXCEPT !.jid = 0, !.status = "logged_out"] ELSE row

\* stop runs once: the context of the QR channel is cancelled, the handler is
\* removed and the socket closed. A handler already at work is not interrupted.
Stopped(x) ==
    IF x.done THEN x
    ELSE [x EXCEPT !.done = TRUE, !.hears = FALSE, !.sock = "off", !.qr = FALSE, !.pairing = FALSE]

Stop(s) == sess' = [sess EXCEPT ![s] = Stopped(@)]

\* dropSession deletes whatever session the map holds for the account.
Drop == live' = 0

\* newSession and putSession: the session held before is stopped by a goroutine.
Displaced == IF live = 0 THEN {} ELSE {[s |-> live, drop |-> FALSE, at |-> "stop", dev |-> 0]}

PutSession(d) ==
    /\ made < MaxSessions
    /\ made' = made + 1
    /\ sess' = [sess EXCEPT ![made + 1] = NewSession(d)]
    /\ live' = made + 1

\* A dial succeeds, or fails within the bound on faults.
Dialled(s) == sess' = [sess EXCEPT ![s].sock = "open"]
Fault == spent.faults < MaxFaults /\ spent' = [spent EXCEPT !.faults = @ + 1]

-----------------------------------------------------------------------------
(* Requests *)

GoTo(r, at) == req' = [req EXCEPT ![r].at = at]
Finish(r) == req' = [req EXCEPT ![r] = Idle]
At(r, op, at) == req[r].op \in op /\ req[r].at = at

\* Every handler reads the account first and answers 404 when it is gone. A
\* connect of an account that was never paired is a pairing.
Arrive(r) ==
    /\ req[r] = Idle /\ row.there
    /\ spent.requests < MaxRequests /\ spent' = [spent EXCEPT !.requests = @ + 1]
    /\ \E op \in Ops :
         LET o == IF op = "connect" /\ row.jid = 0 THEN "pair" ELSE op
         IN req' = [req EXCEPT ![r] = [op |-> o, at |-> "start", s |-> 0, dev |-> 0]]
    /\ UNCHANGED <<row, stored, linked, live, sess, made, loops, tasks, down>>

\* Connect: a session whose socket is up needs nothing, one whose socket is
\* down gets a connect loop, and without a session the row is read.
ConnectLooks(r) ==
    /\ At(r, {"connect"}, "start")
    /\ IF live # 0
       THEN req' = [req EXCEPT ![r] = IF sess[live].sock \in {"open", "in"} THEN Idle
                                      ELSE [@ EXCEPT !.at = "loop", !.s = live]]
       ELSE req' = [req EXCEPT ![r] = IF row.jid = 0 THEN Idle
                                      ELSE [@ EXCEPT !.at = "restore", !.dev = row.jid]]
    /\ UNCHANGED <<row, stored, linked, live, sess, made, loops, tasks, down, spent>>

\* restore: the device is loaded and a session put in the map; an account
\* whose device is not in the store is marked logged out.
ConnectRestores(r) ==
    /\ At(r, {"connect"}, "restore")
    /\ \/ /\ req[r].dev \in stored /\ ~down
          /\ PutSession(req[r].dev)
          /\ tasks' = tasks \cup Displaced
          /\ req' = [req EXCEPT ![r].at = "loop", ![r].s = made + 1]
          /\ UNCHANGED row
       \/ /\ req[r].dev \notin stored /\ ~down
          /\ ClearIdentity /\ Finish(r)
          /\ UNCHANGED <<sess, made, live, tasks>>
       \/ /\ down
          /\ Finish(r)
          /\ UNCHANGED <<row, sess, made, live, tasks>>
    /\ UNCHANGED <<stored, linked, loops, down, spent>>

ConnectLoops(r) ==
    /\ At(r, {"connect"}, "loop")
    /\ SetStatus("connecting")
    /\ loops' = loops \cup {[s |-> req[r].s, at |-> "check", by |-> r]}
    /\ Finish(r)
    /\ UNCHANGED <<stored, linked, live, sess, made, tasks, down, spent>>

\* StartPairing refuses only while a logged-in session is held for a paired row.
PairStarts(r) ==
    /\ At(r, {"pair"}, "start")
    /\ req' = [req EXCEPT ![r] = IF row.jid # 0 /\ live # 0 /\ sess[live].sock = "in" THEN Idle
                                 ELSE [@ EXCEPT !.at = IF live # 0 THEN "stop" ELSE "new", !.s = live]]
    /\ UNCHANGED <<row, stored, linked, live, sess, made, loops, tasks, down, spent>>

PairPuts(r) ==
    /\ At(r, {"pair"}, "new")
    /\ PutSession(0)
    /\ tasks' = tasks \cup Displaced
    /\ req' = [req EXCEPT ![r].at = "dial", ![r].s = made + 1]
    /\ UNCHANGED <<row, stored, linked, loops, down, spent>>

\* startPairing: the QR channel is opened and the socket dialled; the codes are
\* read by a goroutine of their own (consumeQR).
PairDials(r) ==
    LET s == req[r].s
    IN /\ At(r, {"pair"}, "dial")
       /\ \/ /\ sess' = [sess EXCEPT ![s].sock = "open", ![s].pairing = TRUE, ![s].scan = TRUE]
             /\ Finish(r) /\ UNCHANGED spent
          \/ /\ Fault
             /\ sess' = [sess EXCEPT ![s].pairing = TRUE]
             /\ GoTo(r, "undo")
       /\ UNCHANGED <<row, stored, linked, live, made, loops, tasks, down>>

\* Logout and Release unlink the device, or only forget it when the call
\* fails or nobody is logged in; the store forgets it in each case. Logout
\* without a session only clears the row.
RequestUnlinks(r) ==
    LET s == live
        d == sess[s].dev
    IN /\ At(r, {"logout", "delete"}, "start")
       /\ IF live = 0
          THEN /\ GoTo(r, "write")
               /\ UNCHANGED <<stored, linked, sess>>
          ELSE /\ stored' = stored \ {d}
               /\ \/ sess[s].sock = "in" /\ linked' = linked \ {d}
                  \/ UNCHANGED linked
               /\ sess' = [sess EXCEPT ![s].dev = 0,
                                       ![s].sock = IF sess[s].sock = "in" THEN "off" ELSE @]
               /\ req' = [req EXCEPT ![r].at = "stop", ![r].s = s]
       /\ UNCHANGED <<row, live, made, loops, tasks, down, spent>>

DisconnectLooks(r) ==
    /\ At(r, {"disconnect"}, "start")
    /\ req' = [req EXCEPT ![r].at = IF live = 0 THEN "write" ELSE "stop", ![r].s = live]
    /\ UNCHANGED <<row, stored, linked, live, sess, made, loops, tasks, down, spent>>

\* stop then dropSession, in every request that tears a session down.
RequestStops(r) ==
    /\ req[r].at \in {"stop", "undo"}
    /\ Stop(req[r].s)
    /\ GoTo(r, IF req[r].at = "stop" THEN "drop" ELSE "undrop")
    /\ UNCHANGED <<row, stored, linked, live, made, loops, tasks, down, spent>>

RequestDrops(r) ==
    /\ req[r].at \in {"drop", "undrop"}
    /\ Drop
    /\ GoTo(r, IF req[r].at = "drop" /\ req[r].op = "pair" THEN "new" ELSE "write")
    /\ UNCHANGED <<row, stored, linked, sess, made, loops, tasks, down, spent>>

RequestWrites(r) ==
    /\ req[r].at = "write"
    /\ CASE req[r].op = "disconnect" -> SetStatus("disconnected")
         [] req[r].op = "pair" -> SetStatus("error")
         [] req[r].op = "logout" -> ClearIdentity
         [] req[r].op = "delete" -> row' = [there |-> FALSE, jid |-> 0, status |-> "gone"]
    /\ Finish(r)
    /\ UNCHANGED <<stored, linked, live, sess, made, loops, tasks, down, spent>>

RequestSteps(r) ==
    \/ ConnectLooks(r) \/ ConnectRestores(r) \/ ConnectLoops(r)
    \/ PairStarts(r) \/ PairPuts(r) \/ PairDials(r)
    \/ RequestUnlinks(r) \/ DisconnectLooks(r)
    \/ RequestStops(r) \/ RequestDrops(r) \/ RequestWrites(r)

-----------------------------------------------------------------------------
(* Goroutines *)

\* Bootstrap restores the account like Connect does; a failure is its status.
BootRestores(t) ==
    /\ t.at = "restore"
    /\ \/ /\ t.dev \in stored /\ ~down
          /\ PutSession(t.dev)
          /\ tasks' = (tasks \ {t}) \cup Displaced \cup {[t EXCEPT !.at = "loop", !.s = made + 1]}
          /\ UNCHANGED row
       \/ /\ t.dev \notin stored /\ ~down
          /\ ClearIdentity /\ tasks' = tasks \ {t}
          /\ UNCHANGED <<sess, made, live>>
       \/ /\ down
          /\ SetStatus("error") /\ tasks' = tasks \ {t}
          /\ UNCHANGED <<sess, made, live>>
    /\ UNCHANGED <<stored, linked, req, loops, down, spent>>

BootLoops(t) ==
    /\ t.at = "loop"
    /\ SetStatus("connecting")
    /\ loops' = loops \cup {[s |-> t.s, at |-> "check", by |-> "boot"]}
    /\ tasks' = tasks \ {t}
    /\ UNCHANGED <<stored, linked, live, sess, made, req, down, spent>>

TaskStops(t) ==
    /\ t.at = "stop"
    /\ Stop(t.s)
    /\ tasks' = (tasks \ {t}) \cup IF t.drop THEN {[t EXCEPT !.at = "drop"]} ELSE {}
    /\ UNCHANGED <<row, stored, linked, live, made, req, loops, down, spent>>

TaskDrops(t) ==
    /\ t.at = "drop"
    /\ Drop
    /\ tasks' = tasks \ {t}
    /\ UNCHANGED <<row, stored, linked, sess, made, req, loops, down, spent>>

\* The connect loop: look whether the session or the manager is finished, dial,
\* and after a failure write the error and wait for the delay or for the end.
\* Mutants: a loop that listens to one of the two only.
Ended_stopOnly(s) == sess[s].done
Ended_downOnly(s) == down
Ended(s) == sess[s].done \/ down
Turn(l, at) == loops' = (loops \ {l}) \cup {[l EXCEPT !.at = at]}
Leave(l) == loops' = loops \ {l}

LoopChecks(l) ==
    /\ l.at = "check"
    /\ IF Ended(l.s) THEN Leave(l) ELSE Turn(l, "dial")
    /\ UNCHANGED <<row, stored, linked, live, sess, made, req, tasks, down, spent>>

LoopDials(l) ==
    /\ l.at = "dial"
    /\ \/ sess[l.s].sock \in {"open", "in"} /\ Leave(l) /\ UNCHANGED <<sess, spent>>
       \/ sess[l.s].sock \in {"off", "retry"} /\ Dialled(l.s) /\ Leave(l) /\ UNCHANGED spent
       \/ sess[l.s].sock \in {"off", "retry"} /\ Fault /\ Turn(l, "failed") /\ UNCHANGED sess
    /\ UNCHANGED <<row, stored, linked, live, made, req, tasks, down>>

LoopReports(l) ==
    /\ l.at = "failed"
    /\ SetStatus("error")
    /\ Turn(l, "wait")
    /\ UNCHANGED <<stored, linked, live, sess, made, req, tasks, down, spent>>

\* Mutant: the loop gives up after a failed dial.
LoopWaits_gaveUp(l) ==
    /\ l.at = "wait" /\ Leave(l)
    /\ UNCHANGED <<row, stored, linked, live, sess, made, req, tasks, down, spent>>
LoopWaits(l) ==
    /\ l.at = "wait"
    /\ \/ Turn(l, "check")
       \/ Ended(l.s) /\ Leave(l)
    /\ UNCHANGED <<row, stored, linked, live, sess, made, req, tasks, down, spent>>

LoopSteps(l) == LoopChecks(l) \/ LoopDials(l) \/ LoopReports(l) \/ LoopWaits(l)

\* consumeQR. A code is shown even if the session is stopped meanwhile; the
\* channel ends with the pairing, with its timeout, or with its context, and
\* what was shown is cleared after the last item.
ShowCode(s) ==
    /\ sess[s].scan /\ sess[s].sock = "open" /\ sess[s].dev = 0
    /\ sess' = [sess EXCEPT ![s].qr = TRUE]
    /\ SetStatus("qr_pending")
    /\ UNCHANGED <<stored, linked, live, made, req, loops, tasks, down, spent>>

LateCode(s) ==
    /\ sess[s].scan /\ sess[s].done /\ ~sess[s].qr
    /\ Fault
    /\ sess' = [sess EXCEPT ![s].qr = TRUE]
    /\ SetStatus("qr_pending")
    /\ UNCHANGED <<stored, linked, live, made, req, loops, tasks, down>>

\* The attempt times out or fails: whatsmeow closes the socket.
ScanFails(s) ==
    /\ sess[s].scan /\ sess[s].sock = "open" /\ sess[s].dev = 0
    /\ sess' = [sess EXCEPT ![s].qr = FALSE, ![s].pairing = FALSE, ![s].scan = FALSE, ![s].sock = "off"]
    /\ \E st \in {"disconnected", "error"} : SetStatus(st)
    /\ UNCHANGED <<stored, linked, live, made, req, loops, tasks, down, spent>>

\* Mutant: the code is left up after the last item.
AfterScan_left(x) == [x EXCEPT !.scan = FALSE]
AfterScan(x) == [x EXCEPT !.qr = FALSE, !.pairing = FALSE, !.scan = FALSE]

ScanEnds(s) ==
    /\ sess[s].scan /\ (Ended(s) \/ sess[s].dev # 0)
    /\ sess' = [sess EXCEPT ![s] = AfterScan(@)]
    /\ UNCHANGED <<row, stored, linked, live, made, req, loops, tasks, down, spent>>

-----------------------------------------------------------------------------
(* The phone and the network, and the events they raise *)

\* An event reaches a session only while its handler is registered, and one
\* at a time.
Hears(s, ev) == IF sess[s].hears THEN ev ELSE sess[s].event
Free(s) == sess[s].event = "none"

\* The code is scanned: a new device is linked and stored.
PhoneScans(s) ==
    /\ sess[s].scan /\ sess[s].qr /\ sess[s].sock = "open" /\ sess[s].dev = 0 /\ Free(s)
    /\ spent.devices < MaxDevices /\ spent' = [spent EXCEPT !.devices = @ + 1]
    /\ stored' = stored \cup {spent.devices + 1} /\ linked' = linked \cup {spent.devices + 1}
    /\ sess' = [sess EXCEPT ![s].dev = spent.devices + 1, ![s].named = spent.devices + 1,
                            ![s].event = Hears(s, "paired")]
    /\ UNCHANGED <<row, live, made, req, loops, tasks, down>>

\* A dialled socket logs in; the server refuses a device the phone unlinked,
\* and the client forgets it.
LogsIn(s) ==
    LET d == sess[s].dev
    IN /\ sess[s].sock = "open" /\ d # 0 /\ Free(s)
       /\ \/ /\ d \in linked /\ d \in stored
             /\ sess' = [sess EXCEPT ![s].sock = "in", ![s].event = Hears(s, "connected")]
             /\ UNCHANGED stored
          \/ /\ ~(d \in linked /\ d \in stored)
             /\ stored' = stored \ {d}
             /\ sess' = [sess EXCEPT ![s].sock = "off", ![s].dev = 0, ![s].event = Hears(s, "loggedout")]
       /\ UNCHANGED <<row, linked, live, made, req, loops, tasks, down, spent>>

PhoneUnlinks(d) ==
    /\ Fault
    /\ linked' = linked \ {d}
    /\ stored' = IF \E s \in Sess : sess[s].dev = d /\ sess[s].sock = "in" THEN stored \ {d} ELSE stored
    /\ \A s \in Sess : sess[s].dev = d /\ sess[s].sock = "in" => Free(s)
    /\ sess' = [s \in Sess |-> IF sess[s].dev = d /\ sess[s].sock = "in"
                               THEN [sess[s] EXCEPT !.sock = "off", !.dev = 0, !.event = Hears(s, "loggedout")]
                               ELSE sess[s]]
    /\ UNCHANGED <<row, live, made, req, loops, tasks, down>>

\* The socket drops: whatsmeow reconnects by itself (EnableAutoReconnect).
SocketDrops(s) ==
    /\ Fault /\ sess[s].sock = "in" /\ Free(s)
    /\ sess' = [sess EXCEPT ![s].sock = "retry", ![s].event = Hears(s, "disconnected")]
    /\ UNCHANGED <<row, stored, linked, live, made, req, loops, tasks, down>>

Reconnects(s) ==
    /\ sess[s].sock = "retry"
    /\ sess' = [sess EXCEPT ![s].sock = "open"]
    /\ UNCHANGED <<row, stored, linked, live, made, req, loops, tasks, down, spent>>

-----------------------------------------------------------------------------
(* The handlers, statement by statement *)

EventGoes(s, ev) == sess' = [sess EXCEPT ![s].event = ev]

OnConnected(s) ==
    /\ \/ /\ sess[s].event = "connected"
          /\ (IF sess[s].dev # 0 THEN SetIdentity(sess[s].dev) ELSE UNCHANGED row)
          /\ EventGoes(s, "up")
       \/ /\ sess[s].event = "up"
          /\ SetStatus("connected") /\ EventGoes(s, "none")
    /\ UNCHANGED <<stored, linked, live, made, req, loops, tasks, down, spent>>

OnPairSuccess(s) ==
    /\ \/ /\ sess[s].event = "paired"
          /\ SetIdentity(sess[s].named)
          /\ sess' = [sess EXCEPT ![s].event = "named", ![s].qr = FALSE, ![s].pairing = FALSE]
       \/ /\ sess[s].event = "named"
          /\ SetStatus("connecting") /\ EventGoes(s, "none")
    /\ UNCHANGED <<stored, linked, live, made, req, loops, tasks, down, spent>>

\* The row is cleared; a goroutine of its own stops the session and drops
\* whatever the map then holds.
OnLoggedOut(s) ==
    /\ sess[s].event = "loggedout"
    /\ ClearIdentity /\ EventGoes(s, "none")
    /\ tasks' = tasks \cup {[s |-> s, drop |-> TRUE, at |-> "stop", dev |-> 0]}
    /\ UNCHANGED <<stored, linked, live, made, req, loops, down, spent>>

\* A session that is pairing or finished says nothing of a dropped socket.
OnDisconnected(s) ==
    /\ \/ /\ sess[s].event = "disconnected"
          /\ EventGoes(s, IF sess[s].pairing \/ sess[s].done THEN "none" ELSE "lost")
          /\ UNCHANGED row
       \/ /\ sess[s].event = "lost"
          /\ SetStatus("connecting") /\ EventGoes(s, "none")
    /\ UNCHANGED <<stored, linked, live, made, req, loops, tasks, down, spent>>

Handlers(s) == OnConnected(s) \/ OnPairSuccess(s) \/ OnLoggedOut(s) \/ OnDisconnected(s)

\* Shutdown cancels the root context and stops the sessions the map holds.
Shutdown ==
    /\ ~down /\ down' = TRUE
    /\ live' = 0
    /\ tasks' = tasks \cup Displaced
    /\ UNCHANGED <<row, stored, linked, sess, made, req, loops, spent>>

TaskSteps(t) == BootRestores(t) \/ BootLoops(t) \/ TaskStops(t) \/ TaskDrops(t)

Next ==
    \/ \E r \in Request : Arrive(r) \/ RequestSteps(r)
    \/ \E t \in tasks : TaskSteps(t)
    \/ \E l \in loops : LoopSteps(l)
    \/ \E s \in Sess : ShowCode(s) \/ LateCode(s) \/ ScanFails(s) \/ ScanEnds(s)
    \/ \E s \in Sess : PhoneScans(s) \/ LogsIn(s) \/ SocketDrops(s) \/ Reconnects(s) \/ Handlers(s)
    \/ \E d \in linked : PhoneUnlinks(d)
    \/ Shutdown

Spec == Init /\ [][Next]_vars

\* Goroutines and handlers are scheduled, timers run out, a socket that is
\* dialled logs in or is refused, and whatsmeow keeps reconnecting. Nothing is
\* assumed of the people who make requests, of the phone or of faults.
FairSpec ==
    /\ Spec
    /\ WF_vars(\E t \in tasks : TaskSteps(t))
    /\ WF_vars(\E l \in loops : LoopSteps(l))
    /\ \A r \in Request : WF_vars(RequestSteps(r))
    /\ \A s \in Sess : WF_vars(ScanEnds(s)) /\ WF_vars(LogsIn(s)) /\ WF_vars(Reconnects(s)) /\ WF_vars(Handlers(s))

-----------------------------------------------------------------------------
(* Properties *)

LoopsOf(s) == {l \in loops : l.s = s}
TornDown(s) == s <= made /\ sess[s].done
Silent(s) == LoopsOf(s) = {} /\ ~sess[s].qr /\ ~sess[s].scan
AllReturned ==
    loops = {} /\ (\A s \in Sess : ~sess[s].scan) /\ {t \in tasks : t.at \in {"restore", "loop"}} = {}
LeftAlone == row.jid # 0 /\ row.jid \in linked /\ spent.requests = 0 /\ ~down
Back == live # 0 /\ sess[live].sock = "in" /\ row.status = "connected"

\* A session that is torn down falls silent for good: whoever stopped it and
\* whatever it was doing, its connect loops end, its code disappears and its
\* pairing goroutine returns (session.go startConnectLoop, consumeQR, stop).
TornDownFallsSilent ==
    \A s \in Sess : TornDown(s) ~> []Silent(s)

\* Shutdown ends: every goroutine its WaitGroup counts returns, those of
\* sessions the map no longer holds included (manager.go Shutdown).
ShutdownFinishes == down ~> []AllReturned

\* A paired account comes back by itself: restored at start-up, through failed
\* dials and dropped sockets, it ends up logged in and its row says so, as long
\* as nobody asks for something else (manager.go Bootstrap, events.go).
PairedComesBack == []LeftAlone => <>[]Back

\* What the manager says of itself, "Manager supervises every Session"
\* (manager.go): a session that runs is held, or is about to be stopped. It
\* fails: dropSession deletes by account, so the teardown of an old session
\* can drop a newer one, which then runs with nobody able to reach it.
EverySessionIsHeld ==
    \A s \in Sess : (s <= made /\ live # s /\ ~sess[s].done /\ ~down) ~> (live = s \/ sess[s].done \/ down)

=============================================================================
