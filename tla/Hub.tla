-------------------------------- MODULE Hub --------------------------------
(***************************************************************************)
(* The realtime hub of one workspace: browsers' sockets, the events pushed *)
(* to them, and who has which conversation open.                           *)
(*                                                                         *)
(* Every goroutine that reports something, the read pump of each browser   *)
(* among them, walks the clients itself.  The hub's lock is taken to       *)
(* change, or to copy, what the hub knows, and never while sending: what   *)
(* was copied may be old when it is sent.  A client has a lock of its own, *)
(* which its send and its close share.                                     *)
(***************************************************************************)
EXTENDS Integers, Sequences, FiniteSets

CONSTANTS
  Clients,    \* browser connections
  Person,     \* the person of each: two tabs of one person are one viewer
  Convs,      \* conversations
  None,       \* no conversation
  SendBuffer, \* sendBuffer
  Budgets     \* bounds on frames and ordinary events; one for a behaviour

HubAssumption ==
  /\ IsFiniteSet(Clients) /\ IsFiniteSet(Convs) /\ None \notin Convs
  /\ SendBuffer \in Nat \ {0} /\ DOMAIN Person = Clients

VARIABLES
  conn,     \* each client's socket: none yet, open, or closed
  queue,    \* Client.send
  closed,   \* Client.closed
  viewing,  \* Client.viewing
  clients,  \* Hub.clients
  index,    \* Hub.viewing: the clients of each conversation
  hub,      \* Hub.closed
  stack,    \* what each goroutine has still to do, what it does next first
  shown,    \* what each browser shows of each conversation: external
  left      \* what is left of the bounds

hubState == <<clients, index, hub, viewing>>
vars == <<conn, queue, closed, hubState, stack, shown, left>>

Threads == {"read", "register"} \X Clients \cup {<<"app">>, <<"close">>}
Idle(t) == stack[t] = <<>>
Next1(t) == Head(stack[t])
Doing(t, op) == ~Idle(t) /\ Next1(t).op = op
Then(t, ops) == stack' = [stack EXCEPT ![t] = ops \o Tail(@)]
Starts(t, ops) == Idle(t) /\ stack' = [stack EXCEPT ![t] = ops]

(* broadcastViewers, unless it is of no conversation *)
Announce(v) == IF v = None THEN <<>> ELSE <<[op |-> "viewers", conv |-> v]>>

SendTo(msg, to, greeting) ==
  IF to = {} THEN <<>> ELSE <<[op |-> "send", msg |-> msg, to |-> to, greeting |-> greeting]>>

----------------------------------------------------------------------------
(* What takes the hub's lock *)

(* detachViewingLocked *)
Detached(c) == [v \in Convs |-> index[v] \ {c}]

(* Register: the pumps run from here on, the greeting is still to come. *)
Register(c) ==
  /\ conn[c] = "none" /\ Starts(<<"register", c>>, IF hub = "closed" THEN <<>> ELSE <<[op |-> "greet", to |-> c]>>)
  /\ IF hub = "closed" THEN conn' = [conn EXCEPT ![c] = "closed"] /\ UNCHANGED clients
     ELSE conn' = [conn EXCEPT ![c] = "open"] /\ clients' = clients \cup {c}
  /\ UNCHANGED <<queue, closed, index, hub, viewing, shown, left>>

(* openConversations: the picture a new browser is given *)
OpenConversations(t) ==
  /\ Doing(t, "greet")
  /\ LET open == {v \in Convs : index[v] # {}}
         Picture(v) == [conv |-> v, who |-> {Person[c] : c \in index[v]}]
     IN  \E order \in [1 .. Cardinality(open) -> open] :
           /\ \A v \in open : \E i \in DOMAIN order : order[i] = v
           /\ Then(t, [i \in DOMAIN order |-> SendTo(Picture(order[i]), {Next1(t).to}, TRUE)[1]])
  /\ UNCHANGED <<conn, queue, closed, hubState, shown, left>>

(* Mutant: a client that was dropped comes back by the side door. *)
MayView_any(c) == TRUE

MayView(c) == c \in clients

(* setViewing, in the read pump *)
SetViewing(c) ==
  /\ conn[c] = "open" /\ left.frames > 0
  /\ left' = [left EXCEPT !.frames = @ - 1]
  /\ \E conv \in Convs \cup {None} :
       IF hub = "closed" \/ viewing[c] = conv \/ ~MayView(c)
       THEN Starts(<<"read", c>>, <<>>) /\ UNCHANGED <<viewing, index>>
       ELSE /\ viewing' = [viewing EXCEPT ![c] = conv]
            /\ index' = [v \in Convs |-> IF v = conv THEN Detached(c)[v] \cup {c} ELSE Detached(c)[v]]
            /\ Starts(<<"read", c>>, Announce(viewing[c]) \o Announce(conv))
  /\ UNCHANGED <<conn, queue, closed, clients, hub, shown>>

(* Mutant: the conversation is left as it was. *)
Leaves_lingering(c) == index

Leaves(c) == Detached(c)

(* unregister: its client and its viewing go together. *)
Unregister(c) ==
  /\ clients' = clients \ {c}
  /\ index' = Leaves(c)
  /\ viewing' = [viewing EXCEPT ![c] = None]
  /\ UNCHANGED <<conn, queue, closed, hub, shown, left>>
AfterUnregister(c) == <<[op |-> "shutdown", who |-> c]>> \o Announce(viewing[c])

(* The read pump ends with its socket. *)
ReadPumpEnds(c) ==
  /\ conn[c] = "closed" /\ c \in clients
  /\ Starts(<<"read", c>>, AfterUnregister(c))
  /\ Unregister(c)

DropsSlow(t) ==
  /\ Doing(t, "unregister")
  /\ Then(t, AfterUnregister(Next1(t).who))
  /\ Unregister(Next1(t).who)

(* viewersOf, and what Broadcast copies of the clients right after *)
BroadcastViewers(t) ==
  /\ Doing(t, "viewers")
  /\ LET v == Next1(t).conv IN
       Then(t, SendTo([conv |-> v, who |-> {Person[c] : c \in index[v]}], clients, FALSE))
  /\ UNCHANGED <<conn, queue, closed, hubState, shown, left>>

(* An ordinary event, from anywhere in the program *)
Broadcast ==
  /\ left.events > 0 /\ left' = [left EXCEPT !.events = @ - 1]
  /\ Starts(<<"app">>, SendTo([conv |-> None, who |-> {}], clients, FALSE))
  /\ UNCHANGED <<conn, queue, closed, hubState, shown>>

(* Close, on shutdown *)
Close ==
  /\ hub = "open" /\ hub' = "closed"
  /\ clients' = {} /\ index' = [v \in Convs |-> {}]
  /\ \E order \in [1 .. Cardinality(clients) -> clients] :
       /\ \A c \in clients : \E i \in DOMAIN order : order[i] = c
       /\ Starts(<<"close">>, [i \in DOMAIN order |-> [op |-> "shutdown", who |-> order[i]]])
  /\ UNCHANGED <<conn, queue, closed, viewing, shown, left>>

----------------------------------------------------------------------------
(* What takes a client's lock *)

(* Mutant: the send does not look whether the channel is closed. *)
Sendable_closed(c) == Len(queue[c]) < SendBuffer

Sendable(c) == ~closed[c] /\ Len(queue[c]) < SendBuffer

(* trySend to one of the copied clients.  A client whose buffer is full is   *)
(* dropped on the spot, and its drop is announced before the next is sent to. *)
TrySend(t) ==
  /\ Doing(t, "send")
  /\ LET s == Next1(t) IN
       \E c \in s.to :
         LET rest == SendTo(s.msg, s.to \ {c}, s.greeting) IN
         /\ queue' = IF Sendable(c) THEN [queue EXCEPT ![c] = Append(@, s.msg)] ELSE queue
         /\ Then(t, IF closed[c] \/ Sendable(c) \/ s.greeting THEN rest
                    ELSE <<[op |-> "unregister", who |-> c]>> \o rest)
  /\ UNCHANGED <<conn, closed, hubState, shown, left>>

(* Client.shutdown, by whoever comes first *)
Shutdown(t) ==
  /\ Doing(t, "shutdown")
  /\ closed' = [closed EXCEPT ![Next1(t).who] = TRUE]
  /\ conn' = [conn EXCEPT ![Next1(t).who] = IF closed[Next1(t).who] THEN @ ELSE "closed"]
  /\ Then(t, <<>>)
  /\ UNCHANGED <<queue, hubState, shown, left>>

----------------------------------------------------------------------------
(* The write pump, and the browser at the other end *)

WritePump(c) ==
  /\ conn[c] = "open" /\ queue[c] # <<>>
  /\ queue' = [queue EXCEPT ![c] = Tail(@)]
  /\ shown' = IF Head(queue[c]).conv = None THEN shown
              ELSE [shown EXCEPT ![c][Head(queue[c]).conv] = Head(queue[c]).who]
  /\ UNCHANGED <<conn, closed, hubState, stack, left>>

(* The socket breaks, is closed by the browser, or answers no ping. *)
SocketFails(c) ==
  /\ conn[c] = "open" /\ conn' = [conn EXCEPT ![c] = "closed"]
  /\ UNCHANGED <<queue, closed, hubState, stack, shown, left>>

Init ==
  /\ conn = [c \in Clients |-> "none"] /\ queue = [c \in Clients |-> <<>>]
  /\ closed = [c \in Clients |-> FALSE] /\ viewing = [c \in Clients |-> None]
  /\ clients = {} /\ index = [v \in Convs |-> {}] /\ hub = "open"
  /\ stack = [t \in Threads |-> <<>>]
  /\ shown = [c \in Clients |-> [v \in Convs |-> {}]]
  /\ left \in Budgets

Step(t) ==
  OpenConversations(t) \/ BroadcastViewers(t) \/ TrySend(t) \/ DropsSlow(t) \/ Shutdown(t)

Next ==
  \/ \E t \in Threads : Step(t)
  \/ \E c \in Clients :
       Register(c) \/ SetViewing(c) \/ ReadPumpEnds(c) \/ WritePump(c) \/ SocketFails(c)
  \/ Broadcast \/ Close

Spec == Init /\ [][Next]_vars

----------------------------------------------------------------------------
(***************************************************************************)
(* The hub's two structures and the client's own field never disagree      *)
(* about a connection: whoever is counted as looking at a conversation is  *)
(* registered, says so itself, and looks at no other.                      *)
(***************************************************************************)
ViewingAgrees ==
  /\ \A v \in Convs : index[v] = {c \in clients : viewing[c] = v}
  /\ \A c \in Clients \ clients : hub = "open" => viewing[c] = None

ClosedGetsNothing == \A c \in Clients : closed[c] => Len(queue'[c]) <= Len(queue[c])

(***************************************************************************)
(* Nothing is sent on a closed channel, whatever was copied before: in Go  *)
(* that is a panic which takes the process down.                           *)
(***************************************************************************)
NoSendAfterClose == [][ClosedGetsNothing]_vars

(***************************************************************************)
(* Nobody is shown, to others, as looking at a conversation they have left *)
(* once every browser has been sent everything there was to send.          *)
(***************************************************************************)
NobodyLingers ==
  (\A t \in Threads : Idle(t)) =>
    \A c \in clients : (conn[c] = "open" /\ queue[c] = <<>>) =>
      \A v \in Convs : shown[c][v] \subseteq {Person[c]} \cup {Person[d] : d \in index[v]}
=============================================================================
