----------------------------- MODULE Records_proofs -----------------------------
(***************************************************************************)
(* Proofs about Records for every value of its constants: the hub, the     *)
(* organisation, the labels and the contacts, whose proofs are here; and   *)
(* what the runs check of the composition, from these and from the         *)
(* invariants that Annotations_proofs and Series_proofs prove of their     *)
(* components.                                                             *)
(***************************************************************************)
EXTENDS Records, FiniteSetTheorems, SequenceTheorems, WellFoundedInduction, TLAPS

-----------------------------------------------------------------------------
(***************************************************************************)
(* The hub, for any number of browsers, people and conversations: its      *)
(* tables of who looks at what agree, and nothing is sent on a closed      *)
(* channel.  Its variables, by their names there:                          *)
(***************************************************************************)
conn == x1
queue == x2
closed == x3
viewing == x4
clients == x5
index == x6
hub == x7
stack == x8

USE DEF conn, queue, closed, viewing, clients, index, hub, stack

Frame == [conv : Convs \cup {None}, who : SUBSET {Person[c] : c \in Clients}]

(* What a goroutine may have still to do. *)
Task ==
  [op : {"greet"}, to : Clients]
    \cup [op : {"viewers"}, conv : Convs]
    \cup [op : {"send"}, msg : Frame, to : SUBSET Clients, greeting : BOOLEAN]
    \cup [op : {"unregister", "shutdown"}, who : Clients]

(* The types of the hub's tables, of the channels and of the stacks. *)
HubTables ==
  /\ viewing \in [Clients -> Convs \cup {None}]
  /\ clients \subseteq Clients
  /\ index \in [Convs -> SUBSET Clients]
  /\ hub \in {"open", "closed"}
HubQueues ==
  /\ conn \in [Clients -> {"none", "open", "closed"}]
  /\ closed \in [Clients -> BOOLEAN]
  /\ queue \in [Clients -> Seq(Frame)]
HubStacks == stack \in [H!Threads -> Seq(Task)]
HubTypes == HubTables /\ HubQueues /\ HubStacks

(* A hub that is closed knows nobody, and Register no longer lets anybody in. *)
ClosedIsEmpty == hub = "closed" => clients = {}

HubInv == HubTypes /\ ClosedIsEmpty /\ H!ViewingAgrees

-----------------------------------------------------------------------------
(* What the steps are built from *)

\* The sizes Hub speaks of are those the library's theorems are about.
LEMMA SameSizes ==
  ASSUME NEW X
  PROVE  /\ H!IsFiniteSet(X) <=> IsFiniteSet(X)
         /\ H!Cardinality(X) = Cardinality(X)
<1>1. H!IsFiniteSet(X) <=> IsFiniteSet(X)
  BY DEF H!IsFiniteSet, IsFiniteSet
<1>2. H!Cardinality(X) = Cardinality(X)
  BY Zenon DEF H!Cardinality, Cardinality
<1> QED BY <1>1, <1>2

LEMMA ListType ==
  ASSUME NEW n \in Nat, NEW list \in [1 .. n -> Task]
  PROVE  list \in Seq(Task)
BY SeqDef

LEMMA AnnounceType ==
  ASSUME NEW v \in Convs \cup {None}
  PROVE  H!Announce(v) \in Seq(Task)
<1>1. CASE v = None
  <2>1. H!Announce(v) = <<>>
    BY <1>1 DEF H!Announce
  <2> QED BY <2>1
<1>2. CASE v # None
  <2>1. [op |-> "viewers", conv |-> v] \in Task
    BY <1>2 DEF Task
  <2>2. H!Announce(v) = <<[op |-> "viewers", conv |-> v]>>
    BY <1>2 DEF H!Announce
  <2> QED BY <2>1, <2>2
<1> QED BY <1>1, <1>2

LEMMA SendToType ==
  ASSUME NEW msg \in Frame, NEW to \in SUBSET Clients, NEW greeting \in BOOLEAN
  PROVE  /\ H!SendTo(msg, to, greeting) \in Seq(Task)
         /\ to # {} => H!SendTo(msg, to, greeting)[1] \in Task
<1>1. CASE to = {}
  <2>1. H!SendTo(msg, to, greeting) = <<>>
    BY <1>1 DEF H!SendTo
  <2>2. H!SendTo(msg, to, greeting) \in Seq(Task)
    BY <2>1
  <2> QED BY <1>1, <2>2
<1>2. CASE to # {}
  <2> DEFINE send == [op |-> "send", msg |-> msg, to |-> to, greeting |-> greeting]
  <2>1. send \in Task
    BY DEF Task
  <2>2. H!SendTo(msg, to, greeting) = <<send>>
    BY <1>2 DEF H!SendTo
  <2> HIDE DEF send
  <2> QED BY <2>1, <2>2
<1> QED BY <1>1, <1>2

LEMMA AfterUnregisterType ==
  ASSUME HubTypes, NEW c \in Clients
  PROVE  H!AfterUnregister(c) \in Seq(Task)
<1>1. viewing[c] \in Convs \cup {None}
  BY DEF HubTypes, HubTables
<1>2. H!Announce(viewing[c]) \in Seq(Task)
  BY <1>1, AnnounceType
<1>3. [op |-> "shutdown", who |-> c] \in Task
  BY DEF Task
<1> QED BY <1>2, <1>3 DEF H!AfterUnregister

(* A step puts tasks in front of what its goroutine has still to do. *)
LEMMA ThenType ==
  ASSUME HubStacks, NEW t \in H!Threads, ~H!Idle(t), NEW ops \in Seq(Task), H!Then(t, ops)
  PROVE  HubStacks'
<1>1. stack[t] \in Seq(Task) /\ stack[t] # <<>>
  BY DEF HubStacks, H!Idle
<1>2. Tail(stack[t]) \in Seq(Task)
  BY <1>1
<1>3. ops \o Tail(stack[t]) \in Seq(Task)
  BY <1>2
<1> QED BY <1>3 DEF HubStacks, H!Then

LEMMA StartsType ==
  ASSUME HubStacks, NEW t \in H!Threads, NEW ops \in Seq(Task), H!Starts(t, ops)
  PROVE  HubStacks'
<1>1. stack[t] = <<>>
  BY DEF H!Starts, H!Idle
<1>2. ops \o stack[t] \in Seq(Task) \/ ops \in Seq(Task)
  OBVIOUS
<1> QED BY <1>1 DEF HubStacks, H!Starts

LEMMA NextTask ==
  ASSUME HubStacks, NEW t \in H!Threads, ~H!Idle(t)
  PROVE  H!Next1(t) \in Task
BY DEF HubStacks, H!Idle, H!Next1
-----------------------------------------------------------------------------
(* What each lock keeps: the hub's for its tables, the client's for its channel *)

LEMMA HubInit == ASSUME H!HubAssumption, H!Init PROVE HubInv
<1>1. HubTables /\ HubQueues /\ HubStacks
  <2>1. \A c \in Clients : queue[c] \in Seq(Frame)
    BY DEF H!Init
  <2>2. HubStacks
    BY DEF H!Init, HubStacks
  <2> QED BY <2>1, <2>2 DEF H!Init, HubTables, HubQueues
<1>2. ClosedIsEmpty /\ H!ViewingAgrees
  BY DEF H!Init, ClosedIsEmpty, H!ViewingAgrees, H!HubAssumption
<1> QED BY <1>1, <1>2 DEF HubInv, HubTypes

(* A client leaves the clients and what it looked at in one step. *)
LEMMA UnregisterKeeps ==
  ASSUME HubInv, NEW c \in Clients, H!Unregister(c)
  PROVE  (HubTables /\ ClosedIsEmpty /\ H!ViewingAgrees)'
<1> USE DEF HubInv, HubTypes, HubTables, H!Unregister, H!Leaves, H!Detached
<1>1. HubTables'
  OBVIOUS
<1>2. ClosedIsEmpty'
  BY DEF ClosedIsEmpty
<1>3. H!ViewingAgrees'
  <2>1. \A v \in Convs : index'[v] = {d \in clients' : viewing'[d] = v}
    BY DEF H!ViewingAgrees
  <2>2. \A d \in Clients \ clients' : hub' = "open" => viewing'[d] = None
    BY DEF H!ViewingAgrees
  <2> QED BY <2>1, <2>2 DEF H!ViewingAgrees
<1> QED BY <1>1, <1>2, <1>3

LEMMA SetViewingKeeps ==
  ASSUME H!HubAssumption, HubInv, NEW c \in Clients, H!SetViewing(c)
  PROVE  (HubTables /\ ClosedIsEmpty /\ H!ViewingAgrees)'
<1> USE DEF HubInv, HubTypes, HubTables
<1>1. PICK conv \in Convs \cup {None} :
        IF hub = "closed" \/ viewing[c] = conv \/ ~H!MayView(c)
        THEN H!Starts(<<"read", c>>, <<>>) /\ UNCHANGED <<viewing, index>>
        ELSE /\ viewing' = [viewing EXCEPT ![c] = conv]
             /\ index' = [v \in Convs |-> IF v = conv THEN H!Detached(c)[v] \cup {c} ELSE H!Detached(c)[v]]
             /\ H!Starts(<<"read", c>>, H!Announce(viewing[c]) \o H!Announce(conv))
  BY DEF H!SetViewing
<1>2. UNCHANGED <<clients, hub>>
  BY DEF H!SetViewing
<1>3. CASE hub = "closed" \/ viewing[c] = conv \/ ~H!MayView(c)
  <2>1. UNCHANGED <<viewing, index, clients, hub>>
    BY <1>1, <1>2, <1>3
  <2> QED BY <2>1 DEF ClosedIsEmpty, H!ViewingAgrees
<1>4. CASE ~(hub = "closed" \/ viewing[c] = conv \/ ~H!MayView(c))
  <2>1. /\ viewing' = [viewing EXCEPT ![c] = conv]
        /\ index' = [v \in Convs |-> IF v = conv THEN (index[v] \ {c}) \cup {c} ELSE index[v] \ {c}]
    BY <1>1, <1>4 DEF H!Detached
  <2>2. HubTables'
    BY <2>1, <1>2
  <2>3. ClosedIsEmpty'
    BY <1>2 DEF ClosedIsEmpty
  <2>4. ASSUME NEW v \in Convs
        PROVE  index'[v] = {d \in clients' : viewing'[d] = v}
    <3>1. c \in clients
      BY <1>4 DEF H!MayView
    <3> QED BY <2>1, <1>2, <3>1 DEF H!ViewingAgrees
  <2>5. \A d \in Clients \ clients' : hub' = "open" => viewing'[d] = None
    BY <2>1, <1>2, <1>4 DEF H!ViewingAgrees, H!MayView
  <2> QED BY <2>2, <2>3, <2>4, <2>5 DEF H!ViewingAgrees
<1> QED BY <1>3, <1>4

LEMMA HubTablesKept ==
  ASSUME H!HubAssumption, HubInv, H!Next
  PROVE  (HubTables /\ ClosedIsEmpty /\ H!ViewingAgrees)'
<1> USE DEF HubInv, HubTypes
<1>1. ASSUME UNCHANGED H!hubState
      PROVE  (HubTables /\ ClosedIsEmpty /\ H!ViewingAgrees)'
  BY <1>1 DEF H!hubState, HubTables, ClosedIsEmpty, H!ViewingAgrees
<1>2. ASSUME NEW t \in H!Threads, H!Step(t)
      PROVE  (HubTables /\ ClosedIsEmpty /\ H!ViewingAgrees)'
  <2>1. CASE H!OpenConversations(t) \/ H!BroadcastViewers(t) \/ H!TrySend(t) \/ H!Shutdown(t)
    <3>1. UNCHANGED H!hubState
      BY <2>1 DEF H!OpenConversations, H!BroadcastViewers, H!TrySend, H!Shutdown
    <3> QED BY <3>1, <1>1
  <2>2. CASE H!DropsSlow(t)
    <3>1. ~H!Idle(t) /\ H!Next1(t).op = "unregister" /\ H!Unregister(H!Next1(t).who)
      BY <2>2 DEF H!DropsSlow, H!Doing
    <3>2. H!Next1(t).who \in Clients
      BY <3>1, NextTask DEF Task
    <3> QED BY <3>1, <3>2, UnregisterKeeps
  <2> QED BY <1>2, <2>1, <2>2 DEF H!Step
<1>3. ASSUME NEW c \in Clients, H!Register(c)
      PROVE  (HubTables /\ ClosedIsEmpty /\ H!ViewingAgrees)'
  <2>1. CASE hub = "closed"
    <3>1. UNCHANGED H!hubState
      BY <1>3, <2>1 DEF H!Register, H!hubState
    <3> QED BY <3>1, <1>1
  <2>2. CASE hub # "closed"
    <3>1. clients' = clients \cup {c} /\ UNCHANGED <<index, hub, viewing>>
      BY <1>3, <2>2 DEF H!Register
    <3>2. c \in clients \/ viewing[c] = None
      BY <2>2 DEF HubTables, H!ViewingAgrees
    <3>3. \A v \in Convs : index'[v] = {d \in clients' : viewing'[d] = v}
      BY <3>1, <3>2 DEF H!ViewingAgrees, H!HubAssumption
    <3>4. \A d \in Clients \ clients' : hub' = "open" => viewing'[d] = None
      BY <3>1 DEF H!ViewingAgrees
    <3>5. HubTables'
      BY <3>1 DEF HubTables
    <3>6. ClosedIsEmpty'
      BY <3>1, <2>2 DEF ClosedIsEmpty
    <3> QED BY <3>3, <3>4, <3>5, <3>6 DEF H!ViewingAgrees
  <2> QED BY <2>1, <2>2
<1>4. ASSUME NEW c \in Clients, H!SetViewing(c)
      PROVE  (HubTables /\ ClosedIsEmpty /\ H!ViewingAgrees)'
  BY <1>4, SetViewingKeeps
<1>5. ASSUME NEW c \in Clients, H!ReadPumpEnds(c)
      PROVE  (HubTables /\ ClosedIsEmpty /\ H!ViewingAgrees)'
  BY <1>5, UnregisterKeeps DEF H!ReadPumpEnds
<1>6. ASSUME NEW c \in Clients, H!WritePump(c) \/ H!SocketFails(c)
      PROVE  (HubTables /\ ClosedIsEmpty /\ H!ViewingAgrees)'
  BY <1>6, <1>1 DEF H!WritePump, H!SocketFails
<1>7. CASE H!Broadcast
  BY <1>7, <1>1 DEF H!Broadcast
<1>8. CASE H!Close
  <2>1. /\ hub' = "closed" /\ clients' = {} /\ index' = [v \in Convs |-> {}]
        /\ viewing' = viewing
    BY <1>8 DEF H!Close
  <2> QED BY <2>1 DEF HubTables, ClosedIsEmpty, H!ViewingAgrees
<1> QED BY <1>2, <1>3, <1>4, <1>5, <1>6, <1>7, <1>8 DEF H!Next

LEMMA HubQueuesKept ==
  ASSUME HubInv, H!Next
  PROVE  HubQueues' /\ H!ClosedGetsNothing
<1> USE DEF HubInv, HubTypes, HubQueues
<1>1. ASSUME UNCHANGED <<conn, closed, queue>>
      PROVE  HubQueues' /\ H!ClosedGetsNothing
  BY <1>1 DEF H!ClosedGetsNothing
<1>2. ASSUME UNCHANGED <<closed, queue>>, conn' \in [Clients -> {"none", "open", "closed"}]
      PROVE  HubQueues' /\ H!ClosedGetsNothing
  BY <1>2 DEF H!ClosedGetsNothing
<1>3. ASSUME NEW t \in H!Threads, H!TrySend(t)
      PROVE  HubQueues' /\ H!ClosedGetsNothing
  <2>1. PICK c \in H!Next1(t).to :
          /\ queue' = IF H!Sendable(c) THEN [queue EXCEPT ![c] = Append(@, H!Next1(t).msg)] ELSE queue
          /\ UNCHANGED <<conn, closed>>
    BY <1>3 DEF H!TrySend
  <2>2. H!Next1(t) \in Task /\ H!Next1(t).op = "send"
    BY <1>3, NextTask DEF H!TrySend, H!Doing
  <2>3. c \in Clients /\ H!Next1(t).msg \in Frame
    BY <2>1, <2>2 DEF Task
  <2>4. CASE H!Sendable(c)
    <3>1. ~closed[c] /\ queue' = [queue EXCEPT ![c] = Append(queue[c], H!Next1(t).msg)]
      BY <2>1, <2>4 DEF H!Sendable
    <3>2. Append(queue[c], H!Next1(t).msg) \in Seq(Frame)
      BY <2>3
    <3>3. HubQueues'
      BY <2>1, <3>1, <3>2
    <3>4. ASSUME NEW d \in Clients, closed[d]
          PROVE  Len(queue'[d]) <= Len(queue[d])
      <4>1. d # c
        BY <3>1, <3>4
      <4>2. queue'[d] = queue[d]
        BY <3>1, <4>1
      <4> QED BY <4>2
    <3> QED BY <3>3, <3>4 DEF H!ClosedGetsNothing
  <2>5. CASE ~H!Sendable(c)
    BY <2>1, <2>5, <1>1
  <2> QED BY <2>4, <2>5
<1>4. ASSUME NEW t \in H!Threads, H!Shutdown(t)
      PROVE  HubQueues' /\ H!ClosedGetsNothing
  <2> DEFINE c == H!Next1(t).who
  <2>1. /\ closed' = [closed EXCEPT ![c] = TRUE]
        /\ conn' = [conn EXCEPT ![c] = IF closed[c] THEN @ ELSE "closed"]
        /\ queue' = queue
    BY <1>4 DEF H!Shutdown
  <2> HIDE DEF c
  <2>2. closed' \in [Clients -> BOOLEAN]
    BY <2>1
  <2>3. conn' \in [Clients -> {"none", "open", "closed"}]
    BY <2>1
  <2> QED BY <2>1, <2>2, <2>3 DEF H!ClosedGetsNothing
<1>5. ASSUME NEW t \in H!Threads, H!Step(t)
      PROVE  HubQueues' /\ H!ClosedGetsNothing
  <2>1. CASE H!OpenConversations(t) \/ H!BroadcastViewers(t) \/ H!DropsSlow(t)
    <3>1. UNCHANGED <<conn, closed, queue>>
      BY <2>1 DEF H!OpenConversations, H!BroadcastViewers, H!DropsSlow, H!Unregister
    <3> QED BY <3>1, <1>1
  <2> QED BY <1>3, <1>4, <1>5, <2>1 DEF H!Step
<1>6. ASSUME NEW c \in Clients, H!Register(c) \/ H!SocketFails(c)
      PROVE  HubQueues' /\ H!ClosedGetsNothing
  <2>1. UNCHANGED <<closed, queue>>
    BY <1>6 DEF H!Register, H!SocketFails
  <2>2. conn' \in [Clients -> {"none", "open", "closed"}]
    BY <1>6 DEF H!Register, H!SocketFails
  <2> QED BY <2>1, <2>2, <1>2
<1>7. ASSUME NEW c \in Clients, H!SetViewing(c) \/ H!ReadPumpEnds(c)
      PROVE  HubQueues' /\ H!ClosedGetsNothing
  <2>1. UNCHANGED <<conn, closed, queue>>
    BY <1>7 DEF H!SetViewing, H!ReadPumpEnds, H!Unregister
  <2> QED BY <2>1, <1>1
<1>8. ASSUME NEW c \in Clients, H!WritePump(c)
      PROVE  HubQueues' /\ H!ClosedGetsNothing
  <2>1. /\ queue[c] # <<>> /\ queue' = [queue EXCEPT ![c] = Tail(queue[c])]
        /\ UNCHANGED <<conn, closed>>
    BY <1>8 DEF H!WritePump
  <2>2. queue[c] \in Seq(Frame)
    OBVIOUS
  <2>3. Tail(queue[c]) \in Seq(Frame) /\ Len(Tail(queue[c])) <= Len(queue[c])
    BY <2>1, <2>2
  <2>4. HubQueues'
    BY <2>1, <2>3
  <2>5. \A d \in Clients : Len(queue'[d]) <= Len(queue[d])
    BY <2>1, <2>3
  <2> QED BY <2>4, <2>5 DEF H!ClosedGetsNothing
<1>9. CASE H!Broadcast \/ H!Close
  <2>1. UNCHANGED <<conn, closed, queue>>
    BY <1>9 DEF H!Broadcast, H!Close
  <2> QED BY <2>1, <1>1
<1> QED BY <1>5, <1>6, <1>7, <1>8, <1>9 DEF H!Next

-----------------------------------------------------------------------------
(* What the goroutines have still to do *)

(* Fewer clients, or the people who look at a conversation, make a frame. *)
LEMMA PictureIsFrame ==
  ASSUME HubTables, NEW v \in Convs
  PROVE  [conv |-> v, who |-> {Person[c] : c \in index[v]}] \in Frame
<1>1. {Person[c] : c \in index[v]} \in SUBSET {Person[c] : c \in Clients}
  BY DEF HubTables
<1> QED BY <1>1 DEF Frame

LEMMA HubStacksKept ==
  ASSUME H!HubAssumption, HubInv, H!Next
  PROVE  HubStacks'
<1> USE DEF HubInv, HubTypes
<1>1. ASSUME NEW t \in H!Threads, H!OpenConversations(t)
      PROVE  HubStacks'
  <2> DEFINE open == {v \in Convs : index[v] # {}}
             Picture(v) == [conv |-> v, who |-> {Person[c] : c \in index[v]}]
             Ops(order) == [i \in DOMAIN order |-> H!SendTo(Picture(order[i]), {H!Next1(t).to}, TRUE)[1]]
  <2>1. PICK order \in [1 .. Cardinality(open) -> open] : H!Then(t, Ops(order))
    BY <1>1, SameSizes DEF H!OpenConversations
  <2>2. ~H!Idle(t) /\ H!Next1(t) \in Task /\ H!Next1(t).op = "greet"
    BY <1>1, NextTask DEF H!OpenConversations, H!Doing
  <2>3. H!Next1(t).to \in Clients
    BY <2>2 DEF Task
  <2>4. Cardinality(open) \in Nat
    <3>1. IsFiniteSet(open)
      BY FS_Subset, SameSizes DEF H!HubAssumption
    <3> QED BY <3>1, FS_CardinalityType
  <2>5. ASSUME NEW i \in 1 .. Cardinality(open)
        PROVE  H!SendTo(Picture(order[i]), {H!Next1(t).to}, TRUE)[1] \in Task
    <3>1. Picture(order[i]) \in Frame
      BY PictureIsFrame
    <3> HIDE DEF Picture
    <3> QED BY <3>1, <2>3, SendToType
  <2>6. Ops(order) \in [1 .. Cardinality(open) -> Task]
    BY <2>5
  <2> HIDE DEF Ops, open
  <2>7. Ops(order) \in Seq(Task)
    BY <2>4, <2>6, ListType
  <2> QED BY <2>1, <2>2, <2>7, ThenType
<1>2. ASSUME NEW t \in H!Threads, H!BroadcastViewers(t)
      PROVE  HubStacks'
  <2> DEFINE v == H!Next1(t).conv
             Picture == [conv |-> v, who |-> {Person[c] : c \in index[v]}]
  <2>1. ~H!Idle(t) /\ H!Next1(t) \in Task /\ H!Next1(t).op = "viewers"
    BY <1>2, NextTask DEF H!BroadcastViewers, H!Doing
  <2>2. v \in Convs
    BY <2>1 DEF Task
  <2>3. Picture \in Frame
    BY <2>2, PictureIsFrame
  <2>4. H!Then(t, H!SendTo(Picture, clients, FALSE))
    BY <1>2 DEF H!BroadcastViewers
  <2>5. H!SendTo(Picture, clients, FALSE) \in Seq(Task)
    <3> HIDE DEF Picture
    <3> QED BY <2>3, SendToType DEF HubTables
  <2> HIDE DEF Picture
  <2> QED BY <2>1, <2>4, <2>5, ThenType
<1>3. ASSUME NEW t \in H!Threads, H!TrySend(t)
      PROVE  HubStacks'
  <2> DEFINE s == H!Next1(t)
  <2>1. ~H!Idle(t) /\ s \in Task /\ s.op = "send"
    BY <1>3, NextTask DEF H!TrySend, H!Doing
  <2>2. s.msg \in Frame /\ s.to \in SUBSET Clients /\ s.greeting \in BOOLEAN
    BY <2>1 DEF Task
  <2>3. PICK c \in s.to :
          \/ H!Then(t, H!SendTo(s.msg, s.to \ {c}, s.greeting))
          \/ H!Then(t, <<[op |-> "unregister", who |-> c]>> \o H!SendTo(s.msg, s.to \ {c}, s.greeting))
    BY <1>3 DEF H!TrySend
  <2> HIDE DEF s
  <2>4. H!SendTo(s.msg, s.to \ {c}, s.greeting) \in Seq(Task)
    BY <2>2, SendToType
  <2>5. <<[op |-> "unregister", who |-> c]>> \o H!SendTo(s.msg, s.to \ {c}, s.greeting) \in Seq(Task)
    <3>1. [op |-> "unregister", who |-> c] \in Task
      BY <2>2 DEF Task
    <3> QED BY <2>4, <3>1
  <2> QED BY <2>1, <2>3, <2>4, <2>5, ThenType
<1>4. ASSUME NEW t \in H!Threads, H!DropsSlow(t)
      PROVE  HubStacks'
  <2>1. ~H!Idle(t) /\ H!Next1(t) \in Task /\ H!Next1(t).op = "unregister"
    BY <1>4, NextTask DEF H!DropsSlow, H!Doing
  <2>2. H!Next1(t).who \in Clients
    BY <2>1 DEF Task
  <2>3. H!Then(t, H!AfterUnregister(H!Next1(t).who))
    BY <1>4 DEF H!DropsSlow
  <2> QED BY <2>1, <2>2, <2>3, AfterUnregisterType, ThenType
<1>5. ASSUME NEW t \in H!Threads, H!Shutdown(t)
      PROVE  HubStacks'
  <2>1. ~H!Idle(t) /\ H!Then(t, <<>>) /\ <<>> \in Seq(Task)
    BY <1>5 DEF H!Shutdown, H!Doing
  <2> QED BY <2>1, ThenType
<1>6. ASSUME NEW c \in Clients, H!Register(c)
      PROVE  HubStacks'
  <2>1. H!Starts(<<"register", c>>, <<>>) \/ H!Starts(<<"register", c>>, <<[op |-> "greet", to |-> c]>>)
    BY <1>6 DEF H!Register
  <2>2. <<"register", c>> \in H!Threads
    BY DEF H!Threads
  <2>3. [op |-> "greet", to |-> c] \in Task
    BY DEF Task
  <2>4. <<>> \in Seq(Task) /\ <<[op |-> "greet", to |-> c]>> \in Seq(Task)
    BY <2>3
  <2> QED BY <2>1, <2>2, <2>4, StartsType
<1>7. ASSUME NEW c \in Clients, H!SetViewing(c)
      PROVE  HubStacks'
  <2>1. PICK conv \in Convs \cup {None} :
          H!Starts(<<"read", c>>, <<>>) \/ H!Starts(<<"read", c>>, H!Announce(viewing[c]) \o H!Announce(conv))
    BY <1>7 DEF H!SetViewing
  <2>2. <<"read", c>> \in H!Threads
    BY DEF H!Threads
  <2>3. viewing[c] \in Convs \cup {None}
    BY DEF HubTables
  <2>4. H!Announce(viewing[c]) \o H!Announce(conv) \in Seq(Task) /\ <<>> \in Seq(Task)
    BY <2>3, AnnounceType
  <2> QED BY <2>1, <2>2, <2>4, StartsType
<1>8. ASSUME NEW c \in Clients, H!ReadPumpEnds(c)
      PROVE  HubStacks'
  <2>1. H!Starts(<<"read", c>>, H!AfterUnregister(c)) /\ <<"read", c>> \in H!Threads
    BY <1>8 DEF H!ReadPumpEnds, H!Threads
  <2> QED BY <2>1, AfterUnregisterType, StartsType
<1>9. ASSUME NEW c \in Clients, H!WritePump(c) \/ H!SocketFails(c)
      PROVE  HubStacks'
  BY <1>9 DEF H!WritePump, H!SocketFails, HubStacks
<1>10. CASE H!Broadcast
  <2> DEFINE event == [conv |-> None, who |-> {}]
  <2>1. H!Starts(<<"app">>, H!SendTo(event, clients, FALSE)) /\ <<"app">> \in H!Threads
    BY <1>10 DEF H!Broadcast, H!Threads
  <2>2. event \in Frame
    BY DEF Frame
  <2> HIDE DEF event
  <2>3. H!SendTo(event, clients, FALSE) \in Seq(Task)
    BY <2>2, SendToType DEF HubTables
  <2> QED BY <2>1, <2>3, StartsType
<1>11. CASE H!Close
  <2> DEFINE Ops(order) == [i \in DOMAIN order |-> [op |-> "shutdown", who |-> order[i]]]
  <2>1. PICK order \in [1 .. Cardinality(clients) -> clients] : H!Starts(<<"close">>, Ops(order))
    BY <1>11, SameSizes DEF H!Close
  <2>2. Cardinality(clients) \in Nat
    <3>1. IsFiniteSet(clients)
      BY FS_Subset, SameSizes DEF H!HubAssumption, HubTables
    <3> QED BY <3>1, FS_CardinalityType
  <2>3. Ops(order) \in [1 .. Cardinality(clients) -> Task]
    BY DEF Task, HubTables
  <2> HIDE DEF Ops
  <2>4. Ops(order) \in Seq(Task)
    BY <2>2, <2>3, ListType
  <2>5. <<"close">> \in H!Threads
    BY DEF H!Threads
  <2> QED BY <2>1, <2>4, <2>5, StartsType
<1> QED BY <1>1, <1>2, <1>3, <1>4, <1>5, <1>6, <1>7, <1>8, <1>9, <1>10, <1>11 DEF H!Next, H!Step
-----------------------------------------------------------------------------
LEMMA HubNext == ASSUME H!HubAssumption, HubInv, [H!Next]_(H!vars) PROVE HubInv'
<1>1. CASE H!Next
  BY <1>1, HubTablesKept, HubQueuesKept, HubStacksKept DEF HubInv, HubTypes
<1>2. CASE UNCHANGED H!vars
  BY <1>2 DEF H!vars, H!hubState, HubInv, HubTypes, HubTables, HubQueues, HubStacks, ClosedIsEmpty, H!ViewingAgrees
<1> QED BY <1>1, <1>2

-----------------------------------------------------------------------------
(***************************************************************************)
(* The organisation, for any number of people, applications and            *)
(* overlapping requests: no application has two PICs, and what the         *)
(* assignment tables say of a person fits the person's role, but for the   *)
(* two ways out that are named.  Its variables, by their names there:      *)
(***************************************************************************)
there == x1
active == x2
role == x3
assigned == x4
picApps == x5
freeApps == x6
picOf == x7
req == x8
misplaced == x10

USE DEF there, active, role, assigned, picApps, freeApps, picOf, req, misplaced

Scopes == [role : O!Role \cup {""}, all : BOOLEAN, apps : SUBSET Application]

(* What a request carries from one of its steps to the next. *)
Call ==
    {O!Idle}
    \cup [op : {"role"}, at : {"act"}, by : User, of : User, role : O!Role, sc : Scopes]
    \cup [op : {"active"}, at : {"check", "act"}, by : User, of : User, on : BOOLEAN, sc : Scopes]
    \cup [op : {"assign"}, at : {"check", "read"}, by : User, of : User,
          apps : SUBSET Application, pic : User \cup {None}, sc : Scopes]
    \cup [op : {"assign"}, at : {"verify", "act"}, of : User,
          apps : SUBSET Application, pic : User \cup {None}, role : {"pic", "freelance"}]
    \cup [op : {"create"}, at : {"read"}, by : User, role : O!Role, sc : Scopes]
    \cup [op : {"create"}, at : {"account"}, role : O!Role,
          pic : User \cup {None}, apps : SUBSET Application]
    \cup [op : {"create"}, at : {"act"}, of : User, role : O!Role,
          pic : User \cup {None}, apps : SUBSET Application]

OrgTables ==
    /\ there \subseteq User /\ active \subseteq User /\ assigned \subseteq User
    /\ role \in [User -> O!Role \cup {""}]
    /\ picApps \in [User -> SUBSET Application]
    /\ freeApps \in [User -> SUBSET Application]
    /\ picOf \in [User -> User \cup {None}]
    /\ misplaced \in BOOLEAN
OrgTypes == OrgTables /\ req \in [Request -> Call]

OrgInv == OrgTypes /\ O!OneApplicationOnePIC /\ O!PlacementFitsRole

-----------------------------------------------------------------------------
(* What the requests carry *)

LEMMA ScopeType == ASSUME OrgTypes, NEW u \in User PROVE O!Scope(u) \in Scopes
<1>1. O!RoleOf(u) \in O!Role \cup {""}
  BY DEF OrgTypes, OrgTables, O!RoleOf, O!Role
<1>2. picApps[u] \in SUBSET Application /\ freeApps[u] \in SUBSET Application
  BY DEF OrgTypes, OrgTables
<1> HIDE DEF O!RoleOf
<1> QED BY <1>1, <1>2 DEF O!Scope, Scopes

LEMMA PutType ==
  ASSUME OrgTypes, NEW r \in Request, NEW q \in Call, O!Put(r, q)
  PROVE  req' \in [Request -> Call]
BY DEF OrgTypes, O!Put

LEMMA FinishType ==
  ASSUME OrgTypes, NEW r \in Request, O!Finish(r)
  PROVE  req' \in [Request -> Call]
<1>1. O!Idle \in Call
  BY DEF Call
<1> QED BY <1>1, PutType DEF O!Finish

LEMMA ArriveType ==
  ASSUME OrgTypes, NEW r \in Request, O!Arrive(r)
  PROVE  req' \in [Request -> Call]
<1>1. PICK by \in active, u \in there :
         \/ \E ro \in O!Role : O!Put(r, [op |-> "role", at |-> "act", by |-> by, of |-> u, role |-> ro, sc |-> O!Scope(by)])
         \/ \E on \in BOOLEAN : O!Put(r, [op |-> "active", at |-> "check", by |-> by, of |-> u, on |-> on, sc |-> O!Scope(by)])
         \/ \E apps \in SUBSET Application, pic \in User \cup {None} :
              O!Put(r, [op |-> "assign", at |-> "check", by |-> by, of |-> u, apps |-> apps, pic |-> pic, sc |-> O!Scope(by)])
         \/ \E ro \in O!Role : O!Put(r, [op |-> "create", at |-> "read", by |-> by, role |-> ro, sc |-> O!Scope(by)])
  BY DEF O!Arrive
<1>2. by \in User /\ u \in User
  BY DEF OrgTypes, OrgTables
<1>3. O!Scope(by) \in Scopes
  BY <1>2, ScopeType
<1>4. \A ro \in O!Role : [op |-> "role", at |-> "act", by |-> by, of |-> u, role |-> ro, sc |-> O!Scope(by)] \in Call
  BY <1>2, <1>3 DEF Call
<1>5. \A on \in BOOLEAN : [op |-> "active", at |-> "check", by |-> by, of |-> u, on |-> on, sc |-> O!Scope(by)] \in Call
  BY <1>2, <1>3 DEF Call
<1>6. \A apps \in SUBSET Application, pic \in User \cup {None} :
        [op |-> "assign", at |-> "check", by |-> by, of |-> u, apps |-> apps, pic |-> pic, sc |-> O!Scope(by)] \in Call
  BY <1>2, <1>3 DEF Call
<1>7. \A ro \in O!Role : [op |-> "create", at |-> "read", by |-> by, role |-> ro, sc |-> O!Scope(by)] \in Call
  BY <1>2, <1>3 DEF Call
<1> QED BY <1>1, <1>4, <1>5, <1>6, <1>7, PutType

LEMMA MayManageType ==
  ASSUME OrgTypes, NEW r \in Request, O!MayManage(r)
  PROVE  req' \in [Request -> Call]
<1> DEFINE q == req[r]
<1>1. q \in Call /\ q.at = "check"
  BY DEF OrgTypes, O!MayManage
<1>2. \/ q \in [op : {"active"}, at : {"check", "act"}, by : User, of : User, on : BOOLEAN, sc : Scopes]
      \/ q \in [op : {"assign"}, at : {"check", "read"}, by : User, of : User,
                apps : SUBSET Application, pic : User \cup {None}, sc : Scopes]
  BY <1>1 DEF Call, O!Idle
<1>3. O!Put(r, [q EXCEPT !.at = IF q.op = "assign" THEN "read" ELSE "act"]) \/ O!Finish(r)
  BY DEF O!MayManage
<1> HIDE DEF q
<1>4. [q EXCEPT !.at = IF q.op = "assign" THEN "read" ELSE "act"] \in Call
  BY <1>2 DEF Call
<1> QED BY <1>3, <1>4, PutType, FinishType

LEMMA ReadRoleType ==
  ASSUME OrgTypes, NEW r \in Request, O!ReadRole(r)
  PROVE  req' \in [Request -> Call]
<1> DEFINE q == req[r]
<1>1. q \in Call /\ q.op = "assign" /\ q.at = "read"
  BY DEF OrgTypes, O!ReadRole
<1>2. q.of \in User /\ q.apps \in SUBSET Application /\ q.pic \in User \cup {None}
  BY <1>1 DEF Call, O!Idle
<1>3. \/ /\ role[q.of] \in {"pic", "freelance"}
         /\ O!Put(r, [op |-> "assign", at |-> "verify", of |-> q.of, apps |-> q.apps, pic |-> q.pic, role |-> role[q.of]])
      \/ O!Finish(r)
  BY DEF O!ReadRole
<1> HIDE DEF q
<1>4. role[q.of] \in {"pic", "freelance"} =>
        [op |-> "assign", at |-> "verify", of |-> q.of, apps |-> q.apps, pic |-> q.pic, role |-> role[q.of]] \in Call
  BY <1>2 DEF Call
<1> QED BY <1>3, <1>4, PutType, FinishType

LEMMA VerifyType ==
  ASSUME OrgTypes, NEW r \in Request, O!Verify(r)
  PROVE  req' \in [Request -> Call]
<1> DEFINE q == req[r]
<1>1. q \in Call /\ q.op = "assign" /\ q.at = "verify"
  BY DEF OrgTypes, O!Verify
<1>2. q \in [op : {"assign"}, at : {"verify", "act"}, of : User,
             apps : SUBSET Application, pic : User \cup {None}, role : {"pic", "freelance"}]
  BY <1>1 DEF Call, O!Idle
<1>3. O!Put(r, [q EXCEPT !.at = "act"]) \/ O!Finish(r)
  BY DEF O!Verify
<1> HIDE DEF q
<1>4. [q EXCEPT !.at = "act"] \in Call
  BY <1>2 DEF Call
<1> QED BY <1>3, <1>4, PutType, FinishType

LEMMA ReadPlacementType ==
  ASSUME OrgTypes, NEW r \in Request, O!ReadPlacement(r)
  PROVE  req' \in [Request -> Call]
<1> DEFINE q == req[r]
           placed == [op |-> "create", at |-> "account", role |-> q.role,
                      pic |-> IF q.sc.role = "pic" THEN q.by ELSE None,
                      apps |-> IF q.sc.role = "pic" THEN picApps[q.by] ELSE {}]
<1>1. q \in Call /\ q.op = "create" /\ q.at = "read"
  BY DEF OrgTypes, O!ReadPlacement
<1>2. q.role \in O!Role /\ q.by \in User
  BY <1>1 DEF Call, O!Idle
<1>3. O!Put(r, placed) \/ O!Finish(r)
  BY DEF O!ReadPlacement
<1>4. placed \in Call
  <2>1. picApps[q.by] \in SUBSET Application
    BY <1>2 DEF OrgTypes, OrgTables
  <2> HIDE DEF q
  <2> QED BY <1>2, <2>1 DEF Call
<1> HIDE DEF placed
<1> QED BY <1>3, <1>4, PutType, FinishType

LEMMA CreateUserType ==
  ASSUME OrgTypes, NEW r \in Request, O!CreateUser(r)
  PROVE  req' \in [Request -> Call] /\ there' \subseteq User /\ active' \subseteq User
<1> DEFINE q == req[r]
<1>1. q \in Call /\ q.op = "create" /\ q.at = "account"
  BY DEF OrgTypes, O!CreateUser
<1>2. q.role \in O!Role /\ q.pic \in User \cup {None} /\ q.apps \in SUBSET Application
  BY <1>1 DEF Call, O!Idle
<1>3. CASE O!Finish(r) /\ UNCHANGED <<there, active>>
  BY <1>3, FinishType DEF OrgTypes, OrgTables
<1>4. ASSUME NEW u \in User \ there,
             there' = there \cup {u} /\ active' = active \cup {u},
             O!Put(r, [op |-> "create", at |-> "act", of |-> u, role |-> q.role, pic |-> q.pic, apps |-> q.apps])
      PROVE  req' \in [Request -> Call] /\ there' \subseteq User /\ active' \subseteq User
  <2> HIDE DEF q
  <2>1. [op |-> "create", at |-> "act", of |-> u, role |-> q.role, pic |-> q.pic, apps |-> q.apps] \in Call
    BY <1>2 DEF Call
  <2> QED BY <1>4, <2>1, PutType DEF OrgTypes, OrgTables
<1> QED BY <1>3, <1>4 DEF O!CreateUser

-----------------------------------------------------------------------------
(* The steps that change the tables *)

(* One conjunct of PlacementFitsRole, for one person *)
Fits(u) ==
    /\ picApps[u] # {} => O!IsPlaced(u, "pic")
    /\ freeApps[u] # {} => O!IsPlaced(u, "freelance")
    /\ picOf[u] # None => O!IsPlaced(u, "freelance") /\ O!IsPlaced(picOf[u], "pic")

LEMMA FitsSuffices ==
  ASSUME misplaced' \/ \A u \in User : Fits(u)'
  PROVE  O!PlacementFitsRole'
BY DEF O!PlacementFitsRole, Fits, O!IsPlaced

LEMMA SetRoleKeeps ==
  ASSUME O!OrgAssumption, OrgInv, NEW r \in Request, O!SetOperationalRole(r)
  PROVE  OrgInv'
<1> DEFINE q == req[r]
<1> USE DEF OrgInv, OrgTypes
<1>1. q \in Call /\ q.op = "role"
  BY DEF O!SetOperationalRole
<1>2. q.of \in User /\ q.role \in O!Role
  BY <1>1 DEF Call, O!Idle
<1>3. req' \in [Request -> Call]
  BY FinishType DEF O!SetOperationalRole
<1>4. UNCHANGED <<there, active, misplaced>>
  BY DEF O!SetOperationalRole
<1>5. CASE ~q.sc.all
  <2>1. UNCHANGED <<role, assigned, picApps, freeApps, picOf>>
    BY <1>5 DEF O!SetOperationalRole
  <2> QED BY <2>1, <1>3, <1>4 DEF OrgTables, O!OneApplicationOnePIC, O!PlacementFitsRole, O!IsPlaced
<1>6. CASE q.sc.all
  <2>1. /\ role' = [role EXCEPT ![q.of] = q.role] /\ assigned' = assigned \cup {q.of}
        /\ O!ClearedFor(q.role, q.of)
    BY <1>6 DEF O!SetOperationalRole
  <2> HIDE DEF q
  <2>2. OrgTables'
    BY <1>2, <1>4, <2>1 DEF OrgTables, O!ClearedFor
  <2>3. O!OneApplicationOnePIC'
    BY <1>2, <2>1 DEF OrgTables, O!OneApplicationOnePIC, O!ClearedFor
  <2>4. ASSUME ~misplaced, NEW u \in User
        PROVE  Fits(u)'
    <3>1. Fits(u)
      BY <2>4 DEF O!PlacementFitsRole, Fits
    <3>2. picApps'[u] # {} => O!IsPlaced(u, "pic")'
      BY <1>2, <2>1, <3>1 DEF OrgTables, O!ClearedFor, Fits, O!IsPlaced
    <3>3. freeApps'[u] # {} => O!IsPlaced(u, "freelance")'
      BY <1>2, <2>1, <3>1 DEF OrgTables, O!ClearedFor, Fits, O!IsPlaced
    <3>4. ASSUME picOf'[u] # None
          PROVE  O!IsPlaced(u, "freelance")' /\ O!IsPlaced(picOf[u], "pic")'
      <4>1. /\ picOf'[u] = picOf[u]
            /\ q.role = "pic" \/ picOf[u] # q.of
            /\ q.role = "freelance" \/ u # q.of
        BY <1>2, <2>1, <3>4 DEF OrgTables, O!ClearedFor
      <4>2. O!IsPlaced(u, "freelance") /\ O!IsPlaced(picOf[u], "pic") /\ picOf[u] \in User
        BY <3>1, <3>4, <4>1 DEF Fits, OrgTables
      <4> QED BY <1>2, <2>1, <4>1, <4>2 DEF OrgTables, O!IsPlaced
    <3> QED BY <3>2, <3>3, <3>4 DEF Fits
  <2> QED BY <1>3, <1>4, <2>2, <2>3, <2>4, FitsSuffices DEF OrgTables
<1> QED BY <1>5, <1>6

LEMMA SetActiveKeeps ==
  ASSUME O!OrgAssumption, OrgInv, NEW r \in Request, O!SetMemberActive(r)
  PROVE  OrgInv'
<1> DEFINE q == req[r]
<1> USE DEF OrgInv, OrgTypes
<1>1. q \in Call /\ q.op = "active"
  BY DEF O!SetMemberActive
<1>2. q.of \in User /\ q.on \in BOOLEAN
  BY <1>1 DEF Call, O!Idle
<1>3. req' \in [Request -> Call]
  BY FinishType DEF O!SetMemberActive
<1>4. /\ UNCHANGED <<there, role, misplaced>>
      /\ active' = IF q.on THEN active \cup {q.of} ELSE active \ {q.of}
      /\ assigned' = IF q.on /\ role[q.of] # "" THEN assigned \cup {q.of} ELSE assigned \ {q.of}
      /\ IF q.on THEN UNCHANGED <<picApps, freeApps, picOf>> ELSE O!ClearedFor("", q.of)
  BY DEF O!SetMemberActive
<1> HIDE DEF q
<1>5. OrgTables'
  BY <1>2, <1>4 DEF OrgTables, O!ClearedFor
<1>6. O!OneApplicationOnePIC'
  BY <1>2, <1>4 DEF OrgTables, O!OneApplicationOnePIC, O!ClearedFor
<1>7. ASSUME ~misplaced, NEW u \in User
      PROVE  Fits(u)'
  <2>1. Fits(u)
    BY <1>7 DEF O!PlacementFitsRole, Fits
  <2>2. CASE q.on
    <3>1. \A v \in User, ro \in O!Role : O!IsPlaced(v, ro) => O!IsPlaced(v, ro)'
      BY <1>2, <1>4, <2>2 DEF O!IsPlaced, O!Role
    <3> QED BY <1>4, <2>1, <2>2, <3>1 DEF Fits, OrgTables, O!Role
  <2>3. CASE ~q.on
    <3>1. \A v \in User \ {q.of}, ro \in O!Role : O!IsPlaced(v, ro) => O!IsPlaced(v, ro)'
      BY <1>2, <1>4, <2>3 DEF O!IsPlaced, O!Role
    <3>2. O!ClearedFor("", q.of)
      BY <1>4, <2>3
    <3>3. picApps'[u] # {} => picApps[u] # {} /\ u # q.of
      BY <1>2, <3>2 DEF O!ClearedFor, OrgTables
    <3>4. freeApps'[u] # {} => freeApps[u] # {} /\ u # q.of
      BY <1>2, <3>2 DEF O!ClearedFor, OrgTables
    <3>5. picOf'[u] # None => picOf'[u] = picOf[u] /\ picOf[u] # q.of /\ u # q.of
      BY <1>2, <3>2 DEF O!ClearedFor, OrgTables
    <3> QED BY <2>1, <3>1, <3>3, <3>4, <3>5 DEF Fits, OrgTables, O!Role
  <2> QED BY <2>2, <2>3
<1> QED BY <1>3, <1>4, <1>5, <1>6, <1>7, FitsSuffices DEF OrgTables

LEMMA SetAssignmentsKeeps ==
  ASSUME O!OrgAssumption, OrgInv, NEW r \in Request, O!SetMemberAssignments(r)
  PROVE  OrgInv'
<1> DEFINE q == req[r]
<1> USE DEF OrgInv, OrgTypes
<1>1. q \in Call /\ q.op = "assign" /\ q.at = "act"
  BY DEF O!SetMemberAssignments
<1>2. /\ q.of \in User /\ q.pic \in User \cup {None} /\ q.apps \in SUBSET Application
      /\ q.role \in {"pic", "freelance"}
  BY <1>1 DEF Call, O!Idle
<1>3. req' \in [Request -> Call]
  BY FinishType DEF O!SetMemberAssignments
<1>4. /\ \/ /\ q.role = "pic"
            /\ picApps' = IF O!UniqueIndex(q.of, q.apps) THEN [picApps EXCEPT ![q.of] = q.apps] ELSE picApps
            /\ UNCHANGED <<freeApps, picOf>>
         \/ /\ q.role = "freelance"
            /\ freeApps' = [freeApps EXCEPT ![q.of] = q.apps]
            /\ picOf' = [picOf EXCEPT ![q.of] = q.pic]
            /\ UNCHANGED picApps
      /\ misplaced' = (misplaced \/ ~O!IsPlaced(q.of, q.role) \/ (q.role = "freelance" /\ ~O!UnderPIC(q.pic)))
      /\ UNCHANGED <<there, active, role, assigned>>
  BY DEF O!SetMemberAssignments
<1> HIDE DEF q
<1>5. OrgTables'
  <2>1. misplaced' \in BOOLEAN
    BY <1>4
  <2> QED BY <1>2, <1>4, <2>1 DEF OrgTables
<1>6. O!OneApplicationOnePIC'
  <2>1. CASE picApps' = picApps
    BY <2>1 DEF O!OneApplicationOnePIC
  <2>2. CASE picApps' = [picApps EXCEPT ![q.of] = q.apps] /\ O!UniqueIndex(q.of, q.apps)
    <3>1. ASSUME NEW u \in User, NEW v \in User, u # v
          PROVE  picApps'[u] \cap picApps'[v] = {}
      <4>1. CASE u = q.of
        BY <3>1, <4>1, <2>2, <1>2 DEF OrgTables, O!UniqueIndex
      <4>2. CASE v = q.of
        BY <3>1, <4>2, <2>2, <1>2 DEF OrgTables, O!UniqueIndex
      <4>3. CASE u # q.of /\ v # q.of
        BY <3>1, <4>3, <2>2 DEF OrgTables, O!OneApplicationOnePIC
      <4> QED BY <4>1, <4>2, <4>3
    <3> QED BY <3>1 DEF O!OneApplicationOnePIC
  <2> QED BY <2>1, <2>2, <1>4
<1>7. ASSUME ~misplaced', NEW u \in User
      PROVE  Fits(u)'
  <2>1. ~misplaced /\ O!IsPlaced(q.of, q.role) /\ (q.role = "freelance" => O!UnderPIC(q.pic))
    BY <1>4, <1>7
  <2>2. Fits(u)
    BY <2>1 DEF O!PlacementFitsRole, Fits
  <2>3. \A v, ro : O!IsPlaced(v, ro) <=> O!IsPlaced(v, ro)'
    BY <1>4 DEF O!IsPlaced
  <2> QED BY <1>2, <1>4, <2>1, <2>2, <2>3 DEF Fits, OrgTables, O!UnderPIC
<1> QED BY <1>3, <1>5, <1>6, <1>7, FitsSuffices

LEMMA AttachKeeps ==
  ASSUME O!OrgAssumption, OrgInv, NEW r \in Request, O!AttachMemberFull(r)
  PROVE  OrgInv'
<1> DEFINE q == req[r]
<1> USE DEF OrgInv, OrgTypes
<1>1. q \in Call /\ q.op = "create" /\ q.at = "act"
  BY DEF O!AttachMemberFull
<1>2. /\ q.of \in User /\ q.pic \in User \cup {None} /\ q.apps \in SUBSET Application
      /\ q.role \in O!Role
  BY <1>1 DEF Call, O!Idle
<1>3. req' \in [Request -> Call]
  BY FinishType DEF O!AttachMemberFull
<1>4. /\ active' = active \cup {q.of}
      /\ role' = [role EXCEPT ![q.of] = q.role] /\ assigned' = assigned \cup {q.of}
      /\ picOf' = IF q.role = "freelance" /\ q.pic # None THEN [picOf EXCEPT ![q.of] = q.pic] ELSE picOf
      /\ freeApps' = IF q.role = "freelance" THEN [freeApps EXCEPT ![q.of] = freeApps[q.of] \cup q.apps] ELSE freeApps
      /\ misplaced' = (misplaced \/ role[q.of] # "" \/ ~O!UnderPIC(q.pic))
      /\ UNCHANGED <<there, picApps>>
  BY DEF O!AttachMemberFull
<1> HIDE DEF q
<1>5. OrgTables'
  <2>1. misplaced' \in BOOLEAN
    BY <1>4
  <2> QED BY <1>2, <1>4, <2>1 DEF OrgTables
<1>6. O!OneApplicationOnePIC'
  BY <1>4 DEF O!OneApplicationOnePIC
<1>7. ASSUME ~misplaced', NEW u \in User
      PROVE  Fits(u)'
  <2>1. ~misplaced /\ role[q.of] = "" /\ O!UnderPIC(q.pic)
    BY <1>4, <1>7
  <2>2. Fits(u) /\ Fits(q.of)
    BY <1>2, <2>1 DEF O!PlacementFitsRole, Fits
  <2>3. \A v \in User, ro \in O!Role : O!IsPlaced(v, ro) => v # q.of /\ O!IsPlaced(v, ro)'
    BY <1>2, <1>4, <2>1 DEF O!IsPlaced, OrgTables, O!Role
  <2>4. q.of \in assigned' /\ role'[q.of] = q.role
    BY <1>2, <1>4 DEF OrgTables
  <2>5. picApps'[u] # {} => O!IsPlaced(u, "pic")'
    BY <1>4, <2>2, <2>3 DEF Fits, O!Role
  <2>6. freeApps'[u] # {} => O!IsPlaced(u, "freelance")'
    <3>1. CASE u = q.of
      BY <1>2, <1>4, <2>2, <2>3, <2>4, <3>1 DEF Fits, OrgTables, O!Role, O!IsPlaced
    <3>2. CASE u # q.of
      BY <1>2, <1>4, <2>2, <2>3, <3>2 DEF Fits, OrgTables, O!Role
    <3> QED BY <3>1, <3>2
  <2>7. picOf'[u] # None => O!IsPlaced(u, "freelance")' /\ O!IsPlaced(picOf[u], "pic")'
    <3>1. CASE u = q.of /\ q.role = "freelance" /\ q.pic # None
      <4>1. picOf'[u] = q.pic /\ O!IsPlaced(q.pic, "pic") /\ q.pic \in User
        BY <1>2, <1>4, <2>1, <3>1 DEF OrgTables, O!UnderPIC
      <4>2. q.pic \in assigned' /\ role'[q.pic] = "pic"
        BY <1>2, <1>4, <2>1, <4>1 DEF OrgTables, O!IsPlaced
      <4> QED BY <4>1, <4>2, <2>4, <3>1 DEF O!IsPlaced
    <3>2. CASE ~(u = q.of /\ q.role = "freelance" /\ q.pic # None)
      <4>1. picOf'[u] = picOf[u] /\ picOf[u] \in User \cup {None}
        BY <1>2, <1>4, <3>2 DEF OrgTables
      <4> QED BY <4>1, <2>2, <2>3 DEF Fits, O!Role, O!IsPlaced
    <3> QED BY <3>1, <3>2
  <2> QED BY <2>5, <2>6, <2>7 DEF Fits
<1> QED BY <1>3, <1>5, <1>6, <1>7, FitsSuffices

-----------------------------------------------------------------------------
LEMMA OrgInit == ASSUME O!OrgAssumption, O!Init PROVE OrgInv
<1>1. OrgTables
  BY DEF O!Init, OrgTables, O!OrgAssumption
<1>2. req \in [Request -> Call]
  BY DEF O!Init, Call
<1>3. O!OneApplicationOnePIC /\ O!PlacementFitsRole
  BY DEF O!Init, O!OneApplicationOnePIC, O!PlacementFitsRole
<1> QED BY <1>1, <1>2, <1>3 DEF OrgInv, OrgTypes

LEMMA OrgNext == ASSUME O!OrgAssumption, OrgInv, [O!Next]_(O!vars) PROVE OrgInv'
<1> USE DEF OrgInv, OrgTypes
<1>1. ASSUME UNCHANGED <<there, O!tables, misplaced>>, req' \in [Request -> Call]
      PROVE  OrgInv'
  BY <1>1 DEF O!tables, OrgTables, O!OneApplicationOnePIC, O!PlacementFitsRole, O!IsPlaced
<1>2. ASSUME NEW r \in Request,
             O!Arrive(r) \/ O!MayManage(r) \/ O!ReadRole(r) \/ O!Verify(r) \/ O!ReadPlacement(r) \/ O!Dies(r)
      PROVE  OrgInv'
  <2>1. UNCHANGED <<there, O!tables, misplaced>>
    BY <1>2 DEF O!Arrive, O!MayManage, O!ReadRole, O!Verify, O!ReadPlacement, O!Dies
  <2>2. req' \in [Request -> Call]
    <3>1. CASE O!Dies(r)
      BY <3>1, FinishType DEF O!Dies
    <3> QED BY <1>2, <3>1, ArriveType, MayManageType, ReadRoleType, VerifyType, ReadPlacementType
  <2> QED BY <2>1, <2>2, <1>1
<1>3. ASSUME NEW r \in Request, O!CreateUser(r)
      PROVE  OrgInv'
  <2>1. req' \in [Request -> Call] /\ there' \subseteq User /\ active' \subseteq User
    BY <1>3, CreateUserType
  <2>2. UNCHANGED <<role, assigned, picApps, freeApps, picOf, misplaced>>
    BY <1>3 DEF O!CreateUser
  <2> QED BY <2>1, <2>2 DEF OrgTables, O!OneApplicationOnePIC, O!PlacementFitsRole, O!IsPlaced
<1>4. CASE UNCHANGED O!vars
  BY <1>4, <1>1 DEF O!vars, O!tables
<1> QED BY <1>2, <1>3, <1>4, SetRoleKeeps, SetActiveKeeps, SetAssignmentsKeeps, AttachKeeps DEF O!Next

-----------------------------------------------------------------------------
(***************************************************************************)
(* The labels of a number, for any labels, chats, names, requests and      *)
(* replays: they are what was last said of them, and the history and the   *)
(* reports' copy follow the assignments.  The variables, by their names    *)
(* there, but for assigned, which is tagged here:                          *)
(***************************************************************************)
rows == x1
tagged == x2
known == x3
claimed == x4
counted == x5
state == x6
net == x9
pending == x7
phone == x8
hand == x10
web == x11
now == x12
word == x13
heard == x14
gap == x16
behind == x17

USE DEF rows, tagged, known, claimed, counted, state, pending, net, phone, hand, web, now, word,
        heard, gap, behind

LabelRow == [wa : Nat, bound : BOOLEAN, name : Name \cup {None}, deleted : BOOLEAN, at : Nat]
Word == [name : Name \cup {None}, deleted : BOOLEAN]
Definition == [k : {"edit"}, w : Nat \ {0}, name : Name, deleted : {FALSE}, at : Nat \ {0}]
Tombstone == [k : {"edit"}, w : Nat \ {0}, name : {None}, deleted : {TRUE}, at : Nat \ {0}]
Association == [k : {"assoc"}, w : Nat, chat : Chat, on : BOOLEAN, at : Nat \ {0}]
Mutation == Definition \cup Tombstone \cup Association

(* Where a request stands. *)
Tag == [k : {"tag", "store", "record"}, c : Chat, l : Lab, on : BOOLEAN]
Then == {L!Ends} \cup {t \in Tag : t.k = "tag"}
Pushing == [k : {"push"}, l : Lab, del : BOOLEAN, then : Then]
Defining == [k : {"define", "adopt"}, l : Lab, del : BOOLEAN, then : Then, name : Name, w : Nat \ {0}]
Deleting == [k : {"delete", "drop"}, l : Lab]
Place == {L!Idle} \cup Tag \cup Pushing \cup Defining \cup Deleting

LabelTypes ==
  /\ rows \in [Lab -> LabelRow] /\ tagged \subseteq Chat \X Lab /\ known \subseteq Chat
  /\ claimed \subseteq net /\ net \subseteq Mutation /\ phone \subseteq Nat \ {0}
  /\ counted \in [Chat \X Lab -> Int] /\ state \in [Chat -> SUBSET Lab]
  /\ web \in [Editor -> Place] /\ now \in Nat
  /\ word \in [Lab -> Word] /\ heard \in [Lab -> Nat]

(* A row that exists keeps a name, deleted or not. *)
Named(l) == rows[l].name \in Name
RowsNamed == \A l \in Lab : rows[l] = L!NoRow \/ Named(l)

(* Where the event goroutine stands. *)
Writing == {"write", "record"}
HandStands ==
  \/ hand = L!Idle
  \/ hand.k = "edit" /\ hand.e \in (Definition \cup Tombstone) \cap claimed
  \/ hand.k = "assoc" /\ hand.e \in Association
  \/ hand.k = "drop" /\ hand.l \in Lab
  \/ hand.k = "drain" /\ hand = [k |-> "drain", w |-> hand.w, chats |-> hand.chats]
  \/ /\ hand.k \in Writing /\ hand.c \in Chat /\ hand.l \in Lab /\ hand.on \in BOOLEAN
     /\ hand = [k |-> hand.k, c |-> hand.c, l |-> hand.l, on |-> hand.on, w |-> hand.w,
                chats |-> hand.chats]
HandNamed == hand.k \in Writing => Named(hand.l)
TagsNamed == \A p \in tagged : Named(p[2])
SentNamed == \A q \in Editor : web[q].k \in {"define", "adopt"} => Named(web[q].l)

LabelShape == LabelTypes /\ RowsNamed /\ HandStands /\ HandNamed /\ TagsNamed /\ SentNamed

(* Two mutations never carry the same time, so what a row has heard last is *)
(* one of them, and not the one in hand.                                   *)
OneTime == \A e \in net : e.at <= now /\ \A f \in net : e.at = f.at => e = f
HeardIsAt ==
  \A l \in Lab : heard[l] = rows[l].at /\ (heard[l] = 0 \/ \E e \in claimed : e.at = heard[l])
HandIsNew == hand.k = "edit" => \A l \in Lab : heard[l] # hand.e.at

LabelInv ==
  /\ LabelShape /\ OneTime /\ HeardIsAt /\ HandIsNew
  /\ L!LastWordStands /\ L!HistoryAddsUp /\ L!StateIsCurrent

-----------------------------------------------------------------------------
LEMMA LabelSizes == ASSUME NEW X PROVE L!Cardinality(X) = Cardinality(X)
BY Zenon DEF L!Cardinality, Cardinality

LEMMA LabelsFinite == IsFiniteSet(Lab) /\ IsFiniteSet(Editor)
<1>1. L!IsFiniteSet(Lab) /\ L!IsFiniteSet(Editor)
  BY LabelsAssumption DEF L!LabelsAssumption
<1> QED BY <1>1, Zenon DEF L!IsFiniteSet, IsFiniteSet

(* A nonempty finite set of numbers has a greatest: by induction on finite *)
(* sets, as a least counterexample.                                        *)
LEMMA HasGreatest ==
  ASSUME NEW Numbers \in SUBSET Nat, IsFiniteSet(Numbers), Numbers # {}
  PROVE  \E m \in Numbers : \A n \in Numbers : n <= m
<1> DEFINE Top(U, m) == m \in U /\ \A n \in U : n <= m
           Bad == {U \in FiniteSubsetsOf(Numbers) : U # {} /\ ~\E m \in U : Top(U, m)}
<1>2. Bad = {}
  <2> SUFFICES ASSUME Bad # {} PROVE FALSE
    OBVIOUS
  <2>1. PICK U \in Bad : \A V \in Bad : <<V, U>> \notin StrictSubsetOrdering(Numbers)
    <3>1. Bad \subseteq FiniteSubsetsOf(Numbers)
      OBVIOUS
    <3> QED BY <3>1, FS_StrictSubsetOrderingWellFounded, WFMin
  <2>2. U \in SUBSET Numbers /\ IsFiniteSet(U) /\ U # {} /\ ~\E m \in U : Top(U, m)
    BY DEF FiniteSubsetsOf
  <2>3. PICK x \in U : TRUE
    BY <2>2
  <2>4. U \ {x} # {}
    <3> SUFFICES ASSUME U = {x} PROVE FALSE
      BY <2>3
    <3>1. Top(U, x)
      BY <2>2
    <3> QED BY <2>2, <3>1
  <2>5. U \ {x} \notin Bad
    <3>1. <<U \ {x}, U>> \in StrictSubsetOrdering(Numbers)
      BY <2>2, <2>3 DEF StrictSubsetOrdering
    <3> QED BY <2>1, <3>1
  <2>6. U \ {x} \in FiniteSubsetsOf(Numbers)
    BY <2>2, FS_RemoveElement DEF FiniteSubsetsOf
  <2>7. PICK m \in U \ {x} : Top(U \ {x}, m)
    BY <2>4, <2>5, <2>6
  <2>8. Top(U, m) \/ Top(U, x)
    <3>1. CASE x <= m
      BY <2>7, <3>1
    <3>2. CASE ~(x <= m)
      BY <2>2, <2>3, <2>7, <3>2
    <3> QED BY <3>1, <3>2
  <2> QED BY <2>2, <2>3, <2>7, <2>8
<1> QED BY <1>2 DEF FiniteSubsetsOf

\* The id picked for a label is a number of the range the web hands out.
LEMMA NextId ==
  ASSUME LabelTypes
  PROVE  L!NextWALabelID \in Nat \ {0}
<1> DEFINE used == {rows[l].wa + 1 : l \in Lab}
           Numbers == {FirstLabel} \cup used
           f == [l \in Lab |-> rows[l].wa + 1]
<1>1. IsFiniteSet(used)
  <2>1. f \in Surjection(Lab, used)
    BY DEF Surjection
  <2> QED BY <2>1, LabelsFinite, FS_Surjection
<1>2. IsFiniteSet(Numbers) /\ FirstLabel \in Numbers
  BY <1>1, FS_AddElement
<1>3. Numbers \subseteq Nat \ {0}
  BY LabelsAssumption DEF L!LabelsAssumption, LabelTypes, LabelRow
<1>4. \E m \in Numbers : \A n \in Numbers : n <= m
  BY <1>2, <1>3, HasGreatest
<1>5. \E m \in Numbers : \A n \in Numbers : m >= n
  BY <1>3, <1>4
<1>6. L!NextWALabelID = CHOOSE x \in Numbers : \A y \in Numbers : x >= y
  BY DEF L!NextWALabelID, L!Max
<1> HIDE DEF Numbers
<1> QED BY <1>3, <1>5, <1>6

-----------------------------------------------------------------------------
(* The shapes of rows, processes and mutations *)

NamesStay == \A l \in Lab : Named(l) => Named(l)'

\* One row changes, and keeps a name or gets one.
LEMMA RowChanges ==
  ASSUME LabelTypes, RowsNamed, NEW l \in Lab, NEW r \in LabelRow, r.name \in Name,
         rows' = [rows EXCEPT ![l] = r]
  PROVE  rows' \in [Lab -> LabelRow] /\ RowsNamed' /\ NamesStay
BY DEF LabelTypes, RowsNamed, Named, NamesStay

LEMMA RowsRest ==
  ASSUME LabelTypes, RowsNamed, UNCHANGED rows
  PROVE  rows' \in [Lab -> LabelRow] /\ RowsNamed' /\ NamesStay
BY DEF LabelTypes, RowsNamed, Named, NamesStay

\* What is noted of a mutation.
LEMMA SaidTypes ==
  ASSUME LabelTypes, NEW l \in Lab, NEW e \in Definition \cup Tombstone, L!Said(l, e)
  PROVE  word' \in [Lab -> Word] /\ heard' \in [Lab -> Nat]
<1>1. e.at \in Nat /\ e.deleted \in BOOLEAN /\ e.name \in Name \cup {None}
  BY DEF Definition, Tombstone
<1>2. word[l] \in Word
  BY DEF LabelTypes
<1>3. [name |-> IF e.deleted THEN word[l].name ELSE e.name, deleted |-> e.deleted] \in Word
  BY <1>1, <1>2 DEF Word
<1> QED BY <1>1, <1>3 DEF L!Said, LabelTypes

\* A row that a mutation meets is one that was made.
LEMMA RowMet ==
  ASSUME LabelTypes, RowsNamed, NEW w \in Nat \ {0}, NEW l \in L!RowOf(w)
  PROVE  l \in Lab /\ Named(l) /\ rows[l] \in LabelRow
BY DEF L!RowOf, RowsNamed, Named, L!NoRow, LabelTypes

LEMMA FreeRow ==
  ASSUME NEW l \in L!Free
  PROVE  l \in Lab /\ rows[l] = L!NoRow
BY DEF L!Free

LEMMA LiveNamed ==
  ASSUME RowsNamed, NEW l \in Lab, L!Live(l)
  PROVE  Named(l)
BY DEF RowsNamed, L!Live

LEMMA DefinedRows ==
  ASSUME LabelShape, NEW e \in Definition, L!LabelDefined(e)
  PROVE  /\ rows' \in [Lab -> LabelRow] /\ RowsNamed' /\ NamesStay
         /\ word' \in [Lab -> Word] /\ heard' \in [Lab -> Nat]
<1>0. /\ LabelTypes /\ RowsNamed
      /\ e.w \in Nat \ {0} /\ e.name \in Name /\ e.at \in Nat
  BY DEF LabelShape, Definition
<1>1. ASSUME NEW l \in L!Free, L!Said(l, e),
             rows' = [rows EXCEPT ![l] = [wa |-> e.w, bound |-> TRUE, name |-> e.name,
                                          deleted |-> FALSE, at |-> e.at]]
      PROVE  /\ rows' \in [Lab -> LabelRow] /\ RowsNamed' /\ NamesStay
             /\ word' \in [Lab -> Word] /\ heard' \in [Lab -> Nat]
  <2>1. [wa |-> e.w, bound |-> TRUE, name |-> e.name, deleted |-> FALSE, at |-> e.at] \in LabelRow
    BY <1>0 DEF LabelRow
  <2> QED BY <1>0, <1>1, <2>1, FreeRow, RowChanges, SaidTypes
<1>2. ASSUME NEW l \in L!RowOf(e.w), L!Said(l, e),
             \/ rows' = [rows EXCEPT ![l].name = e.name, ![l].deleted = FALSE, ![l].at = e.at]
             \/ UNCHANGED rows
      PROVE  /\ rows' \in [Lab -> LabelRow] /\ RowsNamed' /\ NamesStay
             /\ word' \in [Lab -> Word] /\ heard' \in [Lab -> Nat]
  <2> DEFINE r == [rows[l] EXCEPT !.name = e.name, !.deleted = FALSE, !.at = e.at]
  <2>0. l \in Lab /\ rows[l] \in LabelRow
    BY <1>0, <1>2, RowMet
  <2>1. r \in LabelRow /\ r.name \in Name
    BY <1>0, <2>0 DEF LabelRow
  <2>2. rows' = [rows EXCEPT ![l] = r] \/ UNCHANGED rows
    BY <1>0, <1>2, <2>0 DEF LabelTypes
  <2> HIDE DEF r
  <2> QED BY <1>0, <1>2, <2>0, <2>1, <2>2, RowChanges, RowsRest, SaidTypes
<1> QED BY <1>1, <1>2 DEF L!LabelDefined

LEMMA DeletedRows ==
  ASSUME LabelShape, NEW e \in Tombstone, L!LabelDeleted(e)
  PROVE  /\ rows' \in [Lab -> LabelRow] /\ RowsNamed' /\ NamesStay
         /\ word' \in [Lab -> Word] /\ heard' \in [Lab -> Nat]
<1>0. LabelTypes /\ RowsNamed /\ e.w \in Nat \ {0} /\ e.at \in Nat
  BY DEF LabelShape, Tombstone
<1>1. ASSUME NEW l \in L!RowOf(e.w), L!Said(l, e),
             rows' = [rows EXCEPT ![l].deleted = TRUE, ![l].at = e.at]
      PROVE  /\ rows' \in [Lab -> LabelRow] /\ RowsNamed' /\ NamesStay
             /\ word' \in [Lab -> Word] /\ heard' \in [Lab -> Nat]
  <2> DEFINE r == [rows[l] EXCEPT !.deleted = TRUE, !.at = e.at]
  <2>0. l \in Lab /\ rows[l] \in LabelRow /\ rows[l].name \in Name
    BY <1>0, <1>1, RowMet DEF Named
  <2>1. r \in LabelRow /\ r.name \in Name
    BY <1>0, <2>0 DEF LabelRow
  <2>2. rows' = [rows EXCEPT ![l] = r]
    BY <1>0, <1>1, <2>0 DEF LabelTypes
  <2> HIDE DEF r
  <2> QED BY <1>0, <1>1, <2>0, <2>1, <2>2, RowChanges, SaidTypes
<1>2. CASE ~\E l \in L!RowOf(e.w) : L!Newer(l, e)
  <2>1. UNCHANGED rows
    BY <1>2 DEF L!LabelDeleted
  <2>2. word' \in [Lab -> Word] /\ heard' \in [Lab -> Nat]
    <3>1. CASE L!RowOf(e.w) = {}
      BY <1>0, <1>2, <3>1 DEF L!LabelDeleted, LabelTypes
    <3>2. ASSUME NEW l \in L!RowOf(e.w) PROVE word' \in [Lab -> Word] /\ heard' \in [Lab -> Nat]
      <4>1. L!Said(l, e) /\ l \in Lab
        BY <1>0, <1>2, <3>2, RowMet DEF L!LabelDeleted
      <4> QED BY <1>0, <4>1, SaidTypes
    <3> QED BY <3>1, <3>2
  <2> QED BY <1>0, <2>1, <2>2, RowsRest
<1>3. CASE \E l \in L!RowOf(e.w) : L!Newer(l, e)
  <2>1. PICK l \in L!RowOf(e.w) :
          L!Said(l, e) /\ rows' = [rows EXCEPT ![l].deleted = TRUE, ![l].at = e.at]
    BY <1>3 DEF L!LabelDeleted
  <2> QED BY <1>1, <2>1
<1> QED BY <1>2, <1>3

\* The goroutine's mutation, where it has one.
LEMMA HandEdit ==
  ASSUME LabelShape, hand.k = "edit"
  PROVE  /\ hand.e \in claimed
         /\ \/ hand.e \in Definition /\ ~hand.e.deleted
            \/ hand.e \in Tombstone /\ hand.e.deleted
<1>1. hand.e \in (Definition \cup Tombstone) \cap claimed
  BY DEF LabelShape, HandStands, L!Idle, Writing
<1> QED BY <1>1 DEF Definition, Tombstone

\* A request that has its definition on the way.
LEMMA PlaceFields ==
  ASSUME LabelTypes, NEW q \in Editor
  PROVE  /\ web[q] \in Place
         /\ web[q].k = "push" => web[q] \in Pushing
         /\ web[q].k \in {"define", "adopt"} => web[q] \in Defining
         /\ web[q].k \in {"tag", "store", "record"} => web[q] \in Tag
         /\ web[q].k \in {"delete", "drop"} => web[q] \in Deleting
<1>1. web[q] \in Place
  BY DEF LabelTypes
<1> QED BY <1>1 DEF Place, L!Idle, Tag, Pushing, Defining, Deleting

RowFacts ==
  /\ rows' \in [Lab -> LabelRow] /\ RowsNamed' /\ NamesStay
  /\ word' \in [Lab -> Word] /\ heard' \in [Lab -> Nat]

LEMMA RowsNext ==
  ASSUME LabelShape, L!Next
  PROVE  RowFacts
<1>0. LabelTypes /\ RowsNamed
  BY DEF LabelShape
<1>1. CASE L!UpsertWALabel
  <2>1. hand.k = "edit" /\ IF hand.e.deleted THEN L!LabelDeleted(hand.e) ELSE L!LabelDefined(hand.e)
    BY <1>1 DEF L!UpsertWALabel
  <2> QED BY <2>1, HandEdit, DefinedRows, DeletedRows DEF RowFacts
<1>2. ASSUME NEW q \in Editor, L!CreateLabel(q) PROVE RowFacts
  <2>1. PICK l \in L!Free, n \in Name, b \in BOOLEAN :
          /\ rows' = [rows EXCEPT ![l] = [wa |-> 0, bound |-> b, name |-> n, deleted |-> FALSE, at |-> 0]]
          /\ word' = [word EXCEPT ![l] = [name |-> n, deleted |-> FALSE]]
          /\ UNCHANGED heard
    BY <1>2 DEF L!CreateLabel
  <2>2. [wa |-> 0, bound |-> b, name |-> n, deleted |-> FALSE, at |-> 0] \in LabelRow
    BY DEF LabelRow
  <2>3. word' \in [Lab -> Word] /\ heard' \in [Lab -> Nat]
    BY <1>0, <2>1 DEF LabelTypes, Word
  <2> QED BY <1>0, <2>1, <2>2, <2>3, FreeRow, RowChanges DEF RowFacts
<1>3. ASSUME NEW q \in Editor, L!UpdateLabel(q) PROVE RowFacts
  <2>1. PICK l \in Lab, n \in Name :
          /\ rows' = [rows EXCEPT ![l].name = n]
          /\ word' = [word EXCEPT ![l].name = n]
          /\ UNCHANGED heard
    BY <1>3 DEF L!UpdateLabel
  <2> DEFINE r == [rows[l] EXCEPT !.name = n]
  <2>2. r \in LabelRow /\ r.name \in Name /\ rows' = [rows EXCEPT ![l] = r]
    BY <1>0, <2>1 DEF LabelTypes, LabelRow
  <2>3. word' \in [Lab -> Word] /\ heard' \in [Lab -> Nat]
    BY <1>0, <2>1 DEF LabelTypes, Word
  <2> HIDE DEF r
  <2> QED BY <1>0, <2>2, <2>3, RowChanges DEF RowFacts
<1>4. ASSUME NEW q \in Editor, L!AdoptWALabelID(q) PROVE RowFacts
  <2> DEFINE l == web[q].l
             r == [rows[l] EXCEPT !.wa = web[q].w, !.bound = TRUE]
  <2>1. /\ rows' = rows \/ rows' = [rows EXCEPT ![l].wa = web[q].w, ![l].bound = TRUE]
        /\ UNCHANGED <<word, heard>> /\ web[q].k = "adopt"
    BY <1>4 DEF L!AdoptWALabelID, L!ghosts
  <2>2. l \in Lab /\ web[q].w \in Nat /\ Named(l)
    BY <1>0, <2>1, PlaceFields DEF Defining, LabelShape, SentNamed
  <2>3. rows[l] \in LabelRow
    BY <1>0, <2>2 DEF LabelTypes
  <2>4. r \in LabelRow /\ r.name \in Name
    BY <2>2, <2>3 DEF LabelRow, Named
  <2>5. rows' = rows \/ rows' = [rows EXCEPT ![l] = r]
    BY <1>0, <2>1, <2>2, <2>3 DEF LabelTypes
  <2>6. word' \in [Lab -> Word] /\ heard' \in [Lab -> Nat]
    BY <1>0, <2>1 DEF LabelTypes
  <2> HIDE DEF l, r
  <2> QED BY <1>0, <2>2, <2>4, <2>5, <2>6, RowChanges, RowsRest DEF RowFacts
<1>5. ASSUME NEW q \in Editor, L!DeleteLabel(q) PROVE RowFacts
  <2> DEFINE l == web[q].l
             r == [rows[l] EXCEPT !.deleted = TRUE]
  <2>0. l \in Lab
    BY <1>0, <1>5, PlaceFields DEF L!DeleteLabel, Deleting
  <2>1. CASE L!Live(l)
    <3>1. rows' = [rows EXCEPT ![l].deleted = TRUE] /\ word' = [word EXCEPT ![l].deleted = TRUE]
          /\ UNCHANGED heard
      BY <1>5, <2>1 DEF L!DeleteLabel
    <3>2. rows[l] \in LabelRow /\ Named(l)
      BY <1>0, <2>0, <2>1, LiveNamed DEF LabelTypes
    <3>3. r \in LabelRow /\ r.name \in Name /\ rows' = [rows EXCEPT ![l] = r]
      BY <1>0, <2>0, <3>1, <3>2 DEF LabelTypes, LabelRow, Named
    <3>4. word' \in [Lab -> Word] /\ heard' \in [Lab -> Nat]
      BY <1>0, <2>0, <3>1 DEF LabelTypes, Word
    <3> HIDE DEF r, l
    <3> QED BY <1>0, <2>0, <3>3, <3>4, RowChanges DEF RowFacts
  <2>2. CASE ~L!Live(l)
    <3>1. UNCHANGED <<rows, word, heard>>
      BY <1>5, <2>2 DEF L!DeleteLabel
    <3> QED BY <1>0, <3>1, RowsRest DEF RowFacts, LabelTypes
  <2> QED BY <2>1, <2>2
<1>6. ASSUME UNCHANGED <<rows, word, heard>> PROVE RowFacts
  BY <1>0, <1>6, RowsRest DEF RowFacts, LabelTypes
<1>7. CASE L!PhoneEdits \/ L!PhoneDeletes \/ L!PhoneTags \/ L!ChatAppears \/ L!HandDrops
           \/ L!ResolveAssociation \/ L!DrainPendingLabels \/ L!SetChatLabelByWAID
           \/ L!HandRecords \/ L!Crash \/ \E e \in net : L!ClaimLabelEvent(e)
  BY <1>6, <1>7 DEF L!PhoneEdits, L!PhoneDeletes, L!PhoneTags, L!ChatAppears, L!HandDrops,
      L!ResolveAssociation, L!DrainPendingLabels, L!SetChatLabelByWAID, L!HandRecords, L!Crash,
      L!ClaimLabelEvent, L!DropAssignments, L!SetAssigned, L!RecordLabelEvent, L!tables, L!ghosts
<1>8. ASSUME NEW q \in Editor,
             L!RequestDelete(q) \/ L!RequestTag(q) \/ L!PushLabelDefinition(q) \/ L!SendDefinition(q)
             \/ L!PushChatLabel(q) \/ L!AssignLabel(q) \/ L!WebRecords(q) \/ L!WebDrops(q)
      PROVE  RowFacts
  BY <1>6, <1>8 DEF L!RequestDelete, L!RequestTag, L!PushLabelDefinition, L!SendDefinition,
      L!PushChatLabel, L!AssignLabel, L!WebRecords, L!WebDrops, L!DropAssignments, L!SetAssigned,
      L!RecordLabelEvent, L!tables, L!ghosts
<1> QED BY <1>1, <1>2, <1>3, <1>4, <1>5, <1>7, <1>8 DEF L!Next, L!Requests

-----------------------------------------------------------------------------
PlaceFacts == web' \in [Editor -> Place] /\ SentNamed'

\* A request goes on to a step whose label, if it is on its way, is there.
LEMMA GoesOn ==
  ASSUME LabelTypes, SentNamed, NamesStay, NEW q \in Editor, NEW s \in Place, L!Goes(q, s),
         s.k \in {"define", "adopt"} => Named(s.l)
  PROVE  PlaceFacts
<1>1. web' = [web EXCEPT ![q] = s]
  BY DEF L!Goes
<1>2. web' \in [Editor -> Place]
  BY <1>1 DEF LabelTypes
<1>3. ASSUME NEW p \in Editor, web'[p].k \in {"define", "adopt"} PROVE Named(web[p].l)'
  <2>1. Named(web'[p].l)
    BY <1>1, <1>3 DEF SentNamed, LabelTypes
  <2>2. web'[p] \in Place
    BY <1>2
  <2>3. web'[p] \in Defining
    BY <1>3, <2>2 DEF Place, L!Idle, Tag, Pushing, Defining, Deleting
  <2>4. web'[p].l \in Lab
    BY <2>3 DEF Defining
  <2> QED BY <2>1, <2>4 DEF NamesStay, Named
<1> QED BY <1>2, <1>3 DEF PlaceFacts, SentNamed

LEMMA PlacesRest ==
  ASSUME LabelTypes, SentNamed, NamesStay, UNCHANGED web
  PROVE  PlaceFacts
<1>1. ASSUME NEW p \in Editor, web[p].k \in {"define", "adopt"} PROVE Named(web[p].l)'
  BY <1>1, PlaceFields DEF SentNamed, NamesStay, Defining, Named
<1> QED BY <1>1 DEF PlaceFacts, SentNamed, LabelTypes

LEMMA FailsOn ==
  ASSUME LabelTypes, SentNamed, NamesStay, NEW q \in Editor, web[q].k \in {"push", "define"},
         L!Fails(q)
  PROVE  PlaceFacts
<1> DEFINE s == IF web[q].del THEN [k |-> "delete", l |-> web[q].l] ELSE L!Idle
<1>1. web[q].l \in Lab
  BY PlaceFields DEF Pushing, Defining
<1>2. s \in Place /\ s.k \notin {"define", "adopt"}
  BY <1>1 DEF Place, Deleting, L!Idle
<1>3. L!Goes(q, s)
  BY DEF L!Fails
<1> HIDE DEF s
<1> QED BY <1>2, <1>3, GoesOn

LEMMA IdleOn ==
  ASSUME LabelTypes, SentNamed, NamesStay, NEW q \in Editor, L!Goes(q, L!Idle)
  PROVE  PlaceFacts
<1>1. L!Idle \in Place /\ L!Idle.k \notin {"define", "adopt"}
  BY DEF Place, L!Idle
<1> QED BY <1>1, GoesOn

LEMMA PushOn ==
  ASSUME LabelTypes, SentNamed, NamesStay, NEW q \in Editor, NEW l \in Lab, NEW t \in Then,
         L!Goes(q, L!Push(l, t)) \/ L!Goes(q, [L!Push(l, t) EXCEPT !.del = TRUE])
  PROVE  PlaceFacts
<1> DEFINE s == L!Push(l, t)
           d == [s EXCEPT !.del = TRUE]
<1>1. s \in Pushing /\ d \in Pushing
  BY DEF L!Push, Pushing
<1>2. /\ s \in Place /\ s.k \notin {"define", "adopt"}
      /\ d \in Place /\ d.k \notin {"define", "adopt"}
  BY <1>1 DEF Place, Pushing
<1> HIDE DEF s, d
<1> QED BY <1>2, GoesOn DEF s, d

LEMMA TagOn ==
  ASSUME LabelTypes, SentNamed, NamesStay, NEW q \in Editor, NEW s \in Tag, L!Goes(q, s)
  PROVE  PlaceFacts
<1>1. s \in Place /\ s.k \notin {"define", "adopt"}
  BY DEF Tag, Place
<1> QED BY <1>1, GoesOn

LEMMA PlacesNext ==
  ASSUME LabelShape, L!Next
  PROVE  PlaceFacts
<1>0. LabelTypes /\ SentNamed /\ NamesStay /\ RowsNamed
  BY RowsNext DEF LabelShape, RowFacts
<1>1. ASSUME NEW q \in Editor, L!CreateLabel(q) PROVE PlaceFacts
  <2>1. PICK l \in Lab, b \in BOOLEAN : L!Goes(q, IF b THEN L!Push(l, L!Ends) ELSE L!Idle)
    BY <1>1 DEF L!CreateLabel, L!Free
  <2>2. L!Ends \in Then
    BY DEF Then
  <2> QED BY <1>0, <2>1, <2>2, IdleOn, PushOn
<1>2. ASSUME NEW q \in Editor, L!UpdateLabel(q) PROVE PlaceFacts
  <2>1. PICK l \in Lab : L!Goes(q, IF rows[l].bound THEN L!Push(l, L!Ends) ELSE L!Idle)
    BY <1>2 DEF L!UpdateLabel
  <2>2. L!Ends \in Then
    BY DEF Then
  <2>3. L!Goes(q, L!Push(l, L!Ends)) \/ L!Goes(q, L!Idle)
    BY <2>1, <2>2
  <2> QED BY <1>0, <2>2, <2>3, IdleOn, PushOn
<1>3. ASSUME NEW q \in Editor, L!RequestDelete(q) PROVE PlaceFacts
  <2>1. PICK l \in Lab : L!Goes(q, IF rows[l].bound THEN [L!Push(l, L!Ends) EXCEPT !.del = TRUE]
                                   ELSE [k |-> "delete", l |-> l])
    BY <1>3 DEF L!RequestDelete
  <2>2. [k |-> "delete", l |-> l] \in Place /\ L!Ends \in Then
    BY DEF Place, Deleting, Then
  <2>3. \/ L!Goes(q, [L!Push(l, L!Ends) EXCEPT !.del = TRUE])
        \/ L!Goes(q, [k |-> "delete", l |-> l])
    BY <2>1
  <2>4. [k |-> "delete", l |-> l].k \notin {"define", "adopt"}
    OBVIOUS
  <2> QED BY <1>0, <2>2, <2>3, <2>4, PushOn, GoesOn
<1>4. ASSUME NEW q \in Editor, L!RequestTag(q) PROVE PlaceFacts
  <2>1. PICK c \in known, l \in Lab, on \in BOOLEAN :
          LET tag == [k |-> "tag", c |-> c, l |-> l, on |-> on] IN
          L!Goes(q, IF rows[l].wa = 0 THEN L!Push(l, tag) ELSE tag)
    BY <1>4 DEF L!RequestTag
  <2> DEFINE tag == [k |-> "tag", c |-> c, l |-> l, on |-> on]
  <2>2. tag \in Tag /\ tag \in Then
    BY <1>0 DEF Tag, Then, LabelTypes
  <2>3. L!Goes(q, L!Push(l, tag)) \/ L!Goes(q, tag)
    BY <2>1, <2>2
  <2> HIDE DEF tag
  <2> QED BY <1>0, <2>2, <2>3, TagOn, PushOn
<1>5. ASSUME NEW q \in Editor, L!PushLabelDefinition(q) PROVE PlaceFacts
  <2> DEFINE p == web[q]
             s == [k |-> "define", l |-> p.l, del |-> p.del, then |-> p.then, name |-> rows[p.l].name,
                   w |-> IF rows[p.l].wa = 0 THEN L!NextWALabelID ELSE rows[p.l].wa]
  <2>0. web[q].k = "push"
    BY <1>5 DEF L!PushLabelDefinition
  <2>1. p \in Pushing
    BY <1>0, <2>0, PlaceFields
  <2>2. L!Fails(q) \/ L!Goes(q, L!Idle) \/ (L!Live(p.l) /\ L!Goes(q, s))
    BY <1>5 DEF L!PushLabelDefinition
  <2>3. CASE L!Live(p.l) /\ L!Goes(q, s)
    <3>1. p.l \in Lab /\ Named(p.l) /\ rows[p.l] \in LabelRow
      BY <1>0, <2>1, <2>3, LiveNamed DEF Pushing, LabelTypes
    <3>2. L!NextWALabelID \in Nat \ {0}
      BY <1>0, NextId
    <3>3. s \in Defining
      BY <2>1, <3>1, <3>2 DEF Pushing, Defining, LabelRow, Named
    <3>4. s \in Place /\ s.l = p.l
      BY <3>3 DEF Place
    <3> HIDE DEF s
    <3> QED BY <1>0, <2>3, <3>1, <3>4, GoesOn
  <2> HIDE DEF s
  <2> QED BY <1>0, <2>0, <2>2, <2>3, FailsOn, IdleOn
<1>6. ASSUME NEW q \in Editor, L!SendDefinition(q) PROVE PlaceFacts
  <2>0. web[q].k = "define" /\ (L!Fails(q) \/ L!Goes(q, [web[q] EXCEPT !.k = "adopt"]))
    BY <1>6 DEF L!SendDefinition
  <2> DEFINE s == [web[q] EXCEPT !.k = "adopt"]
  <2>1. web[q] \in Defining /\ Named(web[q].l)
    BY <1>0, <2>0, PlaceFields DEF SentNamed
  <2>2. s \in Place /\ s.l = web[q].l
    BY <2>1 DEF Place, Defining
  <2> HIDE DEF s
  <2>3. L!Fails(q) \/ L!Goes(q, s)
    BY <2>0 DEF s
  <2> QED BY <1>0, <2>0, <2>1, <2>2, <2>3, FailsOn, GoesOn
<1>7. ASSUME NEW q \in Editor, L!AdoptWALabelID(q) PROVE PlaceFacts
  <2>1. web[q].k = "adopt" /\ \/ L!Goes(q, L!Idle)
                              \/ web[q].then # L!Ends /\ L!Goes(q, web[q].then)
    BY <1>7 DEF L!AdoptWALabelID
  <2>2. web[q].then \in {L!Ends} \cup Tag
    BY <1>0, <2>1, PlaceFields DEF Defining, Then
  <2> QED BY <1>0, <2>1, <2>2, IdleOn, TagOn
<1>8. ASSUME NEW q \in Editor, L!PushChatLabel(q) \/ L!AssignLabel(q) \/ L!WebRecords(q) PROVE PlaceFacts
  <2>1. /\ web[q].k \in {"tag", "store", "record"}
        /\ \/ L!Goes(q, L!Idle)
           \/ \E k \in {"store", "record"} : L!Goes(q, [web[q] EXCEPT !.k = k])
    BY <1>8 DEF L!PushChatLabel, L!AssignLabel, L!WebRecords
  <2>2. ASSUME NEW k \in {"store", "record"} PROVE [web[q] EXCEPT !.k = k] \in Tag
    BY <1>0, <2>1, PlaceFields DEF Tag
  <2> QED BY <1>0, <2>1, <2>2, IdleOn, TagOn
<1>9. ASSUME NEW q \in Editor, L!DeleteLabel(q) \/ L!WebDrops(q) PROVE PlaceFacts
  <2> DEFINE s == [k |-> "drop", l |-> web[q].l]
  <2>1. web[q].k \in {"delete", "drop"} /\ (L!Goes(q, L!Idle) \/ L!Goes(q, s))
    BY <1>9 DEF L!DeleteLabel, L!WebDrops
  <2>2. s \in Place /\ s.k \notin {"define", "adopt"}
    BY <1>0, <2>1, PlaceFields DEF Place, Deleting
  <2> HIDE DEF s
  <2> QED BY <1>0, <2>1, <2>2, IdleOn, GoesOn
<1>10. CASE L!Crash
  <2>1. web' = [q \in Editor |-> L!Idle]
    BY <1>10 DEF L!Crash
  <2> QED BY <2>1 DEF PlaceFacts, SentNamed, Place, L!Idle
<1>11. CASE L!PhoneEdits \/ L!PhoneDeletes \/ L!PhoneTags \/ L!ChatAppears \/ L!HandDrops
           \/ L!ResolveAssociation \/ L!DrainPendingLabels \/ L!SetChatLabelByWAID
           \/ L!HandRecords \/ L!UpsertWALabel \/ \E e \in net : L!ClaimLabelEvent(e)
  <2>1. UNCHANGED web
    BY <1>11 DEF L!PhoneEdits, L!PhoneDeletes, L!PhoneTags, L!ChatAppears, L!HandDrops,
      L!ResolveAssociation, L!DrainPendingLabels, L!SetChatLabelByWAID, L!HandRecords,
      L!UpsertWALabel, L!ClaimLabelEvent
  <2> QED BY <1>0, <2>1, PlacesRest
<1> QED BY <1>1, <1>2, <1>3, <1>4, <1>5, <1>6, <1>7, <1>8, <1>9, <1>10, <1>11 DEF L!Next, L!Requests

-----------------------------------------------------------------------------
HandFacts == HandStands' /\ HandNamed'

LEMMA HandRests ==
  ASSUME LabelShape, NamesStay, UNCHANGED hand, claimed \subseteq claimed'
  PROVE  HandFacts
<1>1. HandStands'
  BY DEF LabelShape, HandStands
<1>2. HandNamed'
  <2> SUFFICES ASSUME hand.k \in Writing PROVE Named(hand.l)'
    BY DEF HandNamed
  <2>1. hand.l \in Lab /\ Named(hand.l)
    BY DEF LabelShape, HandStands, HandNamed, Writing, L!Idle
  <2> QED BY <2>1 DEF NamesStay, Named
<1> QED BY <1>1, <1>2 DEF HandFacts

LEMMA HandIdles ==
  ASSUME hand' = L!Idle
  PROVE  HandFacts
BY DEF HandFacts, HandStands, HandNamed, L!Idle, Writing

LEMMA HandDrains ==
  ASSUME NEW w, NEW chats, hand' = [k |-> "drain", w |-> w, chats |-> chats]
  PROVE  HandFacts
BY DEF HandFacts, HandStands, HandNamed, Writing

LEMMA HandWrites ==
  ASSUME NEW k \in Writing, NEW c \in Chat, NEW l \in Lab, NEW on \in BOOLEAN, NEW w, NEW chats,
         Named(l), NamesStay,
         hand' = [k |-> k, c |-> c, l |-> l, on |-> on, w |-> w, chats |-> chats]
  PROVE  HandFacts
BY DEF HandFacts, HandStands, HandNamed, Writing, NamesStay, Named

LEMMA FoundIs ==
  ASSUME LabelTypes, RowsNamed, NEW w, NEW c, NEW l \in L!Found(w, c)
  PROVE  c \in Chat /\ l \in Lab /\ Named(l)
<1>1. c \in known /\ l \in Lab /\ L!Live(l)
  BY DEF L!Found, L!RowOf
<1> QED BY <1>1, LiveNamed DEF LabelTypes

\* The goroutine at its statement.
LEMMA HandWriting ==
  ASSUME LabelShape, hand.k \in Writing
  PROVE  /\ hand.c \in Chat /\ hand.l \in Lab /\ hand.on \in BOOLEAN /\ Named(hand.l)
         /\ hand = [k |-> hand.k, c |-> hand.c, l |-> hand.l, on |-> hand.on, w |-> hand.w,
                    chats |-> hand.chats]
BY DEF LabelShape, HandStands, HandNamed, L!Idle, Writing

LEMMA HandNext ==
  ASSUME LabelShape, L!Next
  PROVE  HandFacts
<1>0. LabelTypes /\ RowsNamed /\ NamesStay
  BY RowsNext DEF LabelShape, RowFacts
<1>1. ASSUME NEW e \in net, L!ClaimLabelEvent(e) PROVE HandFacts
  <2>1. hand' = [k |-> e.k, e |-> e] /\ claimed' = claimed \cup {e} /\ e \in Mutation
    BY <1>0, <1>1 DEF L!ClaimLabelEvent, LabelTypes
  <2>2. \/ e.k = "edit" /\ e \in Definition \cup Tombstone
        \/ e.k = "assoc" /\ e \in Association
    BY <2>1 DEF Mutation, Definition, Tombstone, Association
  <2> QED BY <2>1, <2>2 DEF HandFacts, HandStands, HandNamed, Writing
<1>2. CASE L!UpsertWALabel
  <2>1. CASE L!LabelDefined(hand.e)
    <3>1. \/ hand' = [k |-> "drain", w |-> hand.e.w, chats |-> pending[hand.e.w]]
          \/ hand' = L!Idle
      BY <2>1 DEF L!LabelDefined
    <3> QED BY <3>1, HandDrains, HandIdles
  <2>2. CASE L!LabelDeleted(hand.e) /\ hand.e \in Tombstone
    <3>1. CASE hand' = L!Idle
      BY <3>1, HandIdles
    <3>2. ASSUME NEW l \in L!RowOf(hand.e.w), hand' = [k |-> "drop", l |-> l] PROVE HandFacts
      BY <3>2 DEF L!RowOf, HandFacts, HandStands, HandNamed, Writing
    <3> QED BY <2>2, <3>1, <3>2 DEF L!LabelDeleted
  <2> QED BY <1>2, <2>1, <2>2, HandEdit DEF L!UpsertWALabel
<1>3. CASE L!HandDrops \/ L!Crash
  BY <1>3, HandIdles DEF L!HandDrops, L!Crash
<1>4. CASE L!ResolveAssociation
  <2>1. hand.k = "assoc" /\ hand.e \in Association
    BY <1>4 DEF L!ResolveAssociation, LabelShape, HandStands, L!Idle, Writing
  <2>2. CASE hand' = L!Idle
    BY <2>2, HandIdles
  <2>3. ASSUME NEW l \in L!Found(hand.e.w, hand.e.chat),
               hand' = [k |-> "write", c |-> hand.e.chat, l |-> l, on |-> hand.e.on,
                        w |-> hand.e.w, chats |-> {}]
        PROVE  HandFacts
    <3>1. hand.e.chat \in Chat /\ l \in Lab /\ Named(l) /\ hand.e.on \in BOOLEAN
      BY <1>0, <2>1, FoundIs DEF Association
    <3> QED BY <1>0, <2>3, <3>1, HandWrites DEF Writing
  <2> QED BY <1>4, <2>2, <2>3 DEF L!ResolveAssociation
<1>5. CASE L!DrainPendingLabels
  <2>1. hand.k = "drain" /\ hand = [k |-> "drain", w |-> hand.w, chats |-> hand.chats]
    BY <1>5 DEF L!DrainPendingLabels, LabelShape, HandStands, L!Idle, Writing
  <2>2. CASE hand' = L!Idle
    BY <2>2, HandIdles
  <2>3. ASSUME NEW c, hand' = [hand EXCEPT !.chats = hand.chats \ {c}] PROVE HandFacts
    <3>1. hand' = [k |-> "drain", w |-> hand.w, chats |-> hand.chats \ {c}]
      BY <2>1, <2>3
    <3> QED BY <3>1, HandDrains
  <2>4. ASSUME NEW c, NEW l \in L!Found(hand.w, c),
               hand' = [k |-> "write", c |-> c, l |-> l, on |-> TRUE, w |-> hand.w,
                        chats |-> hand.chats \ {c}]
        PROVE  HandFacts
    <3>1. c \in Chat /\ l \in Lab /\ Named(l)
      BY <1>0, FoundIs
    <3> QED BY <1>0, <2>4, <3>1, HandWrites DEF Writing
  <2> QED BY <1>5, <2>2, <2>3, <2>4 DEF L!DrainPendingLabels
<1>6. CASE L!SetChatLabelByWAID
  <2>1. /\ hand.k \in Writing
        /\ \/ hand' = [hand EXCEPT !.k = "record"]
           \/ hand' = [k |-> "drain", w |-> hand.w, chats |-> hand.chats]
    BY <1>6 DEF L!SetChatLabelByWAID, L!AfterWrite, Writing
  <2>2. CASE hand' = [hand EXCEPT !.k = "record"]
    <3>1. /\ hand.c \in Chat /\ hand.l \in Lab /\ hand.on \in BOOLEAN /\ Named(hand.l)
          /\ hand = [k |-> hand.k, c |-> hand.c, l |-> hand.l, on |-> hand.on, w |-> hand.w,
                     chats |-> hand.chats]
      BY <2>1, HandWriting
    <3>2. hand' = [k |-> "record", c |-> hand.c, l |-> hand.l, on |-> hand.on, w |-> hand.w,
                   chats |-> hand.chats]
      BY <2>2, <3>1
    <3> QED BY <1>0, <3>1, <3>2, HandWrites DEF Writing
  <2> QED BY <2>1, <2>2, HandDrains
<1>7. CASE L!HandRecords
  BY <1>7, HandDrains DEF L!HandRecords, L!AfterWrite
<1>8. CASE L!PhoneEdits \/ L!PhoneDeletes \/ L!PhoneTags \/ L!ChatAppears
  BY <1>0, <1>8, HandRests DEF L!PhoneEdits, L!PhoneDeletes, L!PhoneTags, L!ChatAppears, L!tables
<1>9. ASSUME NEW q \in Editor, L!Requests(q) PROVE HandFacts
  <2>1. UNCHANGED <<hand, claimed>>
    BY <1>9 DEF L!Requests, L!CreateLabel, L!UpdateLabel, L!RequestDelete, L!RequestTag,
      L!PushLabelDefinition, L!SendDefinition, L!AdoptWALabelID, L!PushChatLabel, L!AssignLabel,
      L!WebRecords, L!DeleteLabel, L!WebDrops, L!DropAssignments, L!SetAssigned,
      L!RecordLabelEvent, L!tables
  <2> QED BY <1>0, <2>1, HandRests
<1> QED BY <1>1, <1>2, <1>3, <1>4, <1>5, <1>6, <1>7, <1>8, <1>9 DEF L!Next

-----------------------------------------------------------------------------
TableFacts ==
  /\ tagged' \subseteq Chat \X Lab /\ known' \subseteq Chat
  /\ claimed' \subseteq net' /\ net' \subseteq Mutation /\ phone' \subseteq Nat \ {0}
  /\ counted' \in [Chat \X Lab -> Int] /\ state' \in [Chat -> SUBSET Lab] /\ now' \in Nat
  /\ TagsNamed'

\* What a step says that leaves all of them alone but some.
NetGrows ==
  /\ now' = now + 1 /\ UNCHANGED <<tagged, known, claimed, counted, state>>
  /\ phone' \subseteq Nat \ {0} /\ \E e \in Mutation : net' = net \cup {e}

LEMMA NetGrew ==
  ASSUME LabelShape, NamesStay, NetGrows
  PROVE  TableFacts
<1>1. TagsNamed'
  BY DEF LabelShape, TagsNamed, NamesStay, NetGrows, LabelTypes, Named
<1> QED BY <1>1 DEF TableFacts, NetGrows, LabelShape, LabelTypes

LEMMA TagsRest ==
  ASSUME LabelShape, NamesStay, tagged' \subseteq tagged
  PROVE  TagsNamed' /\ tagged' \subseteq Chat \X Lab
BY DEF LabelShape, TagsNamed, NamesStay, LabelTypes, Named

\* An assignment is made of a row that is there.
LEMMA TagAssigned ==
  ASSUME LabelShape, NamesStay, NEW c \in Chat, NEW l \in Lab, NEW on \in BOOLEAN,
         on => Named(l), L!SetAssigned(c, l, on)
  PROVE  TagsNamed' /\ tagged' \subseteq Chat \X Lab
<1>1. CASE on
  <2>1. tagged' = tagged \cup {<<c, l>>}
    BY <1>1 DEF L!SetAssigned
  <2>2. \A p \in tagged : p[2] \in Lab /\ Named(p[2])
    BY DEF LabelShape, LabelTypes, TagsNamed
  <2> QED BY <1>1, <2>1, <2>2 DEF TagsNamed, NamesStay, LabelShape, LabelTypes, Named
<1>2. CASE ~on
  <2>1. tagged' \subseteq tagged
    BY <1>2 DEF L!SetAssigned
  <2> QED BY <2>1, TagsRest
<1> QED BY <1>1, <1>2

\* The entry and the copy for the reports.
LEMMA Recorded ==
  ASSUME LabelTypes, NEW c \in Chat, NEW l \in Lab, NEW on \in BOOLEAN, L!RecordLabelEvent(c, l, on)
  PROVE  /\ counted' = [counted EXCEPT ![<<c, l>>] = @ + L!Change(on)]
         /\ state' = [state EXCEPT ![c] = L!Current(rows, tagged, c)]
         /\ behind' = behind \ {c} /\ UNCHANGED <<rows, tagged, known, claimed, gap>>
         /\ counted' \in [Chat \X Lab -> Int] /\ state' \in [Chat -> SUBSET Lab]
<1>1. L!Change(on) \in Int /\ L!Current(rows, tagged, c) \in SUBSET Lab
  BY DEF L!Change, L!Current
<1>2. /\ counted' = [counted EXCEPT ![<<c, l>>] = @ + L!Change(on)]
      /\ state' = [state EXCEPT ![c] = L!Current(rows, tagged, c)]
      /\ behind' = behind \ {c} /\ UNCHANGED <<rows, tagged, known, claimed, gap>>
  BY DEF L!RecordLabelEvent, L!RefreshLabelState
<1> QED BY <1>1, <1>2 DEF LabelTypes

LEMMA TablesNext ==
  ASSUME LabelShape, L!Next
  PROVE  TableFacts
<1>0. LabelTypes /\ RowsNamed /\ NamesStay
  BY RowsNext DEF LabelShape, RowFacts
<1>1. PhoneId \subseteq Nat \ {0}
  BY LabelsAssumption DEF L!LabelsAssumption
<1>2. CASE L!PhoneEdits
  <2>1. PICK w \in PhoneId \cup phone, n \in Name :
          L!Mutate(L!Edit(w, n, FALSE)) /\ phone' = phone \cup {w}
    BY <1>2 DEF L!PhoneEdits
  <2>2. w \in Nat \ {0}
    BY <1>0, <1>1 DEF LabelTypes
  <2>3. L!Edit(w, n, FALSE) \in Mutation
    BY <1>0, <2>2 DEF L!Edit, Mutation, Definition, LabelTypes
  <2>4. NetGrows
    BY <1>0, <1>2, <2>1, <2>2, <2>3 DEF NetGrows, L!Mutate, L!PhoneEdits, L!tables, LabelTypes
  <2> QED BY <1>0, <2>4, NetGrew
<1>3. CASE L!PhoneDeletes
  <2>1. PICK w \in phone : L!Mutate(L!Edit(w, None, TRUE)) /\ phone' = phone \ {w}
    BY <1>3 DEF L!PhoneDeletes
  <2>2. L!Edit(w, None, TRUE) \in Mutation
    BY <1>0 DEF L!Edit, Mutation, Tombstone, LabelTypes
  <2>3. NetGrows
    BY <1>0, <1>3, <2>1, <2>2 DEF NetGrows, L!Mutate, L!PhoneDeletes, L!tables, LabelTypes
  <2> QED BY <1>0, <2>3, NetGrew
<1>4. CASE L!PhoneTags
  <2>1. PICK w \in phone, c \in Chat, on \in BOOLEAN : L!Mutate(L!Assoc(w, c, on))
    BY <1>4 DEF L!PhoneTags
  <2>2. L!Assoc(w, c, on) \in Mutation
    BY <1>0 DEF L!Assoc, Mutation, Association, LabelTypes
  <2>3. NetGrows
    BY <1>0, <1>4, <2>1, <2>2 DEF NetGrows, L!Mutate, L!PhoneTags, L!tables, LabelTypes
  <2> QED BY <1>0, <2>3, NetGrew
<1>5. ASSUME tagged' \subseteq tagged, known' \subseteq Chat, claimed \subseteq claimed',
             claimed' \subseteq net, UNCHANGED <<counted, state, phone, net, now>>
      PROVE  TableFacts
  BY <1>0, <1>5, TagsRest DEF TableFacts, LabelTypes
<1>6. CASE L!ChatAppears
  BY <1>0, <1>5, <1>6 DEF L!ChatAppears, LabelTypes
<1>7. ASSUME NEW e \in net, L!ClaimLabelEvent(e) PROVE TableFacts
  BY <1>0, <1>5, <1>7 DEF L!ClaimLabelEvent, LabelTypes
<1>8. CASE L!UpsertWALabel \/ L!HandDrops \/ L!ResolveAssociation \/ L!DrainPendingLabels \/ L!Crash
  BY <1>0, <1>5, <1>8 DEF L!UpsertWALabel, L!HandDrops, L!ResolveAssociation, L!DrainPendingLabels,
      L!Crash, L!DropAssignments, L!tables, LabelTypes
<1>9. CASE L!SetChatLabelByWAID
  <2>1. /\ hand.c \in Chat /\ hand.l \in Lab /\ hand.on \in BOOLEAN /\ Named(hand.l)
    BY <1>9, HandWriting DEF L!SetChatLabelByWAID, Writing
  <2>2. TagsNamed' /\ tagged' \subseteq Chat \X Lab
    BY <1>0, <1>9, <2>1, TagAssigned DEF L!SetChatLabelByWAID
  <2> QED BY <1>0, <1>9, <2>2 DEF L!SetChatLabelByWAID, L!SetAssigned, TableFacts, LabelTypes
<1>10. CASE L!HandRecords
  <2>1. hand.c \in Chat /\ hand.l \in Lab /\ hand.on \in BOOLEAN
    BY <1>10, HandWriting DEF L!HandRecords, Writing
  <2>2. L!RecordLabelEvent(hand.c, hand.l, hand.on) /\ UNCHANGED <<phone, net, now>>
    BY <1>10 DEF L!HandRecords
  <2>3. /\ UNCHANGED <<tagged, known, claimed>>
        /\ counted' \in [Chat \X Lab -> Int] /\ state' \in [Chat -> SUBSET Lab]
    BY <1>0, <2>1, <2>2, Recorded
  <2> QED BY <1>0, <2>2, <2>3, TagsRest DEF TableFacts, LabelTypes
<1>11. ASSUME NEW q \in Editor, L!WebRecords(q) PROVE TableFacts
  <2>1. web[q].c \in Chat /\ web[q].l \in Lab /\ web[q].on \in BOOLEAN
    BY <1>0, <1>11, PlaceFields DEF L!WebRecords, Tag
  <2>2. L!RecordLabelEvent(web[q].c, web[q].l, web[q].on) /\ UNCHANGED <<phone, net, now>>
    BY <1>11 DEF L!WebRecords
  <2>3. /\ UNCHANGED <<tagged, known, claimed>>
        /\ counted' \in [Chat \X Lab -> Int] /\ state' \in [Chat -> SUBSET Lab]
    BY <1>0, <2>1, <2>2, Recorded
  <2> QED BY <1>0, <2>2, <2>3, TagsRest DEF TableFacts, LabelTypes
<1>12. ASSUME NEW q \in Editor, L!AssignLabel(q) PROVE TableFacts
  <2>1. web[q].c \in Chat /\ web[q].l \in Lab /\ web[q].on \in BOOLEAN
    BY <1>0, <1>12, PlaceFields DEF L!AssignLabel, Tag
  <2>2. CASE (web[q].on /\ ~L!Live(web[q].l)) \/ ~L!Changes(web[q].c, web[q].l, web[q].on)
    <3>1. UNCHANGED <<tagged, known, claimed, counted, state, phone, net, now>>
      BY <1>12, <2>2 DEF L!AssignLabel, L!tables
    <3> QED BY <1>0, <1>5, <3>1 DEF LabelTypes
  <2>3. CASE ~((web[q].on /\ ~L!Live(web[q].l)) \/ ~L!Changes(web[q].c, web[q].l, web[q].on))
    <3>1. L!SetAssigned(web[q].c, web[q].l, web[q].on) /\ UNCHANGED <<phone, net, now>>
      BY <1>12, <2>3 DEF L!AssignLabel
    <3>2. web[q].on => Named(web[q].l)
      BY <1>0, <2>1, <2>3, LiveNamed
    <3>3. TagsNamed' /\ tagged' \subseteq Chat \X Lab
      BY <1>0, <2>1, <3>1, <3>2, TagAssigned
    <3> QED BY <1>0, <3>1, <3>3 DEF L!SetAssigned, TableFacts, LabelTypes
  <2> QED BY <2>2, <2>3
<1>13. ASSUME NEW q \in Editor, L!SendDefinition(q) PROVE TableFacts
  <2> DEFINE p == web[q]
             e == L!Edit(p.w, IF p.del THEN None ELSE p.name, p.del)
  <2>1. p \in Defining
    BY <1>0, <1>13, PlaceFields DEF L!SendDefinition
  <2>2. UNCHANGED <<tagged, known, claimed, counted, state>>
    BY <1>13 DEF L!SendDefinition, L!tables
  <2>3. \/ UNCHANGED <<net, now, phone>>
        \/ L!Mutate(e) /\ phone' = IF p.del THEN phone \ {p.w} ELSE phone \cup {p.w}
    BY <1>13 DEF L!SendDefinition
  <2>4. e \in Mutation /\ p.w \in Nat \ {0}
    <3>1. /\ p.w \in Nat \ {0} /\ p.del \in BOOLEAN /\ p.name \in Name
          /\ now + 1 \in Nat \ {0}
      BY <1>0, <2>1 DEF Defining, LabelTypes
    <3>2. CASE p.del
      <4>1. e = [k |-> "edit", w |-> p.w, name |-> None, deleted |-> TRUE, at |-> now + 1]
        BY <3>1, <3>2 DEF L!Edit
      <4>2. [k |-> "edit", w |-> p.w, name |-> None, deleted |-> TRUE, at |-> now + 1] \in Tombstone
        BY <3>1 DEF Tombstone
      <4> HIDE DEF e
      <4> QED BY <3>1, <4>1, <4>2 DEF Mutation
    <3>3. CASE ~p.del
      <4>1. e = [k |-> "edit", w |-> p.w, name |-> p.name, deleted |-> FALSE, at |-> now + 1]
        BY <3>1, <3>3 DEF L!Edit
      <4>2. [k |-> "edit", w |-> p.w, name |-> p.name, deleted |-> FALSE, at |-> now + 1] \in Definition
        BY <3>1 DEF Definition
      <4> HIDE DEF e
      <4> QED BY <3>1, <4>1, <4>2 DEF Mutation
    <3> QED BY <3>1, <3>2, <3>3
  <2> HIDE DEF e
  <2>5. CASE UNCHANGED <<net, now, phone>>
    BY <1>0, <1>5, <2>2, <2>5 DEF LabelTypes
  <2>6. CASE L!Mutate(e) /\ phone' = IF p.del THEN phone \ {p.w} ELSE phone \cup {p.w}
    <3>1. NetGrows
      BY <1>0, <2>2, <2>4, <2>6 DEF NetGrows, L!Mutate, LabelTypes
    <3> QED BY <1>0, <3>1, NetGrew
  <2> QED BY <2>3, <2>5, <2>6
<1>14. ASSUME NEW q \in Editor, L!PushChatLabel(q) PROVE TableFacts
  <2> DEFINE p == web[q]
             e == L!Assoc(rows[p.l].wa, p.c, p.on)
  <2>1. p \in Tag
    BY <1>0, <1>14, PlaceFields DEF L!PushChatLabel
  <2>2. UNCHANGED <<tagged, known, claimed, counted, state, phone>>
    BY <1>14 DEF L!PushChatLabel, L!tables
  <2>3. UNCHANGED <<net, now>> \/ L!Mutate(e)
    BY <1>14 DEF L!PushChatLabel
  <2>4. e \in Mutation
    <3>1. rows[p.l].wa \in Nat
      BY <1>0, <2>1 DEF Tag, LabelTypes, LabelRow
    <3> QED BY <1>0, <2>1, <3>1 DEF L!Assoc, Tag, Mutation, Association, LabelTypes
  <2> HIDE DEF e
  <2>5. CASE UNCHANGED <<net, now>>
    BY <1>0, <1>5, <2>2, <2>5 DEF LabelTypes
  <2>6. CASE L!Mutate(e)
    <3>1. NetGrows
      BY <1>0, <2>2, <2>4, <2>6 DEF NetGrows, L!Mutate, LabelTypes
    <3> QED BY <1>0, <3>1, NetGrew
  <2> QED BY <2>3, <2>5, <2>6
<1>15. ASSUME NEW q \in Editor,
              L!CreateLabel(q) \/ L!UpdateLabel(q) \/ L!RequestDelete(q) \/ L!RequestTag(q)
              \/ L!PushLabelDefinition(q) \/ L!AdoptWALabelID(q) \/ L!DeleteLabel(q) \/ L!WebDrops(q)
       PROVE  TableFacts
  BY <1>0, <1>5, <1>15 DEF L!CreateLabel, L!UpdateLabel, L!RequestDelete, L!RequestTag,
      L!PushLabelDefinition, L!AdoptWALabelID, L!DeleteLabel, L!WebDrops, L!DropAssignments,
      L!tables, LabelTypes
<1> QED BY <1>2, <1>3, <1>4, <1>6, <1>7, <1>8, <1>9, <1>10, <1>11, <1>12, <1>13, <1>14, <1>15
        DEF L!Next, L!Requests

LEMMA ShapeNext ==
  ASSUME LabelShape, L!Next
  PROVE  LabelShape' /\ NamesStay
<1>1. RowFacts /\ PlaceFacts /\ HandFacts /\ TableFacts
  BY RowsNext, PlacesNext, HandNext, TablesNext
<1> QED BY <1>1 DEF LabelShape, LabelTypes, RowFacts, PlaceFacts, HandFacts, TableFacts

-----------------------------------------------------------------------------
(* What was last said of a label *)

Mutated == \E e \in Mutation : e.at = now + 1 /\ L!Mutate(e)

LEMMA NetMoves ==
  ASSUME LabelShape, L!Next
  PROVE  Mutated \/ UNCHANGED <<net, now>>
<1>0. LabelTypes /\ TableFacts
  BY TablesNext DEF LabelShape
<1>1. ASSUME NEW e, e.at = now + 1, L!Mutate(e) PROVE Mutated
  <2>1. e \in Mutation
    BY <1>0, <1>1 DEF L!Mutate, TableFacts
  <2> QED BY <1>1, <2>1 DEF Mutated
<1>2. ASSUME NEW w, NEW n, NEW d, L!Mutate(L!Edit(w, n, d)) PROVE Mutated
  BY <1>1, <1>2 DEF L!Edit
<1>3. ASSUME NEW w, NEW c, NEW on, L!Mutate(L!Assoc(w, c, on)) PROVE Mutated
  BY <1>1, <1>3 DEF L!Assoc
<1>4. CASE L!PhoneEdits \/ L!PhoneDeletes \/ L!PhoneTags
  BY <1>2, <1>3, <1>4 DEF L!PhoneEdits, L!PhoneDeletes, L!PhoneTags
<1>5. ASSUME NEW q \in Editor, L!SendDefinition(q) \/ L!PushChatLabel(q)
      PROVE  Mutated \/ UNCHANGED <<net, now>>
  BY <1>2, <1>3, <1>5 DEF L!SendDefinition, L!PushChatLabel
<1>6. CASE L!ChatAppears \/ L!UpsertWALabel \/ L!HandDrops \/ L!ResolveAssociation
           \/ L!DrainPendingLabels \/ L!SetChatLabelByWAID \/ L!HandRecords \/ L!Crash
           \/ \E e \in net : L!ClaimLabelEvent(e)
  BY <1>6 DEF L!ChatAppears, L!UpsertWALabel, L!HandDrops, L!ResolveAssociation,
      L!DrainPendingLabels, L!SetChatLabelByWAID, L!HandRecords, L!Crash, L!ClaimLabelEvent
<1>7. ASSUME NEW q \in Editor,
             L!CreateLabel(q) \/ L!UpdateLabel(q) \/ L!RequestDelete(q) \/ L!RequestTag(q)
             \/ L!PushLabelDefinition(q) \/ L!AdoptWALabelID(q) \/ L!AssignLabel(q)
             \/ L!WebRecords(q) \/ L!DeleteLabel(q) \/ L!WebDrops(q)
      PROVE  UNCHANGED <<net, now>>
  BY <1>7 DEF L!CreateLabel, L!UpdateLabel, L!RequestDelete, L!RequestTag, L!PushLabelDefinition,
      L!AdoptWALabelID, L!AssignLabel, L!WebRecords, L!DeleteLabel, L!WebDrops
<1> QED BY <1>4, <1>5, <1>6, <1>7 DEF L!Next, L!Requests

LEMMA OneTimeNext ==
  ASSUME LabelShape, OneTime, L!Next
  PROVE  OneTime'
<1>0. LabelTypes /\ \A e \in net : e.at \in Nat
  BY DEF LabelShape, LabelTypes, Mutation, Definition, Tombstone, Association
<1>1. CASE UNCHANGED <<net, now>>
  BY <1>1 DEF OneTime
<1>2. CASE Mutated
  <2>1. PICK e \in Mutation : e.at = now + 1 /\ net' = net \cup {e} /\ now' = now + 1
    BY <1>2 DEF Mutated, L!Mutate
  <2> QED BY <1>0, <2>1 DEF OneTime, LabelTypes
<1> QED BY <1>1, <1>2, NetMoves

WordFacts == HeardIsAt' /\ L!LastWordStands'

\* A mutation in hand is said of a row: what the row then has is what was said.
LEMMA SaidOf ==
  ASSUME LabelShape, HeardIsAt, HandIsNew, L!LastWordStands, hand.k = "edit", UNCHANGED claimed,
         NEW l \in Lab, L!Said(l, hand.e), NEW r \in LabelRow,
         rows' = IF rows[l].at <= hand.e.at THEN [rows EXCEPT ![l] = r] ELSE rows,
         rows[l].at <= hand.e.at =>
            /\ r.at = hand.e.at /\ r.deleted = hand.e.deleted
            /\ r.name = IF hand.e.deleted THEN word[l].name ELSE hand.e.name
  PROVE  WordFacts
<1> DEFINE e == hand.e
<1>0. /\ rows \in [Lab -> LabelRow] /\ word \in [Lab -> Word] /\ heard \in [Lab -> Nat]
      /\ e \in claimed /\ e.at \in Nat \ {0} /\ rows[l].at \in Nat
      /\ heard[l] = rows[l].at /\ heard[l] # e.at
  BY HandEdit DEF LabelShape, LabelTypes, LabelRow, HeardIsAt, HandIsNew, Definition, Tombstone
<1>1. CASE rows[l].at <= e.at
  <2>1. /\ heard' = [heard EXCEPT ![l] = e.at]
        /\ word' = [word EXCEPT ![l] = [name |-> IF e.deleted THEN word[l].name ELSE e.name,
                                        deleted |-> e.deleted]]
    BY <1>0, <1>1 DEF L!Said
  <2>2. rows' = [rows EXCEPT ![l] = r] /\ r.at = e.at /\ r.deleted = e.deleted
        /\ r.name = IF e.deleted THEN word[l].name ELSE e.name
    BY <1>1
  <2> HIDE DEF e
  <2>3. HeardIsAt'
    BY <1>0, <2>1, <2>2 DEF HeardIsAt
  <2>4. ASSUME NEW m \in Lab, rows'[m] # L!NoRow
        PROVE  rows'[m].name = word'[m].name /\ rows'[m].deleted = word'[m].deleted
    <3>1. CASE m = l
      BY <1>0, <2>1, <2>2, <3>1
    <3>2. CASE m # l
      BY <1>0, <2>1, <2>2, <2>4, <3>2 DEF L!LastWordStands
    <3> QED BY <3>1, <3>2
  <2>5. L!LastWordStands'
    BY <2>4 DEF L!LastWordStands, L!NoRow
  <2> QED BY <2>3, <2>5 DEF WordFacts
<1>2. CASE ~(rows[l].at <= e.at)
  <2>1. UNCHANGED <<rows, word, heard>>
    BY <1>0, <1>2 DEF L!Said
  <2> QED BY <2>1 DEF WordFacts, HeardIsAt, L!LastWordStands, L!NoRow
<1> QED BY <1>1, <1>2

LEMMA WordsRest ==
  ASSUME HeardIsAt, L!LastWordStands, UNCHANGED <<rows, word, heard>>, claimed \subseteq claimed'
  PROVE  WordFacts
BY DEF WordFacts, HeardIsAt, L!LastWordStands, L!NoRow

\* A change made on the web is said as it is made.
LEMMA WebSays ==
  ASSUME LabelShape, HeardIsAt, L!LastWordStands, UNCHANGED <<heard, claimed>>,
         NEW l \in Lab, NEW r \in LabelRow, NEW w \in Word,
         rows' = [rows EXCEPT ![l] = r], word' = [word EXCEPT ![l] = w],
         r.at = rows[l].at, r.name = w.name, r.deleted = w.deleted
  PROVE  WordFacts
<1>0. rows \in [Lab -> LabelRow] /\ word \in [Lab -> Word] /\ heard \in [Lab -> Nat]
  BY DEF LabelShape, LabelTypes
<1>1. HeardIsAt'
  BY <1>0 DEF HeardIsAt
<1>2. ASSUME NEW m \in Lab, rows'[m] # L!NoRow
      PROVE  rows'[m].name = word'[m].name /\ rows'[m].deleted = word'[m].deleted
  <2>1. CASE m = l
    BY <1>0, <2>1
  <2>2. CASE m # l
    BY <1>0, <1>2, <2>2 DEF L!LastWordStands
  <2> QED BY <2>1, <2>2
<1>3. L!LastWordStands'
  BY <1>2 DEF L!LastWordStands, L!NoRow
<1> QED BY <1>1, <1>3 DEF WordFacts

LEMMA DefinedWords ==
  ASSUME LabelShape, HeardIsAt, HandIsNew, L!LastWordStands, hand.k = "edit", UNCHANGED claimed,
         hand.e \in Definition, L!LabelDefined(hand.e)
  PROVE  WordFacts
<1> DEFINE e == hand.e
<1>0. /\ LabelTypes /\ RowsNamed /\ HeardIsAt /\ e.w \in Nat \ {0} /\ e.name \in Name
      /\ e.at \in Nat \ {0} /\ e.deleted = FALSE
  BY DEF LabelShape, Definition
<1>1. ASSUME NEW l \in L!Free, L!Said(l, e),
             rows' = [rows EXCEPT ![l] = [wa |-> e.w, bound |-> TRUE, name |-> e.name,
                                          deleted |-> FALSE, at |-> e.at]]
      PROVE  WordFacts
  <2> DEFINE r == [wa |-> e.w, bound |-> TRUE, name |-> e.name, deleted |-> FALSE, at |-> e.at]
  <2>1. l \in Lab /\ rows[l].at <= e.at
    BY <1>0, FreeRow DEF L!NoRow
  <2>2. r \in LabelRow
    BY <1>0 DEF LabelRow
  <2>3. r.at = e.at /\ r.deleted = e.deleted /\ r.name = e.name
    BY <1>0
  <2>4. rows' = [rows EXCEPT ![l] = r]
    BY <1>1
  <2> HIDE DEF r
  <2> QED BY <1>0, <1>1, <2>1, <2>2, <2>3, <2>4, SaidOf
<1>2. ASSUME NEW l \in L!RowOf(e.w), L!Said(l, e),
             rows' = IF L!Newer(l, e)
                     THEN [rows EXCEPT ![l].name = e.name, ![l].deleted = FALSE, ![l].at = e.at]
                     ELSE rows
      PROVE  WordFacts
  <2> DEFINE r == [rows[l] EXCEPT !.name = e.name, !.deleted = FALSE, !.at = e.at]
  <2>1. l \in Lab /\ rows[l] \in LabelRow
    BY <1>0, <1>2, RowMet
  <2>2. r \in LabelRow /\ r.at = e.at /\ r.deleted = e.deleted /\ r.name = e.name
    BY <1>0, <2>1 DEF LabelRow
  <2>3. rows' = IF rows[l].at <= e.at THEN [rows EXCEPT ![l] = r] ELSE rows
    BY <1>0, <1>2, <2>1 DEF LabelTypes, L!Newer
  <2> HIDE DEF r
  <2> QED BY <1>0, <1>2, <2>1, <2>2, <2>3, SaidOf
<1> QED BY <1>1, <1>2 DEF L!LabelDefined

LEMMA DeletedWords ==
  ASSUME LabelShape, HeardIsAt, HandIsNew, L!LastWordStands, hand.k = "edit", UNCHANGED claimed,
         hand.e \in Tombstone, L!LabelDeleted(hand.e)
  PROVE  WordFacts
<1> DEFINE e == hand.e
<1>0. /\ LabelTypes /\ RowsNamed /\ e.w \in Nat \ {0} /\ e.at \in Nat \ {0} /\ e.deleted = TRUE
  BY DEF LabelShape, Tombstone
<1>1. ASSUME NEW l \in L!RowOf(e.w), L!Said(l, e),
             rows' = IF rows[l].at <= e.at THEN [rows EXCEPT ![l].deleted = TRUE, ![l].at = e.at]
                     ELSE rows
      PROVE  WordFacts
  <2> DEFINE r == [rows[l] EXCEPT !.deleted = TRUE, !.at = e.at]
  <2>1. l \in Lab /\ rows[l] \in LabelRow /\ Named(l)
    BY <1>0, <1>1, RowMet
  <2>2. rows[l].name = word[l].name
    BY <2>1, LabelsAssumption DEF L!LabelsAssumption, L!LastWordStands, L!NoRow, Named
  <2>3. r \in LabelRow /\ r.at = e.at /\ r.deleted = e.deleted /\ r.name = word[l].name
    BY <1>0, <2>1, <2>2 DEF LabelRow
  <2>4. rows' = IF rows[l].at <= e.at THEN [rows EXCEPT ![l] = r] ELSE rows
    BY <1>0, <1>1, <2>1 DEF LabelTypes
  <2> HIDE DEF r
  <2> QED BY <1>0, <1>1, <2>1, <2>3, <2>4, SaidOf
<1>2. CASE \E l \in L!RowOf(e.w) : L!Newer(l, e)
  <2>1. PICK l \in L!RowOf(e.w) :
          /\ L!Said(l, e) /\ rows' = [rows EXCEPT ![l].deleted = TRUE, ![l].at = e.at]
          /\ rows[l].at <= e.at
    BY <1>2 DEF L!LabelDeleted, L!Newer
  <2> QED BY <1>1, <2>1
<1>3. CASE ~\E l \in L!RowOf(e.w) : L!Newer(l, e)
  <2>1. UNCHANGED rows
    BY <1>3 DEF L!LabelDeleted
  <2>2. CASE L!RowOf(e.w) = {}
    <3>1. UNCHANGED <<word, heard>>
      BY <1>3, <2>2 DEF L!LabelDeleted
    <3> QED BY <2>1, <3>1, WordsRest
  <2>3. ASSUME NEW l \in L!RowOf(e.w) PROVE WordFacts
    <3>1. L!Said(l, e)
      BY <1>3, <2>3 DEF L!LabelDeleted
    <3>2. ~(rows[l].at <= e.at)
      BY <1>3 DEF L!Newer
    <3> QED BY <1>1, <2>1, <3>1, <3>2
  <2> QED BY <2>2, <2>3
<1> QED BY <1>2, <1>3

LEMMA WordsNext ==
  ASSUME LabelShape, HeardIsAt, HandIsNew, L!LastWordStands, L!Next
  PROVE  WordFacts
<1>0. LabelTypes
  BY DEF LabelShape
<1>1. CASE L!UpsertWALabel
  BY <1>1, HandEdit, DefinedWords, DeletedWords DEF L!UpsertWALabel
<1>2. ASSUME NEW q \in Editor, L!CreateLabel(q) PROVE WordFacts
  <2>1. PICK l \in L!Free, n \in Name, b \in BOOLEAN :
          /\ rows' = [rows EXCEPT ![l] = [wa |-> 0, bound |-> b, name |-> n, deleted |-> FALSE, at |-> 0]]
          /\ word' = [word EXCEPT ![l] = [name |-> n, deleted |-> FALSE]]
          /\ UNCHANGED <<heard, claimed>>
    BY <1>2 DEF L!CreateLabel
  <2> DEFINE r == [wa |-> 0, bound |-> b, name |-> n, deleted |-> FALSE, at |-> 0]
             w == [name |-> n, deleted |-> FALSE]
  <2>2. r \in LabelRow /\ w \in Word /\ r.name = w.name /\ r.deleted = w.deleted
    BY DEF LabelRow, Word
  <2>3. l \in Lab /\ r.at = rows[l].at
    BY FreeRow DEF L!NoRow
  <2>4. rows' = [rows EXCEPT ![l] = r] /\ word' = [word EXCEPT ![l] = w]
    BY <2>1
  <2> HIDE DEF r, w
  <2> QED BY <2>1, <2>2, <2>3, <2>4, WebSays
<1>3. ASSUME NEW q \in Editor, L!UpdateLabel(q) PROVE WordFacts
  <2>1. PICK l \in Lab, n \in Name :
          /\ L!Live(l)
          /\ rows' = [rows EXCEPT ![l].name = n]
          /\ word' = [word EXCEPT ![l].name = n]
          /\ UNCHANGED <<heard, claimed>>
    BY <1>3 DEF L!UpdateLabel
  <2> DEFINE r == [rows[l] EXCEPT !.name = n]
             w == [word[l] EXCEPT !.name = n]
  <2>2. /\ r \in LabelRow /\ w \in Word /\ r.name = n /\ w.name = n /\ r.at = rows[l].at
        /\ r.deleted = rows[l].deleted /\ w.deleted = word[l].deleted
    BY <1>0 DEF LabelTypes, LabelRow, Word
  <2>3. rows[l].deleted = word[l].deleted
    BY <2>1 DEF L!LastWordStands, L!Live
  <2>4. rows' = [rows EXCEPT ![l] = r] /\ word' = [word EXCEPT ![l] = w]
    BY <1>0, <2>1 DEF LabelTypes
  <2>5. r.name = w.name /\ r.deleted = w.deleted /\ UNCHANGED <<heard, claimed>>
    BY <2>1, <2>2, <2>3
  <2> HIDE DEF r, w
  <2> QED BY <2>2, <2>4, <2>5, WebSays
<1>4. ASSUME NEW q \in Editor, L!DeleteLabel(q) PROVE WordFacts
  <2> DEFINE l == web[q].l
             r == [rows[l] EXCEPT !.deleted = TRUE]
             w == [word[l] EXCEPT !.deleted = TRUE]
  <2>0. l \in Lab
    BY <1>0, <1>4, PlaceFields DEF L!DeleteLabel, Deleting
  <2>1. CASE L!Live(l)
    <3>1. /\ rows' = [rows EXCEPT ![l].deleted = TRUE] /\ word' = [word EXCEPT ![l].deleted = TRUE]
          /\ UNCHANGED <<heard, claimed>>
      BY <1>4, <2>1 DEF L!DeleteLabel
    <3>0. rows[l] \in LabelRow /\ word[l] \in Word
      BY <1>0, <2>0 DEF LabelTypes
    <3>2. /\ r \in LabelRow /\ r.name = rows[l].name /\ r.at = rows[l].at /\ r.deleted = TRUE
          /\ w \in Word /\ w.name = word[l].name /\ w.deleted = TRUE
      BY <3>0 DEF LabelRow, Word
    <3>3. rows[l].name = word[l].name
      BY <2>0, <2>1 DEF L!LastWordStands, L!Live
    <3>4. rows' = [rows EXCEPT ![l] = r] /\ word' = [word EXCEPT ![l] = w]
      BY <1>0, <2>0, <3>1 DEF LabelTypes
    <3>5. r.name = w.name /\ r.deleted = w.deleted /\ UNCHANGED <<heard, claimed>>
      BY <3>1, <3>2, <3>3
    <3> HIDE DEF l, r, w
    <3> QED BY <2>0, <3>2, <3>4, <3>5, WebSays
  <2>2. CASE ~L!Live(l)
    <3>1. UNCHANGED <<rows, word, heard, claimed>>
      BY <1>4, <2>2 DEF L!DeleteLabel
    <3> QED BY <3>1, WordsRest
  <2> QED BY <2>1, <2>2
<1>5. ASSUME NEW q \in Editor, L!AdoptWALabelID(q) PROVE WordFacts
  <2> DEFINE l == web[q].l
             r == [rows[l] EXCEPT !.wa = web[q].w, !.bound = TRUE]
  <2>1. /\ rows' = rows \/ rows' = [rows EXCEPT ![l].wa = web[q].w, ![l].bound = TRUE]
        /\ UNCHANGED <<word, heard, claimed>> /\ web[q].k = "adopt"
    BY <1>5 DEF L!AdoptWALabelID, L!ghosts
  <2>2. l \in Lab /\ web[q].w \in Nat /\ Named(l)
    BY <1>0, <2>1, PlaceFields DEF Defining, LabelShape, SentNamed
  <2>3. rows[l] \in LabelRow /\ word[l] \in Word
    BY <1>0, <2>2 DEF LabelTypes
  <2>4. /\ r \in LabelRow /\ r.name = rows[l].name /\ r.deleted = rows[l].deleted
        /\ r.at = rows[l].at
    BY <2>2, <2>3 DEF LabelRow
  <2>5. rows' = rows \/ rows' = [rows EXCEPT ![l] = r]
    BY <1>0, <2>1, <2>2, <2>3 DEF LabelTypes
  <2>6. rows[l].name = word[l].name /\ rows[l].deleted = word[l].deleted
    BY <2>2, LabelsAssumption DEF L!LabelsAssumption, L!LastWordStands, L!NoRow, Named
  <2>7. word' = [word EXCEPT ![l] = word[l]]
    BY <1>0, <2>1 DEF LabelTypes
  <2>8. r.name = word[l].name /\ r.deleted = word[l].deleted
    BY <2>4, <2>6
  <2> HIDE DEF l, r
  <2>9. CASE rows' = [rows EXCEPT ![l] = r]
    BY <2>1, <2>2, <2>3, <2>4, <2>7, <2>8, <2>9, WebSays
  <2>10. CASE rows' = rows
    BY <2>1, <2>10, WordsRest
  <2> QED BY <2>5, <2>9, <2>10
<1>6. CASE L!PhoneEdits \/ L!PhoneDeletes \/ L!PhoneTags \/ L!ChatAppears \/ L!HandDrops
           \/ L!ResolveAssociation \/ L!DrainPendingLabels \/ L!SetChatLabelByWAID
           \/ L!HandRecords \/ L!Crash \/ \E e \in net : L!ClaimLabelEvent(e)
  <2>1. UNCHANGED <<rows, word, heard>> /\ claimed \subseteq claimed'
    BY <1>6 DEF L!PhoneEdits, L!PhoneDeletes, L!PhoneTags, L!ChatAppears, L!HandDrops,
      L!ResolveAssociation, L!DrainPendingLabels, L!SetChatLabelByWAID, L!HandRecords, L!Crash,
      L!ClaimLabelEvent, L!DropAssignments, L!SetAssigned, L!RecordLabelEvent, L!tables, L!ghosts
  <2> QED BY <2>1, WordsRest
<1>7. ASSUME NEW q \in Editor,
             L!RequestDelete(q) \/ L!RequestTag(q) \/ L!PushLabelDefinition(q) \/ L!SendDefinition(q)
             \/ L!PushChatLabel(q) \/ L!AssignLabel(q) \/ L!WebRecords(q) \/ L!WebDrops(q)
      PROVE  WordFacts
  <2>1. UNCHANGED <<rows, word, heard, claimed>>
    BY <1>7 DEF L!RequestDelete, L!RequestTag, L!PushLabelDefinition, L!SendDefinition,
      L!PushChatLabel, L!AssignLabel, L!WebRecords, L!WebDrops, L!DropAssignments, L!SetAssigned,
      L!RecordLabelEvent, L!tables, L!ghosts
  <2> QED BY <2>1, WordsRest
<1> QED BY <1>1, <1>2, <1>3, <1>4, <1>5, <1>6, <1>7 DEF L!Next, L!Requests

\* What is claimed is new to every row, and what a row has heard is not again in hand.
LEMMA NewNext ==
  ASSUME LabelShape, OneTime, HeardIsAt, HandIsNew, L!Next
  PROVE  HandIsNew'
<1>0. LabelTypes
  BY DEF LabelShape
<1>1. ASSUME NEW e \in net, L!ClaimLabelEvent(e) PROVE HandIsNew'
  <2>1. e \notin claimed /\ hand' = [k |-> e.k, e |-> e] /\ UNCHANGED heard
    BY <1>1 DEF L!ClaimLabelEvent, L!Fresh, L!ghosts
  <2>2. e.at \in Nat \ {0}
    BY <1>0 DEF LabelTypes, Mutation, Definition, Tombstone, Association
  <2>3. ASSUME NEW l \in Lab PROVE heard[l] # e.at
    <3>1. ASSUME NEW f \in claimed, f.at = heard[l] PROVE heard[l] # e.at
      BY <1>0, <2>1, <3>1 DEF OneTime, LabelTypes
    <3> QED BY <2>2, <3>1 DEF HeardIsAt
  <2> QED BY <2>1, <2>3 DEF HandIsNew
<1>2. ASSUME hand'.k # "edit" PROVE HandIsNew'
  BY <1>2 DEF HandIsNew
<1>3. CASE L!UpsertWALabel
  <2>1. L!LabelDeleted(hand.e) \/ L!LabelDefined(hand.e)
    BY <1>3 DEF L!UpsertWALabel
  <2>2. ASSUME L!LabelDefined(hand.e) PROVE hand'.k # "edit"
    <3>1. \/ hand' = [k |-> "drain", w |-> hand.e.w, chats |-> pending[hand.e.w]]
          \/ hand' = L!Idle
      BY <2>2 DEF L!LabelDefined
    <3> QED BY <3>1 DEF L!Idle
  <2>3. ASSUME L!LabelDeleted(hand.e) PROVE hand'.k # "edit"
    <3>1. hand' = L!Idle \/ \E l \in Lab : hand' = [k |-> "drop", l |-> l]
      BY <2>3 DEF L!LabelDeleted, L!RowOf
    <3> QED BY <3>1 DEF L!Idle
  <2> QED BY <1>2, <2>1, <2>2, <2>3
<1>4. CASE L!HandDrops \/ L!ResolveAssociation \/ L!DrainPendingLabels \/ L!SetChatLabelByWAID
           \/ L!HandRecords \/ L!Crash
  <2>1. CASE L!SetChatLabelByWAID
    <3>1. hand = [k |-> hand.k, c |-> hand.c, l |-> hand.l, on |-> hand.on, w |-> hand.w,
                  chats |-> hand.chats]
      BY <2>1, HandWriting DEF L!SetChatLabelByWAID, Writing
    <3>2. \/ hand' = [hand EXCEPT !.k = "record"]
          \/ hand' = [k |-> "drain", w |-> hand.w, chats |-> hand.chats]
      BY <2>1 DEF L!SetChatLabelByWAID, L!AfterWrite
    <3>3. hand'.k # "edit"
      BY <3>1, <3>2
    <3> QED BY <1>2, <3>3
  <2>2. CASE L!DrainPendingLabels
    <3>1. hand = [k |-> "drain", w |-> hand.w, chats |-> hand.chats]
      BY <2>2 DEF L!DrainPendingLabels, LabelShape, HandStands, L!Idle, Writing
    <3>2. hand'.k # "edit"
      BY <2>2, <3>1 DEF L!DrainPendingLabels, L!Idle
    <3> QED BY <1>2, <3>2
  <2>3. CASE L!HandDrops \/ L!ResolveAssociation \/ L!HandRecords \/ L!Crash
    <3>1. hand'.k # "edit"
      BY <2>3 DEF L!HandDrops, L!ResolveAssociation, L!HandRecords, L!Crash, L!AfterWrite, L!Idle
    <3> QED BY <1>2, <3>1
  <2> QED BY <1>4, <2>1, <2>2, <2>3
<1>5. CASE L!PhoneEdits \/ L!PhoneDeletes \/ L!PhoneTags \/ L!ChatAppears
  <2>1. UNCHANGED <<hand, heard>>
    BY <1>5 DEF L!PhoneEdits, L!PhoneDeletes, L!PhoneTags, L!ChatAppears, L!ghosts
  <2> QED BY <2>1 DEF HandIsNew
<1>6. ASSUME NEW q \in Editor, L!Requests(q) PROVE HandIsNew'
  <2>1. UNCHANGED <<hand, heard>>
    BY <1>6 DEF L!Requests, L!CreateLabel, L!UpdateLabel, L!RequestDelete, L!RequestTag,
      L!PushLabelDefinition, L!SendDefinition, L!AdoptWALabelID, L!PushChatLabel, L!AssignLabel,
      L!WebRecords, L!DeleteLabel, L!WebDrops, L!DropAssignments, L!SetAssigned,
      L!RecordLabelEvent, L!ghosts
  <2> QED BY <2>1 DEF HandIsNew
<1> QED BY <1>1, <1>3, <1>4, <1>5, <1>6 DEF L!Next

-----------------------------------------------------------------------------
(* The history adds up *)

(* What the goroutine and the requests have still to write of a pair, and *)
(* whether the chat has the label.                                        *)
HandDue(c, l) == IF L!Owes(hand, c, l) THEN L!Change(hand.on) ELSE 0
Owed(c, l, on) == Cardinality(L!Owing(c, l, on))
Adding(c, l) == Owed(c, l, TRUE)
Removing(c, l) == Owed(c, l, FALSE)
Has(c, l) == IF <<c, l>> \in tagged THEN 1 ELSE 0
Balance(c, l) == counted[<<c, l>>] + HandDue(c, l) + Adding(c, l) - Removing(c, l)
Balanced == \A c \in Chat, l \in Lab : <<c, l>> \notin gap => Balance(c, l) = Has(c, l)

LEMMA BalancedIs == (L!HistoryAddsUp <=> Balanced) /\ (L!HistoryAddsUp' <=> Balanced')
<1>1. ASSUME NEW c, NEW l, NEW on PROVE L!Cardinality(L!Owing(c, l, on)) = Owed(c, l, on)
  BY LabelSizes DEF Owed
<1>2. ASSUME NEW c, NEW l, NEW on PROVE L!Cardinality(L!Owing(c, l, on)') = Owed(c, l, on)'
  BY LabelSizes DEF Owed
<1>3. L!HistoryAddsUp <=> Balanced
  BY <1>1 DEF L!HistoryAddsUp, Balanced, Balance, Adding, Removing, HandDue, Has
<1>4. L!HistoryAddsUp' <=> Balanced'
  BY <1>2 DEF L!HistoryAddsUp, Balanced, Balance, Adding, Removing, HandDue, Has
<1> QED BY <1>3, <1>4

LEMMA OwedIs ==
  ASSUME NEW c, NEW l, NEW on
  PROVE  /\ IsFiniteSet(L!Owing(c, l, on)) /\ Owed(c, l, on) \in Nat
         /\ IsFiniteSet(L!Owing(c, l, on)') /\ Owed(c, l, on)' \in Nat
<1>1. L!Owing(c, l, on) \subseteq Editor /\ L!Owing(c, l, on)' \subseteq Editor
  BY DEF L!Owing
<1> QED BY <1>1, LabelsFinite, FS_Subset, FS_CardinalityType DEF Owed

\* Nobody comes to owe an entry, and nobody writes one.
NoneOwes == \A c \in Chat, l \in Lab : UNCHANGED <<Adding(c, l), Removing(c, l)>>
HandOwesNot == \A c \in Chat, l \in Lab : HandDue(c, l)' = HandDue(c, l)

LEMMA GoesOwingNot ==
  ASSUME LabelTypes, NEW q \in Editor, NEW s, L!Goes(q, s), web[q].k # "record", s.k # "record"
  PROVE  NoneOwes
<1>1. ASSUME NEW c, NEW l, NEW on
      PROVE  L!Owing(c, l, on)' = L!Owing(c, l, on)
  BY DEF L!Owing, L!Owes, L!Goes, LabelTypes
<1> QED BY <1>1, Zenon DEF NoneOwes, Owed, Adding, Removing

LEMMA WebOwesNot ==
  ASSUME UNCHANGED web
  PROVE  NoneOwes
BY DEF NoneOwes, Owed, Adding, Removing, L!Owing

LEMMA HandsOwingNot ==
  ASSUME hand' = hand \/ (hand.k # "record" /\ hand'.k # "record")
  PROVE  HandOwesNot
BY DEF HandOwesNot, HandDue, L!Owes

LEMMA AddsRest ==
  ASSUME LabelTypes, Balanced, NoneOwes, HandOwesNot, UNCHANGED counted, gap \subseteq gap',
         \A c \in Chat, l \in Lab : <<c, l>> \notin gap' => Has(c, l)' = Has(c, l)
  PROVE  Balanced'
<1> SUFFICES ASSUME NEW c \in Chat, NEW l \in Lab, <<c, l>> \notin gap'
             PROVE  Balance(c, l)' = Has(c, l)'
  BY DEF Balanced
<1>1. /\ Adding(c, l)' = Adding(c, l) /\ Removing(c, l)' = Removing(c, l)
      /\ HandDue(c, l)' = HandDue(c, l) /\ Has(c, l)' = Has(c, l) /\ Balance(c, l) = Has(c, l)
  BY DEF NoneOwes, HandOwesNot, Balanced
<1> QED BY <1>1 DEF Balance

LEMMA HasTypes ==
  ASSUME LabelTypes, HandStands, NEW c \in Chat, NEW l \in Lab
  PROVE  /\ Has(c, l) \in Int /\ HandDue(c, l) \in Int /\ counted[<<c, l>>] \in Int
         /\ Adding(c, l) \in Nat /\ Removing(c, l) \in Nat
         /\ Adding(c, l)' \in Nat /\ Removing(c, l)' \in Nat
<1>1. Has(c, l) \in Int /\ HandDue(c, l) \in Int /\ counted[<<c, l>>] \in Int
  BY DEF Has, HandDue, L!Change, LabelTypes
<1>2. /\ Adding(c, l) \in Nat /\ Removing(c, l) \in Nat
      /\ Adding(c, l)' \in Nat /\ Removing(c, l)' \in Nat
  BY OwedIs, Zenon DEF Adding, Removing
<1> QED BY <1>1, <1>2

\* What an assignment changes is the entry that has to follow.
LEMMA HasChanges ==
  ASSUME LabelTypes, NEW c \in Chat, NEW l \in Lab, NEW on \in BOOLEAN, L!SetAssigned(c, l, on),
         NEW d \in Chat, NEW m \in Lab
  PROVE  Has(d, m)' = Has(d, m) + (IF L!Changes(c, l, on) /\ d = c /\ m = l THEN L!Change(on) ELSE 0)
<1>1. <<d, m>> = <<c, l>> <=> d = c /\ m = l
  OBVIOUS
<1>2. CASE on
  <2>1. tagged' = tagged \cup {<<c, l>>} /\ L!Change(on) = 1
        /\ (L!Changes(c, l, on) <=> <<c, l>> \notin tagged)
    BY <1>2 DEF L!SetAssigned, L!Change, L!Changes
  <2> QED BY <1>1, <2>1 DEF Has
<1>3. CASE ~on
  <2>1. tagged' = tagged \ {<<c, l>>} /\ L!Change(on) = -1
        /\ (L!Changes(c, l, on) <=> <<c, l>> \in tagged)
    BY <1>3 DEF L!SetAssigned, L!Change, L!Changes
  <2> QED BY <1>1, <2>1 DEF Has
<1> QED BY <1>2, <1>3

\* A request comes to owe an entry, or writes it.
LEMMA OwingGrows ==
  ASSUME NEW q \in Editor, NEW Before \in SUBSET Editor, NEW After, After = Before \cup {q}, q \notin Before
  PROVE  Cardinality(After) = Cardinality(Before) + 1
BY LabelsFinite, FS_Subset, FS_AddElement

LEMMA ComesToOwe ==
  ASSUME LabelTypes, NEW q \in Editor, web[q] \in Tag, web[q].k = "store",
         L!Goes(q, [web[q] EXCEPT !.k = "record"]), NEW d \in Chat, NEW m \in Lab
  PROVE  Adding(d, m)' - Removing(d, m)' =
           Adding(d, m) - Removing(d, m)
             + (IF d = web[q].c /\ m = web[q].l THEN L!Change(web[q].on) ELSE 0)
<1> DEFINE p == web[q]
           s == [p EXCEPT !.k = "record"]
<1>1. s.k = "record" /\ s.c = p.c /\ s.l = p.l /\ s.on = p.on /\ p.on \in BOOLEAN
  BY DEF Tag
<1>2. web' = [web EXCEPT ![q] = s] /\ web \in [Editor -> Place]
  BY DEF L!Goes, LabelTypes
<1> HIDE DEF s
<1>3. ASSUME NEW on \in BOOLEAN
      PROVE  L!Owing(d, m, on)' = L!Owing(d, m, on)
                                  \cup (IF d = p.c /\ m = p.l /\ on = p.on THEN {q} ELSE {})
  BY <1>1, <1>2 DEF L!Owing, L!Owes
<1>4. ASSUME NEW on \in BOOLEAN PROVE q \notin L!Owing(d, m, on) /\ L!Owing(d, m, on) \in SUBSET Editor
  BY DEF L!Owing, L!Owes
<1>5. ASSUME NEW on \in BOOLEAN
      PROVE  Owed(d, m, on)' = Owed(d, m, on) + (IF d = p.c /\ m = p.l /\ on = p.on THEN 1 ELSE 0)
  <2>1. CASE d = p.c /\ m = p.l /\ on = p.on
    <3>1. L!Owing(d, m, on)' = L!Owing(d, m, on) \cup {q}
      BY <1>3, <2>1
    <3> QED BY <1>4, <2>1, <3>1, OwingGrows DEF Owed
  <2>2. CASE ~(d = p.c /\ m = p.l /\ on = p.on)
    <3>1. L!Owing(d, m, on)' = L!Owing(d, m, on)
      BY <1>3, <2>2
    <3> QED BY <2>2, <3>1, OwedIs DEF Owed
  <2> QED BY <2>1, <2>2
<1>6. /\ Adding(d, m) \in Nat /\ Removing(d, m) \in Nat
      /\ Adding(d, m)' \in Nat /\ Removing(d, m)' \in Nat
  BY OwedIs, Zenon DEF Adding, Removing
<1>7. /\ Adding(d, m)' = Adding(d, m) + (IF d = p.c /\ m = p.l /\ TRUE = p.on THEN 1 ELSE 0)
      /\ Removing(d, m)' = Removing(d, m) + (IF d = p.c /\ m = p.l /\ FALSE = p.on THEN 1 ELSE 0)
  BY <1>5, Zenon DEF Adding, Removing
<1> QED BY <1>1, <1>6, <1>7 DEF L!Change

LEMMA WritesOwed ==
  ASSUME LabelTypes, NEW q \in Editor, web[q] \in Tag, web[q].k = "record",
         L!Goes(q, L!Idle), NEW d \in Chat, NEW m \in Lab
  PROVE  Adding(d, m)' - Removing(d, m)' =
           Adding(d, m) - Removing(d, m)
             - (IF d = web[q].c /\ m = web[q].l THEN L!Change(web[q].on) ELSE 0)
<1> DEFINE p == web[q]
<1>1. p.on \in BOOLEAN
  BY DEF Tag
<1>2. web' = [web EXCEPT ![q] = L!Idle] /\ web \in [Editor -> Place]
  BY DEF L!Goes, LabelTypes
<1>3. ASSUME NEW on \in BOOLEAN
      PROVE  L!Owing(d, m, on) = L!Owing(d, m, on)'
                                 \cup (IF d = p.c /\ m = p.l /\ on = p.on THEN {q} ELSE {})
  BY <1>1, <1>2 DEF L!Owing, L!Owes, L!Idle
<1>4. ASSUME NEW on \in BOOLEAN
      PROVE  q \notin L!Owing(d, m, on)' /\ L!Owing(d, m, on)' \in SUBSET Editor
  BY <1>2 DEF L!Owing, L!Owes, L!Idle
<1>5. ASSUME NEW on \in BOOLEAN
      PROVE  Owed(d, m, on) = Owed(d, m, on)' + (IF d = p.c /\ m = p.l /\ on = p.on THEN 1 ELSE 0)
  <2>1. CASE d = p.c /\ m = p.l /\ on = p.on
    <3>1. L!Owing(d, m, on) = L!Owing(d, m, on)' \cup {q}
      BY <1>3, <2>1
    <3> QED BY <1>4, <2>1, <3>1, OwingGrows DEF Owed
  <2>2. CASE ~(d = p.c /\ m = p.l /\ on = p.on)
    <3>1. L!Owing(d, m, on) = L!Owing(d, m, on)'
      BY <1>3, <2>2
    <3> QED BY <2>2, <3>1, OwedIs DEF Owed
  <2> QED BY <2>1, <2>2
<1>6. /\ Adding(d, m) \in Nat /\ Removing(d, m) \in Nat
      /\ Adding(d, m)' \in Nat /\ Removing(d, m)' \in Nat
  BY OwedIs, Zenon DEF Adding, Removing
<1>7. /\ Adding(d, m) = Adding(d, m)' + (IF d = p.c /\ m = p.l /\ TRUE = p.on THEN 1 ELSE 0)
      /\ Removing(d, m) = Removing(d, m)' + (IF d = p.c /\ m = p.l /\ FALSE = p.on THEN 1 ELSE 0)
  BY <1>5, Zenon DEF Adding, Removing
<1> QED BY <1>1, <1>6, <1>7 DEF L!Change

LEMMA AddsNext ==
  ASSUME LabelShape, Balanced, L!Next
  PROVE  Balanced'
<1>0. LabelTypes /\ HandStands
  BY DEF LabelShape
<1>1. CASE L!PhoneEdits \/ L!PhoneDeletes \/ L!PhoneTags \/ L!ChatAppears \/ L!UpsertWALabel
           \/ L!ResolveAssociation \/ L!DrainPendingLabels \/ \E e \in net : L!ClaimLabelEvent(e)
  <2>1. UNCHANGED <<counted, tagged, gap, web>>
    BY <1>1 DEF L!PhoneEdits, L!PhoneDeletes, L!PhoneTags, L!ChatAppears, L!UpsertWALabel,
      L!ResolveAssociation, L!DrainPendingLabels, L!ClaimLabelEvent, L!tables, L!ghosts
  <2>2. ASSUME L!PhoneEdits \/ L!PhoneDeletes \/ L!PhoneTags \/ L!ChatAppears PROVE HandOwesNot
    BY <2>2, HandsOwingNot DEF L!PhoneEdits, L!PhoneDeletes, L!PhoneTags, L!ChatAppears
  <2>3. ASSUME L!UpsertWALabel PROVE HandOwesNot
    <3>1. /\ hand.k # "record"
          /\ L!LabelDeleted(hand.e) \/ L!LabelDefined(hand.e)
      BY <2>3 DEF L!UpsertWALabel
    <3>2. \/ hand' = L!Idle \/ \E l \in Lab : hand' = [k |-> "drop", l |-> l]
          \/ hand' = [k |-> "drain", w |-> hand.e.w, chats |-> pending[hand.e.w]]
      BY <3>1 DEF L!LabelDeleted, L!LabelDefined, L!RowOf
    <3>3. hand'.k # "record"
      BY <3>2 DEF L!Idle
    <3> QED BY <3>1, <3>3, HandsOwingNot
  <2>4. ASSUME L!ResolveAssociation \/ \E e \in net : L!ClaimLabelEvent(e) PROVE HandOwesNot
    <3>1. \A e \in net : e.k # "record"
      BY <1>0 DEF LabelTypes, Mutation, Definition, Tombstone, Association
    <3>2. hand.k # "record" /\ hand'.k # "record"
      BY <2>4, <3>1 DEF L!ResolveAssociation, L!ClaimLabelEvent, L!Idle
    <3> QED BY <3>2, HandsOwingNot
  <2>5. ASSUME L!DrainPendingLabels PROVE HandOwesNot
    <3>1. hand = [k |-> "drain", w |-> hand.w, chats |-> hand.chats]
      BY <2>5 DEF L!DrainPendingLabels, LabelShape, HandStands, L!Idle, Writing
    <3>2. hand.k # "record" /\ hand'.k # "record"
      BY <2>5, <3>1 DEF L!DrainPendingLabels, L!Idle
    <3> QED BY <3>2, HandsOwingNot
  <2>6. NoneOwes /\ HandOwesNot
    BY <1>1, <2>1, <2>2, <2>3, <2>4, <2>5, WebOwesNot
  <2> QED BY <1>0, <2>1, <2>6, AddsRest DEF Has
<1>2. ASSUME NEW q \in Editor,
             L!CreateLabel(q) \/ L!UpdateLabel(q) \/ L!RequestDelete(q) \/ L!RequestTag(q)
             \/ L!PushLabelDefinition(q) \/ L!SendDefinition(q) \/ L!AdoptWALabelID(q)
             \/ L!PushChatLabel(q) \/ L!DeleteLabel(q)
      PROVE  Balanced'
  <2>1. UNCHANGED <<counted, tagged, gap, hand>>
    BY <1>2 DEF L!CreateLabel, L!UpdateLabel, L!RequestDelete, L!RequestTag, L!PushLabelDefinition,
      L!SendDefinition, L!AdoptWALabelID, L!PushChatLabel, L!DeleteLabel, L!tables, L!ghosts
  <2>2. \E s : L!Goes(q, s) /\ web[q].k # "record" /\ s.k # "record"
    <3>1. CASE L!CreateLabel(q) \/ L!UpdateLabel(q) \/ L!RequestDelete(q) \/ L!RequestTag(q)
      <4>1. web[q].k # "record"
        BY <3>1 DEF L!CreateLabel, L!UpdateLabel, L!RequestDelete, L!RequestTag, L!Idle
      <4>2. ASSUME NEW l, NEW t
            PROVE  /\ L!Push(l, t).k # "record" /\ [L!Push(l, t) EXCEPT !.del = TRUE].k # "record"
                   /\ L!Idle.k # "record"
        BY DEF L!Push, L!Idle
      <4>3. CASE L!CreateLabel(q)
        <5>1. PICK l \in Lab, b \in BOOLEAN : L!Goes(q, IF b THEN L!Push(l, L!Ends) ELSE L!Idle)
          BY <4>3 DEF L!CreateLabel, L!Free
        <5>2. L!Goes(q, L!Push(l, L!Ends)) \/ L!Goes(q, L!Idle)
          BY <5>1
        <5> QED BY <4>1, <4>2, <5>2
      <4>4. CASE L!UpdateLabel(q)
        <5>1. PICK l \in Lab : L!Goes(q, IF rows[l].bound THEN L!Push(l, L!Ends) ELSE L!Idle)
          BY <4>4 DEF L!UpdateLabel
        <5>2. L!Goes(q, L!Push(l, L!Ends)) \/ L!Goes(q, L!Idle)
          BY <5>1
        <5> QED BY <4>1, <4>2, <5>2
      <4>5. CASE L!RequestDelete(q)
        <5>1. PICK l \in Lab :
                \/ L!Goes(q, [L!Push(l, L!Ends) EXCEPT !.del = TRUE])
                \/ L!Goes(q, [k |-> "delete", l |-> l])
          BY <4>5 DEF L!RequestDelete
        <5>2. [k |-> "delete", l |-> l].k # "record"
          OBVIOUS
        <5> QED BY <4>1, <4>2, <5>1, <5>2
      <4>6. CASE L!RequestTag(q)
        <5>1. PICK c \in known, l \in Lab, on \in BOOLEAN :
                LET tag == [k |-> "tag", c |-> c, l |-> l, on |-> on] IN
                L!Goes(q, L!Push(l, tag)) \/ L!Goes(q, tag)
          BY <4>6 DEF L!RequestTag
        <5>2. [k |-> "tag", c |-> c, l |-> l, on |-> on].k # "record"
          OBVIOUS
        <5> QED BY <4>1, <4>2, <5>1, <5>2
      <4> QED BY <3>1, <4>3, <4>4, <4>5, <4>6
    <3>2. CASE L!PushLabelDefinition(q) \/ L!SendDefinition(q)
      <4>1. web[q].k \in {"push", "define"}
        BY <3>2 DEF L!PushLabelDefinition, L!SendDefinition
      <4>2. CASE L!Fails(q)
        BY <4>1, <4>2 DEF L!Fails, L!Idle
      <4>3. ASSUME L!SendDefinition(q), L!Goes(q, [web[q] EXCEPT !.k = "adopt"])
            PROVE  \E s : L!Goes(q, s) /\ s.k # "record"
        <5>1. [web[q] EXCEPT !.k = "adopt"].k = "adopt"
          BY <1>0, <4>3, PlaceFields DEF L!SendDefinition, Defining
        <5> QED BY <4>3, <5>1
      <4>4. ASSUME L!PushLabelDefinition(q), ~L!Fails(q)
            PROVE  \E s : L!Goes(q, s) /\ s.k # "record"
        BY <4>4 DEF L!PushLabelDefinition, L!Idle
      <4> QED BY <3>2, <4>1, <4>2, <4>3, <4>4 DEF L!SendDefinition
    <3>3. CASE L!AdoptWALabelID(q)
      <4>1. web[q].k = "adopt" /\ (L!Goes(q, L!Idle) \/ (web[q].then # L!Ends /\ L!Goes(q, web[q].then)))
        BY <3>3 DEF L!AdoptWALabelID
      <4>2. web[q].then = L!Ends \/ web[q].then.k = "tag"
        BY <1>0, <4>1, PlaceFields DEF Defining, Then
      <4> QED BY <4>1, <4>2 DEF L!Idle
    <3>4. CASE L!PushChatLabel(q)
      <4>1. web[q].k = "tag" /\ (L!Goes(q, L!Idle) \/ L!Goes(q, [web[q] EXCEPT !.k = "store"]))
        BY <3>4 DEF L!PushChatLabel
      <4>2. [web[q] EXCEPT !.k = "store"].k = "store"
        BY <1>0, <4>1, PlaceFields DEF Tag
      <4>3. L!Idle.k = "idle"
        BY DEF L!Idle
      <4> QED BY <4>1, <4>2, <4>3
    <3>5. CASE L!DeleteLabel(q)
      BY <3>5 DEF L!DeleteLabel, L!Idle
    <3> QED BY <1>2, <3>1, <3>2, <3>3, <3>4, <3>5
  <2>3. NoneOwes /\ HandOwesNot
    BY <1>0, <2>1, <2>2, GoesOwingNot, HandsOwingNot
  <2> QED BY <1>0, <2>1, <2>3, AddsRest DEF Has
<1>3. CASE L!SetChatLabelByWAID
  <2> DEFINE c == hand.c
             l == hand.l
             on == hand.on
             change(d, m) == IF L!Changes(c, l, on) /\ d = c /\ m = l THEN L!Change(on) ELSE 0
  <2>0. /\ hand.k = "write" /\ c \in Chat /\ l \in Lab /\ on \in BOOLEAN
        /\ hand = [k |-> hand.k, c |-> c, l |-> l, on |-> on, w |-> hand.w, chats |-> hand.chats]
    BY <1>3, HandWriting DEF L!SetChatLabelByWAID, Writing
  <2>1. /\ L!SetAssigned(c, l, on) /\ UNCHANGED <<counted, gap, web>>
        /\ hand' = IF L!Changes(c, l, on) THEN [hand EXCEPT !.k = "record"]
                   ELSE [k |-> "drain", w |-> hand.w, chats |-> hand.chats]
    BY <1>3 DEF L!SetChatLabelByWAID, L!SetAssigned, L!AfterWrite, L!ghosts
  <2>2. ASSUME NEW d \in Chat, NEW m \in Lab PROVE HandDue(d, m) = 0 /\ HandDue(d, m)' = change(d, m)
    <3>1. HandDue(d, m) = 0
      BY <2>0 DEF HandDue, L!Owes
    <3>2. CASE L!Changes(c, l, on)
      <4>1. hand' = [k |-> "record", c |-> c, l |-> l, on |-> on, w |-> hand.w, chats |-> hand.chats]
        BY <2>0, <2>1, <3>2
      <4>2. hand'.k = "record" /\ hand'.c = c /\ hand'.l = l /\ hand'.on = on
        BY <4>1
      <4> QED BY <3>1, <3>2, <4>2 DEF HandDue, L!Owes
    <3>3. CASE ~L!Changes(c, l, on)
      <4>1. hand'.k # "record"
        BY <2>1, <3>3
      <4> QED BY <3>1, <3>3, <4>1 DEF HandDue, L!Owes
    <3> QED BY <3>2, <3>3
  <2>3. ASSUME NEW d \in Chat, NEW m \in Lab PROVE Has(d, m)' = Has(d, m) + change(d, m)
    BY <1>0, <2>0, <2>1, HasChanges
  <2>4. ASSUME NEW d \in Chat, NEW m \in Lab PROVE change(d, m) \in Int
    BY DEF L!Change
  <2>5. NoneOwes
    BY <2>1, WebOwesNot
  <2> HIDE DEF change, c, l, on
  <2> SUFFICES ASSUME NEW d \in Chat, NEW m \in Lab, <<d, m>> \notin gap'
               PROVE  Balance(d, m)' = Has(d, m)'
    BY DEF Balanced
  <2>6. Balance(d, m) = Has(d, m)
    BY <2>1 DEF Balanced
  <2>7. /\ counted'[<<d, m>>] = counted[<<d, m>>] /\ Adding(d, m)' = Adding(d, m)
        /\ Removing(d, m)' = Removing(d, m)
    BY <2>1, <2>5 DEF NoneOwes
  <2> QED BY <1>0, <2>2, <2>3, <2>4, <2>6, <2>7, HasTypes DEF Balance
<1>4. CASE L!HandRecords
  <2> DEFINE c == hand.c
             l == hand.l
             on == hand.on
             change(d, m) == IF d = c /\ m = l THEN L!Change(on) ELSE 0
  <2>0. hand.k = "record" /\ c \in Chat /\ l \in Lab /\ on \in BOOLEAN
    BY <1>4, HandWriting DEF L!HandRecords, Writing
  <2>1. /\ counted' = [counted EXCEPT ![<<c, l>>] = @ + L!Change(on)]
        /\ UNCHANGED <<tagged, gap, web>>
    <3>1. L!RecordLabelEvent(c, l, on) /\ UNCHANGED web
      BY <1>4 DEF L!HandRecords
    <3> QED BY <1>0, <2>0, <3>1, Recorded
  <2>2. hand'.k # "record"
    BY <1>4 DEF L!HandRecords, L!AfterWrite
  <2>3. ASSUME NEW d \in Chat, NEW m \in Lab PROVE HandDue(d, m) = change(d, m) /\ HandDue(d, m)' = 0
    BY <2>0, <2>2 DEF HandDue, L!Owes
  <2>4. ASSUME NEW d \in Chat, NEW m \in Lab
        PROVE  counted'[<<d, m>>] = counted[<<d, m>>] + change(d, m) /\ change(d, m) \in Int
    <3>1. <<d, m>> = <<c, l>> <=> d = c /\ m = l
      OBVIOUS
    <3> QED BY <1>0, <2>0, <2>1, <3>1 DEF LabelTypes, L!Change
  <2>5. NoneOwes
    BY <2>1, WebOwesNot
  <2> HIDE DEF change, c, l, on
  <2> SUFFICES ASSUME NEW d \in Chat, NEW m \in Lab, <<d, m>> \notin gap'
               PROVE  Balance(d, m)' = Has(d, m)'
    BY DEF Balanced
  <2>6. Balance(d, m) = Has(d, m) /\ Has(d, m)' = Has(d, m)
    BY <2>1 DEF Balanced, Has
  <2>7. Adding(d, m)' = Adding(d, m) /\ Removing(d, m)' = Removing(d, m)
    BY <2>5 DEF NoneOwes
  <2> QED BY <1>0, <2>3, <2>4, <2>6, <2>7, HasTypes DEF Balance
<1>5. ASSUME NEW q \in Editor, L!AssignLabel(q) PROVE Balanced'
  <2> DEFINE p == web[q]
             change(d, m) == IF d = p.c /\ m = p.l THEN L!Change(p.on) ELSE 0
  <2>0. p.k = "store" /\ p \in Tag
    BY <1>0, <1>5, PlaceFields DEF L!AssignLabel
  <2>1. p.c \in Chat /\ p.l \in Lab /\ p.on \in BOOLEAN
    BY <2>0 DEF Tag
  <2>2. CASE (p.on /\ ~L!Live(p.l)) \/ ~L!Changes(p.c, p.l, p.on)
    <3>1. UNCHANGED <<counted, tagged, gap, hand>> /\ L!Goes(q, L!Idle) /\ L!Idle.k # "record"
      BY <1>5, <2>2 DEF L!AssignLabel, L!tables, L!ghosts, L!Idle
    <3>2. NoneOwes /\ HandOwesNot
      BY <1>0, <2>0, <3>1, GoesOwingNot, HandsOwingNot
    <3> QED BY <1>0, <3>1, <3>2, AddsRest DEF Has
  <2>3. CASE ~((p.on /\ ~L!Live(p.l)) \/ ~L!Changes(p.c, p.l, p.on))
    <3>1. /\ L!SetAssigned(p.c, p.l, p.on) /\ L!Changes(p.c, p.l, p.on)
          /\ L!Goes(q, [p EXCEPT !.k = "record"]) /\ UNCHANGED <<counted, gap, hand>>
      BY <1>5, <2>3 DEF L!AssignLabel, L!SetAssigned, L!ghosts
    <3>2. ASSUME NEW d \in Chat, NEW m \in Lab
          PROVE  /\ Has(d, m)' = Has(d, m) + change(d, m) /\ change(d, m) \in Int
                 /\ Adding(d, m)' - Removing(d, m)'
                      = Adding(d, m) - Removing(d, m) + change(d, m)
      <4>1. Has(d, m)' = Has(d, m) + change(d, m)
        BY <1>0, <2>1, <3>1, HasChanges
      <4>2. Adding(d, m)' - Removing(d, m)'
              = Adding(d, m) - Removing(d, m) + change(d, m)
        BY <1>0, <2>0, <3>1, ComesToOwe
      <4> QED BY <4>1, <4>2 DEF L!Change
    <3>3. ASSUME NEW d \in Chat, NEW m \in Lab
          PROVE  HandDue(d, m)' = HandDue(d, m) /\ counted'[<<d, m>>] = counted[<<d, m>>]
      BY <3>1 DEF HandDue
    <3> HIDE DEF change, p
    <3> SUFFICES ASSUME NEW d \in Chat, NEW m \in Lab, <<d, m>> \notin gap'
                 PROVE  Balance(d, m)' = Has(d, m)'
      BY DEF Balanced
    <3>4. Balance(d, m) = Has(d, m)
      BY <3>1 DEF Balanced
    <3> QED BY <1>0, <3>2, <3>3, <3>4, HasTypes DEF Balance
  <2> QED BY <2>2, <2>3
<1>6. ASSUME NEW q \in Editor, L!WebRecords(q) PROVE Balanced'
  <2> DEFINE p == web[q]
             change(d, m) == IF d = p.c /\ m = p.l THEN L!Change(p.on) ELSE 0
  <2>0. p.k = "record" /\ p \in Tag
    BY <1>0, <1>6, PlaceFields DEF L!WebRecords
  <2>1. p.c \in Chat /\ p.l \in Lab /\ p.on \in BOOLEAN
    BY <2>0 DEF Tag
  <2>2. /\ counted' = [counted EXCEPT ![<<p.c, p.l>>] = @ + L!Change(p.on)]
        /\ UNCHANGED <<tagged, gap, hand>> /\ L!Goes(q, L!Idle)
    <3>1. L!RecordLabelEvent(p.c, p.l, p.on) /\ UNCHANGED hand /\ L!Goes(q, L!Idle)
      BY <1>6 DEF L!WebRecords
    <3> QED BY <1>0, <2>1, <3>1, Recorded
  <2>3. ASSUME NEW d \in Chat, NEW m \in Lab
        PROVE  /\ counted'[<<d, m>>] = counted[<<d, m>>] + change(d, m) /\ change(d, m) \in Int
               /\ Adding(d, m)' - Removing(d, m)'
                    = Adding(d, m) - Removing(d, m) - change(d, m)
    <3>1. ASSUME NEW a, NEW b PROVE <<d, m>> = <<a, b>> <=> d = a /\ m = b
      OBVIOUS
    <3>2. counted'[<<d, m>>] = counted[<<d, m>>] + change(d, m) /\ change(d, m) \in Int
      BY <1>0, <2>1, <2>2, <3>1 DEF LabelTypes, L!Change
    <3>3. Adding(d, m)' - Removing(d, m)'
            = Adding(d, m) - Removing(d, m) - change(d, m)
      BY <1>0, <2>0, <2>2, WritesOwed
    <3> QED BY <3>2, <3>3
  <2>4. ASSUME NEW d \in Chat, NEW m \in Lab
        PROVE  HandDue(d, m)' = HandDue(d, m) /\ Has(d, m)' = Has(d, m)
    BY <2>2 DEF HandDue, Has
  <2> HIDE DEF change, p
  <2> SUFFICES ASSUME NEW d \in Chat, NEW m \in Lab, <<d, m>> \notin gap'
               PROVE  Balance(d, m)' = Has(d, m)'
    BY DEF Balanced
  <2>5. Balance(d, m) = Has(d, m)
    BY <2>2 DEF Balanced
  <2> QED BY <1>0, <2>3, <2>4, <2>5, HasTypes DEF Balance
<1>7. ASSUME NEW l, L!DropAssignments(l), NoneOwes, HandOwesNot PROVE Balanced'
  <2>1. /\ tagged' = {p \in tagged : p[2] # l} /\ gap' = gap \cup {p \in tagged : p[2] = l}
        /\ UNCHANGED counted
    BY <1>7 DEF L!DropAssignments
  <2>2. ASSUME NEW d \in Chat, NEW m \in Lab, <<d, m>> \notin gap' PROVE Has(d, m)' = Has(d, m)
    BY <2>1, <2>2 DEF Has
  <2> QED BY <1>0, <1>7, <2>1, <2>2, AddsRest
<1>8. CASE L!HandDrops
  <2>1. hand.k # "record" /\ hand'.k # "record" /\ UNCHANGED web /\ L!DropAssignments(hand.l)
    BY <1>8 DEF L!HandDrops, L!Idle
  <2> QED BY <1>7, <2>1, HandsOwingNot, WebOwesNot
<1>9. ASSUME NEW q \in Editor, L!WebDrops(q) PROVE Balanced'
  <2>1. /\ web[q].k # "record" /\ L!Idle.k # "record" /\ L!Goes(q, L!Idle) /\ UNCHANGED hand
        /\ L!DropAssignments(web[q].l)
    BY <1>9 DEF L!WebDrops, L!Idle
  <2> QED BY <1>0, <1>7, <2>1, HandsOwingNot, GoesOwingNot
<1>10. CASE L!Crash
  <2>1. /\ hand' = L!Idle /\ web' = [q \in Editor |-> L!Idle] /\ UNCHANGED <<counted, tagged>>
        /\ gap' = gap \cup {<<s.c, s.l>> : s \in {s \in L!Recording : s.k = "record"}}
    BY <1>10 DEF L!Crash, L!tables
  <2> SUFFICES ASSUME NEW d \in Chat, NEW m \in Lab, <<d, m>> \notin gap'
               PROVE  Balance(d, m)' = Has(d, m)'
    BY DEF Balanced
  <2>2. \A s \in L!Recording : ~L!Owes(s, d, m)
    BY <2>1 DEF L!Owes
  <2>3. HandDue(d, m) = 0 /\ HandDue(d, m)' = 0
    BY <2>1, <2>2 DEF L!Recording, HandDue, L!Owes, L!Idle
  <2>4. ASSUME NEW on PROVE L!Owing(d, m, on) = {} /\ L!Owing(d, m, on)' = {}
    BY <2>1, <2>2 DEF L!Recording, L!Owing, L!Owes, L!Idle
  <2>5. /\ Adding(d, m)' = Adding(d, m) /\ Removing(d, m)' = Removing(d, m)
        /\ Has(d, m)' = Has(d, m) /\ Balance(d, m) = Has(d, m)
    BY <2>1, <2>4 DEF Adding, Removing, Owed, Has, Balanced
  <2> QED BY <2>1, <2>3, <2>5 DEF Balance
<1> QED BY <1>1, <1>2, <1>3, <1>4, <1>5, <1>6, <1>8, <1>9, <1>10 DEF L!Next, L!Requests

-----------------------------------------------------------------------------
(* The reports' copy *)

Settled(c) ==
  /\ c \notin behind
  /\ \A l \in Lab : ~L!Owes(hand, c, l) /\ \A q \in Editor : ~L!Owes(web[q], c, l)
Shown(c) == L!Current(rows, tagged, c)
Copied == \A c \in Chat : Settled(c) => state[c] = Shown(c)

LEMMA CopiedIs == (L!StateIsCurrent <=> Copied) /\ (L!StateIsCurrent' <=> Copied')
BY DEF L!StateIsCurrent, Copied, Settled, Shown, L!Recording

\* Whoever is settled after the step was so before it.
StaysOwed == \A c \in Chat : Settled(c)' => Settled(c)

LEMMA OwesStill ==
  ASSUME LabelTypes, UNCHANGED hand \/ hand.k # "record",
         UNCHANGED web \/ \E q \in Editor, s \in Place : L!Goes(q, s) /\ web[q].k # "record",
         behind \subseteq behind'
  PROVE  StaysOwed
<1>1. ASSUME NEW c \in Chat, NEW l \in Lab, L!Owes(hand, c, l) PROVE L!Owes(hand', c, l)
  BY <1>1 DEF L!Owes
<1>2. ASSUME NEW c \in Chat, NEW l \in Lab, NEW q \in Editor, L!Owes(web[q], c, l)
      PROVE  L!Owes(web'[q], c, l)
  BY <1>2 DEF L!Owes, L!Goes, LabelTypes
<1> QED BY <1>1, <1>2 DEF StaysOwed, Settled

LEMMA CopyRests ==
  ASSUME Copied, StaysOwed, UNCHANGED state, \A c \in Chat : Settled(c)' => Shown(c)' = Shown(c)
  PROVE  Copied'
BY DEF Copied, StaysOwed

\* A row changes and stays as live as it was; or nobody carries it.
LEMMA ShownRests ==
  ASSUME LabelTypes, UNCHANGED tagged, NEW l \in Lab, NEW r, rows' = [rows EXCEPT ![l] = r],
         \/ (r # L!NoRow /\ ~r.deleted) = (rows[l] # L!NoRow /\ ~rows[l].deleted)
         \/ \A c \in Chat : <<c, l>> \notin tagged,
         NEW c \in Chat
  PROVE  Shown(c)' = Shown(c)
BY DEF Shown, L!Current, LabelTypes, L!NoRow

\* What slips is behind.
LEMMA SlipsOn ==
  ASSUME L!Slips(rows', tagged'), NEW c \in Chat, Settled(c)'
  PROVE  Shown(c)' = Shown(c) /\ c \notin behind
BY DEF L!Slips, Settled, Shown

\* An assignment is told of by the entry that follows.
LEMMA ShownElsewhere ==
  ASSUME LabelTypes, NEW c \in Chat, NEW l \in Lab, NEW on \in BOOLEAN, L!SetAssigned(c, l, on),
         NEW d \in Chat, d # c \/ ~L!Changes(c, l, on)
  PROVE  Shown(d)' = Shown(d)
<1>1. tagged' = (IF on THEN tagged \cup {<<c, l>>} ELSE tagged \ {<<c, l>>}) /\ UNCHANGED rows
  BY DEF L!SetAssigned
<1>2. \A m \in Lab : <<d, m>> \in tagged' <=> <<d, m>> \in tagged
  BY <1>1 DEF L!Changes
<1> QED BY <1>1, <1>2 DEF Shown, L!Current

\* The entry brings the contact's copy up to date, and nobody else's.
LEMMA CopyWritten ==
  ASSUME LabelTypes, Copied, NEW c \in Chat, NEW l \in Lab, NEW on \in BOOLEAN,
         L!RecordLabelEvent(c, l, on),
         \A d \in Chat : Settled(d)' /\ d # c => Settled(d)
  PROVE  Copied'
<1>1. state' = [state EXCEPT ![c] = L!Current(rows, tagged, c)] /\ UNCHANGED <<rows, tagged>>
  BY DEF L!RecordLabelEvent, L!RefreshLabelState
<1>2. ASSUME NEW d \in Chat, Settled(d)' PROVE state'[d] = Shown(d)'
  <2>1. Shown(d)' = Shown(d)
    BY <1>1 DEF Shown
  <2>2. CASE d = c
    BY <1>1, <2>1, <2>2 DEF Shown, LabelTypes
  <2>3. CASE d # c
    BY <1>1, <1>2, <2>1, <2>3 DEF Copied, LabelTypes
  <2> QED BY <2>2, <2>3
<1> QED BY <1>2 DEF Copied

LEMMA CopyNext ==
  ASSUME LabelShape, Copied, L!Next
  PROVE  Copied'
<1>0. LabelTypes /\ LabelTypes' /\ RowsNamed /\ None \notin Name
  BY ShapeNext, LabelsAssumption DEF LabelShape, L!LabelsAssumption
<1>1. CASE L!PhoneEdits \/ L!PhoneDeletes \/ L!PhoneTags \/ L!ChatAppears
           \/ L!ResolveAssociation \/ L!DrainPendingLabels \/ \E e \in net : L!ClaimLabelEvent(e)
  <2>1. UNCHANGED <<rows, tagged, state, behind, web>>
    BY <1>1 DEF L!PhoneEdits, L!PhoneDeletes, L!PhoneTags, L!ChatAppears,
      L!ResolveAssociation, L!DrainPendingLabels, L!ClaimLabelEvent, L!tables, L!ghosts
  <2>2. UNCHANGED hand \/ hand.k # "record"
    <3>1. CASE L!PhoneEdits \/ L!PhoneDeletes \/ L!PhoneTags \/ L!ChatAppears
      BY <3>1 DEF L!PhoneEdits, L!PhoneDeletes, L!PhoneTags, L!ChatAppears
    <3>2. CASE L!ResolveAssociation \/ L!DrainPendingLabels
      BY <3>2 DEF L!ResolveAssociation, L!DrainPendingLabels
    <3>3. CASE \E e \in net : L!ClaimLabelEvent(e)
      BY <3>3 DEF L!ClaimLabelEvent, L!Idle
    <3> QED BY <1>1, <3>1, <3>2, <3>3
  <2> QED BY <1>0, <2>1, <2>2, OwesStill, CopyRests DEF Shown
<1>2. CASE L!UpsertWALabel \/ L!HandDrops
  <2>1. UNCHANGED <<state, web>> /\ hand.k # "record" /\ L!Slips(rows', tagged')
    BY <1>2 DEF L!UpsertWALabel, L!HandDrops, L!DropAssignments, L!Slips
  <2>2. behind \subseteq behind'
    BY <2>1 DEF L!Slips
  <2> QED BY <1>0, <2>1, <2>2, OwesStill, SlipsOn, CopyRests
<1>3. ASSUME NEW q \in Editor, L!WebDrops(q) \/ (L!DeleteLabel(q) /\ L!Live(web[q].l)) PROVE Copied'
  <2>1. /\ UNCHANGED <<state, hand>> /\ web[q].k # "record" /\ L!Slips(rows', tagged')
        /\ L!Goes(q, L!Idle) \/ L!Goes(q, [k |-> "drop", l |-> web[q].l])
    BY <1>3 DEF L!WebDrops, L!DeleteLabel, L!DropAssignments, L!Slips
  <2>2. behind \subseteq behind'
    BY <2>1 DEF L!Slips
  <2>3. \E s \in Place : L!Goes(q, s)
    BY <1>0, <2>1 DEF L!Goes, LabelTypes
  <2> QED BY <1>0, <2>1, <2>2, <2>3, OwesStill, SlipsOn, CopyRests
<1>4. ASSUME NEW q \in Editor, NEW l \in Lab, NEW r, UNCHANGED <<tagged, state, behind, hand>>,
             \E s : L!Goes(q, s), web[q].k # "record", rows' = [rows EXCEPT ![l] = r],
             \/ (r # L!NoRow /\ ~r.deleted) = (rows[l] # L!NoRow /\ ~rows[l].deleted)
             \/ \A c \in Chat : <<c, l>> \notin tagged
      PROVE  Copied'
  <2>1. \E s \in Place : L!Goes(q, s)
    BY <1>0, <1>4 DEF L!Goes, LabelTypes
  <2>2. StaysOwed
    BY <1>0, <1>4, <2>1, OwesStill
  <2>3. ASSUME NEW c \in Chat PROVE Shown(c)' = Shown(c)
    BY <1>0, <1>4, ShownRests
  <2> QED BY <1>4, <2>2, <2>3, CopyRests
<1>5. ASSUME NEW q \in Editor, L!CreateLabel(q) PROVE Copied'
  <2>1. PICK l \in L!Free, n \in Name, b \in BOOLEAN :
          /\ rows' = [rows EXCEPT ![l] = [wa |-> 0, bound |-> b, name |-> n, deleted |-> FALSE, at |-> 0]]
          /\ L!Goes(q, IF b THEN L!Push(l, L!Ends) ELSE L!Idle)
    BY <1>5 DEF L!CreateLabel
  <2>2. l \in Lab /\ \A c \in Chat : <<c, l>> \notin tagged
    BY <1>0, FreeRow DEF L!NoRow, LabelShape, TagsNamed, Named
  <2>3. UNCHANGED <<tagged, state, behind, hand>> /\ web[q].k # "record"
    BY <1>5 DEF L!CreateLabel, L!Idle
  <2> QED BY <1>4, <2>1, <2>2, <2>3
<1>6. ASSUME NEW q \in Editor, L!UpdateLabel(q) PROVE Copied'
  <2>1. PICK l \in Lab, n \in Name :
          /\ L!Live(l) /\ rows' = [rows EXCEPT ![l].name = n]
          /\ L!Goes(q, IF rows[l].bound THEN L!Push(l, L!Ends) ELSE L!Idle)
    BY <1>6 DEF L!UpdateLabel
  <2> DEFINE r == [rows[l] EXCEPT !.name = n]
  <2>2. r.deleted = rows[l].deleted /\ rows' = [rows EXCEPT ![l] = r] /\ rows[l].deleted \in BOOLEAN
    BY <1>0, <2>1 DEF LabelTypes, LabelRow
  <2>3. rows[l].deleted = FALSE /\ rows[l] # L!NoRow /\ r # L!NoRow
    BY <2>1, <2>2 DEF L!Live, L!NoRow
  <2>4. (r # L!NoRow /\ ~r.deleted) = (rows[l] # L!NoRow /\ ~rows[l].deleted)
    BY <2>2, <2>3
  <2>5. UNCHANGED <<tagged, state, behind, hand>> /\ web[q].k # "record"
    BY <1>6 DEF L!UpdateLabel, L!Idle
  <2> HIDE DEF r
  <2> QED BY <1>4, <2>1, <2>2, <2>4, <2>5
<1>7. ASSUME NEW q \in Editor, UNCHANGED <<rows, tagged, state, behind, hand>>,
             \E s : L!Goes(q, s), web[q].k # "record"
      PROVE  Copied'
  <2>1. \E s \in Place : L!Goes(q, s)
    BY <1>0, <1>7 DEF L!Goes, LabelTypes
  <2> QED BY <1>0, <1>7, <2>1, OwesStill, CopyRests DEF Shown
<1>8. ASSUME NEW q \in Editor, L!AdoptWALabelID(q) PROVE Copied'
  <2> DEFINE l == web[q].l
             r == [rows[l] EXCEPT !.wa = web[q].w, !.bound = TRUE]
  <2>1. /\ rows' = rows \/ rows' = [rows EXCEPT ![l].wa = web[q].w, ![l].bound = TRUE]
        /\ UNCHANGED <<tagged, state, behind, hand>> /\ web[q].k = "adopt" /\ \E s : L!Goes(q, s)
    BY <1>8 DEF L!AdoptWALabelID, L!ghosts
  <2>2. l \in Lab /\ Named(l)
    BY <1>0, <2>1, PlaceFields DEF Defining, LabelShape, SentNamed
  <2>3. rows[l] \in LabelRow
    BY <1>0, <2>2 DEF LabelTypes
  <2>4. r.deleted = rows[l].deleted /\ r.name = rows[l].name /\ (rows' = rows \/ rows' = [rows EXCEPT ![l] = r])
    BY <1>0, <2>1, <2>2, <2>3 DEF LabelTypes, LabelRow
  <2>5. rows[l] # L!NoRow /\ r # L!NoRow
    <3>1. rows[l].name # None /\ r.name # None
      BY <1>0, <2>2, <2>4 DEF Named
    <3>2. L!NoRow.name = None
      BY DEF L!NoRow
    <3> HIDE DEF r
    <3> QED BY <3>1, <3>2
  <2>6. (r # L!NoRow /\ ~r.deleted) = (rows[l] # L!NoRow /\ ~rows[l].deleted)
    BY <2>4, <2>5
  <2>7. web[q].k # "record"
    BY <2>1
  <2> HIDE DEF l, r
  <2> QED BY <1>4, <1>7, <2>1, <2>2, <2>4, <2>6, <2>7
<1>9. ASSUME NEW q \in Editor,
             \/ L!RequestDelete(q) \/ L!RequestTag(q) \/ L!PushLabelDefinition(q)
             \/ L!SendDefinition(q) \/ L!PushChatLabel(q)
             \/ L!DeleteLabel(q) /\ ~L!Live(web[q].l)
      PROVE  Copied'
  <2>1. UNCHANGED <<rows, tagged, state, behind, hand>> /\ web[q].k # "record"
    BY <1>9 DEF L!RequestDelete, L!RequestTag, L!PushLabelDefinition, L!SendDefinition,
      L!PushChatLabel, L!DeleteLabel, L!tables, L!ghosts, L!Idle
  <2>2. \E s : L!Goes(q, s)
    BY <1>9 DEF L!RequestDelete, L!RequestTag, L!PushLabelDefinition, L!SendDefinition,
      L!PushChatLabel, L!DeleteLabel, L!Fails
  <2> QED BY <1>7, <2>1, <2>2
<1>10. CASE L!SetChatLabelByWAID
  <2> DEFINE c == hand.c
             l == hand.l
             on == hand.on
  <2>0. /\ hand.k = "write" /\ c \in Chat /\ l \in Lab /\ on \in BOOLEAN
        /\ hand = [k |-> hand.k, c |-> c, l |-> l, on |-> on, w |-> hand.w, chats |-> hand.chats]
    BY <1>10, HandWriting DEF L!SetChatLabelByWAID, Writing
  <2>1. /\ L!SetAssigned(c, l, on) /\ UNCHANGED <<state, behind, web>>
        /\ L!Changes(c, l, on) => hand' = [hand EXCEPT !.k = "record"]
    BY <1>10 DEF L!SetChatLabelByWAID, L!SetAssigned, L!ghosts
  <2>2. StaysOwed
    BY <1>0, <2>0, <2>1, OwesStill
  <2>3. L!Changes(c, l, on) => L!Owes(hand', c, l)
    <3> SUFFICES ASSUME L!Changes(c, l, on) PROVE L!Owes(hand', c, l)
      OBVIOUS
    <3>1. hand' = [k |-> "record", c |-> c, l |-> l, on |-> on, w |-> hand.w, chats |-> hand.chats]
      BY <2>0, <2>1
    <3> HIDE DEF c, l, on
    <3> QED BY <3>1 DEF L!Owes
  <2>4. ASSUME NEW d \in Chat, Settled(d)' PROVE Shown(d)' = Shown(d)
    <3>1. d # c \/ ~L!Changes(c, l, on)
      BY <2>0, <2>3, <2>4 DEF Settled
    <3> HIDE DEF c, l, on
    <3> QED BY <1>0, <2>0, <2>1, <3>1, ShownElsewhere
  <2> QED BY <2>1, <2>2, <2>4, CopyRests
<1>11. ASSUME NEW q \in Editor, L!AssignLabel(q) PROVE Copied'
  <2> DEFINE p == web[q]
  <2>0. p.k = "store" /\ p \in Tag
    BY <1>0, <1>11, PlaceFields DEF L!AssignLabel
  <2>1. p.c \in Chat /\ p.l \in Lab /\ p.on \in BOOLEAN
    BY <2>0 DEF Tag
  <2>2. CASE (p.on /\ ~L!Live(p.l)) \/ ~L!Changes(p.c, p.l, p.on)
    <3>1. UNCHANGED <<rows, tagged, state, behind, hand>> /\ L!Goes(q, L!Idle)
      BY <1>11, <2>2 DEF L!AssignLabel, L!tables, L!ghosts
    <3> QED BY <1>7, <2>0, <3>1
  <2>3. CASE ~((p.on /\ ~L!Live(p.l)) \/ ~L!Changes(p.c, p.l, p.on))
    <3> DEFINE s == [p EXCEPT !.k = "record"]
    <3>1. /\ L!SetAssigned(p.c, p.l, p.on) /\ L!Goes(q, s) /\ UNCHANGED <<state, behind, hand>>
      BY <1>11, <2>3 DEF L!AssignLabel, L!SetAssigned, L!ghosts
    <3>2. s \in Place /\ L!Owes(s, p.c, p.l)
      BY <2>0 DEF Place, Tag, L!Owes
    <3> HIDE DEF s
    <3>3. StaysOwed
      BY <1>0, <2>0, <3>1, <3>2, OwesStill
    <3>4. L!Owes(web'[q], p.c, p.l)
      BY <1>0, <3>1, <3>2 DEF L!Goes, LabelTypes
    <3>5. ASSUME NEW d \in Chat, Settled(d)' PROVE d # p.c
      BY <2>1, <3>4, <3>5 DEF Settled
    <3> HIDE DEF p
    <3>6. ASSUME NEW d \in Chat, Settled(d)' PROVE Shown(d)' = Shown(d)
      BY <1>0, <2>1, <3>1, <3>5, <3>6, ShownElsewhere
    <3> QED BY <3>1, <3>3, <3>6, CopyRests
  <2> QED BY <2>2, <2>3
<1>12. CASE L!HandRecords
  <2>0. hand.k = "record" /\ hand.c \in Chat /\ hand.l \in Lab /\ hand.on \in BOOLEAN
    BY <1>12, HandWriting DEF L!HandRecords, Writing
  <2>1. L!RecordLabelEvent(hand.c, hand.l, hand.on) /\ UNCHANGED web
    BY <1>12 DEF L!HandRecords
  <2>2. behind' = behind \ {hand.c}
    BY <2>1 DEF L!RecordLabelEvent
  <2>3. ASSUME NEW d \in Chat, Settled(d)', d # hand.c PROVE Settled(d)
    BY <2>1, <2>2, <2>3 DEF Settled, L!Owes
  <2> QED BY <1>0, <2>0, <2>1, <2>3, CopyWritten
<1>13. ASSUME NEW q \in Editor, L!WebRecords(q) PROVE Copied'
  <2> DEFINE p == web[q]
  <2>0. p.c \in Chat /\ p.l \in Lab /\ p.on \in BOOLEAN
    BY <1>0, <1>13, PlaceFields DEF L!WebRecords, Tag
  <2>1. L!RecordLabelEvent(p.c, p.l, p.on) /\ UNCHANGED hand /\ web' = [web EXCEPT ![q] = L!Idle]
    BY <1>13 DEF L!WebRecords, L!Goes
  <2>2. behind' = behind \ {p.c}
    BY <2>1 DEF L!RecordLabelEvent
  <2>3. ASSUME NEW d \in Chat, Settled(d)', d # p.c PROVE Settled(d)
    <3>1. ASSUME NEW l \in Lab, NEW t \in Editor, L!Owes(web[t], d, l) PROVE FALSE
      <4>1. t # q
        BY <2>3, <3>1 DEF L!Owes
      <4>2. web'[t] = web[t]
        BY <1>0, <2>1, <4>1 DEF LabelTypes
      <4> QED BY <2>3, <3>1, <4>2 DEF Settled
    <3> QED BY <2>1, <2>2, <2>3, <3>1 DEF Settled
  <2> HIDE DEF p
  <2> QED BY <1>0, <2>0, <2>1, <2>3, CopyWritten
<1>14. CASE L!Crash
  <2>1. /\ UNCHANGED <<rows, tagged, state>>
        /\ behind' = behind \cup {s.c : s \in {s \in L!Recording : s.k = "record"}}
    BY <1>14 DEF L!Crash, L!tables
  <2>2. ASSUME NEW c \in Chat, Settled(c)' PROVE Settled(c)
    BY <2>1, <2>2 DEF Settled, L!Owes, L!Recording
  <2> QED BY <2>1, <2>2, CopyRests DEF StaysOwed, Shown
<1> QED BY <1>1, <1>2, <1>3, <1>5, <1>6, <1>8, <1>9, <1>10, <1>11, <1>12, <1>13, <1>14
        DEF L!Next, L!Requests

-----------------------------------------------------------------------------
LEMMA LabelInit == ASSUME L!Init PROVE LabelInv
<1>1. LabelTypes
  BY LabelsAssumption DEF L!LabelsAssumption, L!Init, LabelTypes, LabelRow, Word, L!NoRow, Place
<1>2. LabelShape
  BY <1>1 DEF L!Init, LabelShape, RowsNamed, HandStands, HandNamed, TagsNamed, SentNamed, L!Idle, Writing
<1>3. OneTime /\ HeardIsAt /\ HandIsNew /\ L!LastWordStands
  BY DEF L!Init, OneTime, HeardIsAt, HandIsNew, L!LastWordStands, L!NoRow, L!Idle
<1>4. Balanced
  <2>1. ASSUME NEW c, NEW l, NEW on PROVE L!Owing(c, l, on) = {}
    BY DEF L!Init, L!Owing, L!Owes, L!Idle
  <2>2. Cardinality({}) = 0
    BY FS_EmptySet
  <2>3. ASSUME NEW c, NEW l PROVE Adding(c, l) = 0 /\ Removing(c, l) = 0
    BY <2>1, <2>2, Zenon DEF Adding, Removing, Owed
  <2>4. ASSUME NEW c \in Chat, NEW l \in Lab
        PROVE  HandDue(c, l) = 0 /\ Has(c, l) = 0 /\ counted[<<c, l>>] = 0
    BY DEF L!Init, HandDue, L!Owes, L!Idle, Has
  <2> QED BY <2>3, <2>4 DEF Balanced, Balance
<1>5. Copied
  BY DEF L!Init, Copied, Shown, L!Current, L!NoRow
<1> QED BY <1>2, <1>3, <1>4, <1>5, BalancedIs, CopiedIs DEF LabelInv

LEMMA LabelNext == ASSUME LabelInv, [L!Next]_(L!vars) PROVE LabelInv'
<1>0. /\ LabelShape /\ OneTime /\ HeardIsAt /\ HandIsNew /\ L!LastWordStands
      /\ Balanced /\ Copied
  BY BalancedIs, CopiedIs DEF LabelInv
<1>1. CASE L!Next
  <2>1. LabelShape'
    BY <1>0, <1>1, ShapeNext
  <2>2. OneTime' /\ HandIsNew'
    BY <1>0, <1>1, OneTimeNext, NewNext
  <2>3. HeardIsAt' /\ L!LastWordStands'
    BY <1>0, <1>1, WordsNext DEF WordFacts
  <2>4. L!HistoryAddsUp' /\ L!StateIsCurrent'
    BY <1>0, <1>1, AddsNext, CopyNext, BalancedIs, CopiedIs
  <2> QED BY <2>1, <2>2, <2>3, <2>4 DEF LabelInv
<1>2. CASE UNCHANGED L!vars
  BY <1>2 DEF LabelInv, L!vars, L!tables, L!ghosts, LabelShape, LabelTypes, RowsNamed, Named, HandStands,
    HandNamed, TagsNamed, SentNamed, OneTime, HeardIsAt, HandIsNew, L!LastWordStands, L!HistoryAddsUp,
    L!StateIsCurrent, L!Owing, L!Recording, L!NoRow
<1> QED BY <1>1, <1>2

-----------------------------------------------------------------------------
(***************************************************************************)
(* A person's rows in the address book, for any number of rows: merging    *)
(* two of them leaves nobody behind, and an event that knows the number    *)
(* leaves one.  The variables, by their names there, but for state, which  *)
(* is labelled here:                                                       *)
(***************************************************************************)
row == x1
made == x2
mapped == x3
thread == x4
target == x5
labelled == x6
job == x7
deleted == x9

USE DEF row, made, mapped, thread, target, labelled, job, deleted

ContactRow == [jid : {"N", "0N", "L", None}, lid : BOOLEAN, phone : {"N", "0N", None}]
Thread == [exists : BOOLEAN, contact : C!Id \cup {None}, pn : BOOLEAN]

(* What somebody is at, and what they hold there. *)
Begun ==
  [at : {"find", "insert", "thread", "link"}, then : {"thread", "link"}, via : C!Address,
   tries : {1, 2}, id : C!Id \cup {None}, keep : C!Id \cup {None}, phone : {"N", None},
   alone : BOOLEAN]
Enriching ==
  [at : {"enrich", "keep"}, then : {"thread", "link"}, via : C!Address,
   tries : {1, 2}, id : C!Id, keep : C!Id \cup {None}, phone : {"N", None}, alone : BOOLEAN]
Merging ==
  {j \in [at : {"merge"}, then : {"thread", "link"}, via : C!Address,
          tries : {1, 2}, id : C!Id, keep : C!Id, phone : {"N", None}, alone : BOOLEAN] :
     j.keep # j.id}
Resting == [at : {"idle", "import"}, alone : BOOLEAN]
Listing == [at : {"normalise"}, alone : BOOLEAN, listed : SUBSET C!Id, left : SUBSET C!Id]
Folding ==
  {j \in [at : {"fold"}, alone : BOOLEAN, winner : C!Id, left : SUBSET C!Id] : j.winner \notin j.left}
Work == Begun \cup Enriching \cup Merging \cup Resting \cup Listing \cup Folding

(* The rows: the two unique indexes, and a row without a number is a LID's. *)
RowTypes ==
  /\ row \in [C!Id -> ContactRow] /\ made \in Nat
  /\ \A i \in C!Id : i > made => row[i] = C!NoRow
OneEach ==
  \A i, m \in C!Id :
    /\ C!Lives(i) /\ C!Lives(m)
    /\ row[i].jid = row[m].jid \/ (row[i].phone = "N" /\ row[m].phone = "N")
    => i = m
Addressed ==
  \A i \in C!Id : C!Lives(i) => row[i].jid # None /\ (row[i].phone = None => row[i].jid = "L")
RowsKept == RowTypes /\ OneEach /\ Addressed

Upserting == {"find", "insert", "enrich", "keep", "merge"}

(* Where somebody alone stands with the person's LID and number. *)
Lone(j) == j.alone /\ j.via = "L" /\ j.phone = "N"
Sure(j, book) ==
  j.at \in Upserting =>
    /\ j.via = "N" => j.phone = "N"
    /\ Lone(j) =>
         /\ j.at = "enrich" =>
              /\ book[j.id] # C!NoRow
              /\ book[j.id].jid = "L" \/ \A m \in C!Id : book[m].jid # "L"
         /\ j.at = "insert" => \A m \in C!Id : book[m].jid # "L" /\ book[m].phone # "N"
         /\ j.at = "keep" =>
              /\ book[j.id] # C!NoRow /\ book[j.id].phone = None
              /\ \E m \in C!Id : book[m].phone = "N"
         /\ j.at = "merge" =>
              /\ book[j.id] # C!NoRow /\ book[j.id].phone = None
              /\ book[j.keep] # C!NoRow /\ book[j.keep].phone = "N"

JobsKept == job \in [C!Actor -> Work] /\ \A k \in C!Actor : Sure(job[k], row)
LinksKept == thread \in [C!Address -> Thread] /\ (~deleted => None \notin target)

ContactInv == RowsKept /\ JobsKept /\ LinksKept

USE DEF C!Id, C!Address, C!Actor

-----------------------------------------------------------------------------
LEMMA NoneIs == MaxRows \in Nat /\ None \notin (1..MaxRows) \cup {"N", "0N", "L"}
BY ContactsAssumption DEF C!ContactsAssumption

\* By its place, what somebody holds.
LEMMA WorkKinds ==
  ASSUME NEW j \in Work
  PROVE  /\ j.alone \in BOOLEAN
         /\ j.at \in {"find", "insert", "thread", "link"} => j \in Begun
         /\ j.at \in {"enrich", "keep"} => j \in Enriching
         /\ j.at = "merge" => j \in Merging
         /\ j.at \in {"idle", "import"} => j \in Resting
         /\ j.at = "normalise" => j \in Listing
         /\ j.at = "fold" => j \in Folding
BY DEF Work, Begun, Enriching, Merging, Resting, Listing, Folding

\* The rows a step may leave.
LEMMA RowEdited ==
  ASSUME RowsKept, NEW i \in C!Id, C!Lives(i), NEW r \in ContactRow, UNCHANGED made,
         row' = [row EXCEPT ![i] = r], r.jid = row[i].jid,
         \/ r.phone = row[i].phone
         \/ r.phone = "N" /\ \A m \in C!Id : C!Lives(m) => row[m].phone # "N"
  PROVE  RowsKept'
<1>0. /\ row \in [C!Id -> ContactRow] /\ made \in Nat
      /\ \A m \in C!Id : m > made => row[m] = C!NoRow
      /\ OneEach /\ Addressed /\ None \notin {"N", "0N", "L"}
  BY NoneIs DEF RowsKept, RowTypes
<1>1. r # C!NoRow /\ (r.phone = None => r.jid = "L")
  BY <1>0 DEF Addressed, C!NoRow
<1>2. RowTypes'
  BY <1>0 DEF RowTypes, C!Lives, C!NoRow
<1>3. OneEach'
  BY <1>0, <1>1 DEF OneEach, C!Lives, C!NoRow
<1>4. Addressed'
  BY <1>0, <1>1 DEF Addressed, C!Lives, C!NoRow
<1> QED BY <1>2, <1>3, <1>4 DEF RowsKept

LEMMA RowRemoved ==
  ASSUME RowsKept, NEW i \in C!Id, UNCHANGED made, row' = [row EXCEPT ![i] = C!NoRow]
  PROVE  RowsKept'
<1>0. /\ row \in [C!Id -> ContactRow] /\ made \in Nat
      /\ \A m \in C!Id : m > made => row[m] = C!NoRow
      /\ OneEach /\ Addressed
  BY DEF RowsKept, RowTypes
<1>1. RowTypes'
  BY <1>0 DEF RowTypes, ContactRow, C!NoRow
<1>2. OneEach' /\ Addressed'
  BY <1>0 DEF OneEach, Addressed, C!Lives, C!NoRow
<1> QED BY <1>1, <1>2 DEF RowsKept

LEMMA RowMerged ==
  ASSUME RowsKept, NEW d \in C!Id, NEW w \in C!Id, d # w, NEW r \in ContactRow, UNCHANGED made,
         row' = [row EXCEPT ![d] = C!NoRow, ![w] = r],
         ~C!Lives(w) => r = row[w],
         C!Lives(w) => r.jid = row[w].jid,
         C!Lives(w) => r.phone = row[w].phone
                       \/ (row[w].phone = None /\ C!Lives(d) /\ r.phone = row[d].phone)
  PROVE  RowsKept'
<1>0. /\ row \in [C!Id -> ContactRow] /\ made \in Nat
      /\ \A m \in C!Id : m > made => row[m] = C!NoRow
      /\ OneEach /\ Addressed /\ None \notin {"N", "0N", "L"}
  BY NoneIs DEF RowsKept, RowTypes
<1>1. /\ row' \in [C!Id -> ContactRow] /\ row'[d] = C!NoRow /\ row'[w] = r
      /\ \A m \in C!Id \ {d, w} : row'[m] = row[m]
  BY <1>0 DEF ContactRow, C!NoRow
<1>2. C!Lives(w) => r # C!NoRow /\ (r.phone = None => r.jid = "L")
  BY <1>0 DEF Addressed, C!NoRow
<1>3. ~C!Lives(w) => r = C!NoRow
  BY DEF C!Lives
<1>4. RowTypes'
  BY <1>0, <1>1, <1>3 DEF RowTypes, C!Lives
<1>5. ASSUME NEW i \in C!Id, NEW m \in C!Id, row'[i] # C!NoRow, row'[m] # C!NoRow,
             row'[i].jid = row'[m].jid \/ (row'[i].phone = "N" /\ row'[m].phone = "N")
      PROVE  i = m
  <2>1. i # d /\ m # d
    BY <1>1, <1>5
  <2>2. ASSUME NEW n \in C!Id, n # w, n # d, row'[n] # C!NoRow, row'[w] # C!NoRow,
               row'[n].jid = row'[w].jid \/ (row'[n].phone = "N" /\ row'[w].phone = "N")
        PROVE  FALSE
    <3>1. C!Lives(w) /\ C!Lives(n) /\ row'[n] = row[n] /\ row'[w] = r
      BY <1>1, <1>3, <2>2 DEF C!Lives
    <3>2. CASE row[n].jid = row[w].jid
      BY <1>0, <2>2, <3>1, <3>2 DEF OneEach
    <3>3. CASE row[n].phone = "N" /\ r.phone = "N"
      <4>1. row[w].phone = "N" \/ (C!Lives(d) /\ row[d].phone = "N")
        BY <3>1, <3>3
      <4> QED BY <1>0, <2>2, <3>1, <3>3, <4>1 DEF OneEach
    <3> QED BY <2>2, <3>1, <3>2, <3>3
  <2>3. CASE i = w \/ m = w
    BY <1>5, <2>1, <2>2, <2>3
  <2>4. CASE i # w /\ m # w
    BY <1>0, <1>1, <1>5, <2>1, <2>4 DEF OneEach, C!Lives
  <2> QED BY <2>3, <2>4
<1>6. OneEach'
  BY <1>5 DEF OneEach, C!Lives, C!NoRow
<1>7. Addressed'
  BY <1>0, <1>1, <1>2, <1>3 DEF Addressed, C!Lives, C!NoRow
<1> QED BY <1>4, <1>6, <1>7 DEF RowsKept

LEMMA RowInserted ==
  ASSUME RowsKept, NEW r \in ContactRow, r.jid # None, r.phone = None => r.jid = "L",
         ~C!Refused(r), C!Insert(r)
  PROVE  /\ RowsKept' /\ made + 1 \in C!Id /\ row[made + 1] = C!NoRow
         /\ row' = [row EXCEPT ![made + 1] = r]
<1>0. /\ row \in [C!Id -> ContactRow] /\ made \in Nat /\ made < MaxRows /\ MaxRows \in Nat
      /\ \A m \in C!Id : m > made => row[m] = C!NoRow
      /\ OneEach /\ Addressed /\ None \notin {"N", "0N", "L"}
      /\ made' = made + 1 /\ row' = [row EXCEPT ![made + 1] = r]
  BY NoneIs DEF RowsKept, RowTypes, C!Insert
<1>1. made + 1 \in C!Id /\ row[made + 1] = C!NoRow /\ made' \in Nat
  BY <1>0
<1> DEFINE n == made + 1
<1>2. /\ row' \in [C!Id -> ContactRow] /\ row'[n] = r /\ n \in C!Id
      /\ \A m \in C!Id \ {n} : row'[m] = row[m]
  BY <1>0, <1>1
<1>3. \A m \in C!Id : C!Lives(m) => /\ row[m].jid # r.jid
                                    /\ r.phone # None => row[m].phone # r.phone
  BY DEF C!Refused, C!Live
<1>4. \A m \in C!Id : m > made' => m > made /\ m # n
  BY <1>0
<1>5. RowTypes'
  BY <1>0, <1>1, <1>2, <1>4 DEF RowTypes, C!NoRow
<1> HIDE DEF n
<1>6. OneEach'
  BY <1>0, <1>2, <1>3 DEF OneEach, C!Lives, C!NoRow
<1>7. Addressed'
  BY <1>0, <1>2 DEF Addressed, C!Lives, C!NoRow
<1> QED BY <1>0, <1>1, <1>5, <1>6, <1>7 DEF RowsKept

LEMMA RowsRestHere ==
  ASSUME RowsKept, UNCHANGED <<row, made>>
  PROVE  RowsKept'
BY DEF RowsKept, RowTypes, OneEach, Addressed, C!Lives, C!NoRow

\* Somebody goes on; the others know whether the book changed.
LEMMA Going ==
  ASSUME JobsKept, NEW k \in C!Actor, NEW r \in Work, C!Goes(k, r), Sure(r, row')
  PROVE  JobsKept'
<1>1. job' = [j \in C!Actor |-> IF j = k THEN r
                                ELSE [job[j] EXCEPT !.alone = job[j].alone /\ row' = row]]
  BY DEF C!Goes
<1>2. ASSUME NEW j \in C!Actor, j # k PROVE job'[j] \in Work /\ Sure(job'[j], row')
  <2> DEFINE o == job[j]
             on == o.alone /\ row' = row
             n == [o EXCEPT !.alone = on]
  <2>1. o \in Work /\ on \in BOOLEAN /\ job'[j] = n /\ Sure(o, row)
    BY <1>1, <1>2, WorkKinds DEF JobsKept
  <2> HIDE DEF o, on
  <2>2. n \in Work
    BY <2>1 DEF Work, Begun, Enriching, Merging, Resting, Listing, Folding
  <2>3. n.at = o.at /\ (n.at \in Upserting =>
          n.via = o.via /\ n.phone = o.phone /\ n.id = o.id /\ n.keep = o.keep /\ n.alone = on)
    BY <2>1 DEF Upserting, Work, Begun, Enriching, Merging, Resting, Listing, Folding
  <2>4. on => row' = row /\ o.alone
    BY DEF on
  <2> HIDE DEF n
  <2>5. Sure(n, row')
    BY <2>1, <2>3, <2>4 DEF Sure, Lone, Upserting
  <2> QED BY <2>1, <2>2, <2>5
<1>3. job'[k] = r
  BY <1>1
<1> QED BY <1>1, <1>2, <1>3 DEF JobsKept

\* Whoever is not about to look at the book has nothing to be sure of.
LEMMA SureElsewhere ==
  ASSUME NEW r, NEW book, r.at \notin Upserting
  PROVE  Sure(r, book)
BY DEF Sure, Upserting

\* What each step of an upsert needs of the one before.
LEMMA UpsertKeeps ==
  ASSUME ContactInv, NEW k \in {"handler", "sync"}, C!Upsert(k)
  PROVE  RowsKept' /\ JobsKept'
<1> DEFINE j == job[k]
<1>0. /\ RowsKept /\ JobsKept /\ k \in C!Actor /\ j \in Work /\ Sure(j, row)
      /\ row \in [C!Id -> ContactRow] /\ OneEach /\ Addressed
      /\ j.at \in Upserting /\ j.via = "N" => j.phone = "N"
  BY DEF ContactInv, JobsKept, RowsKept, RowTypes, Sure, Upserting
<1>1. CASE C!FindContact(k)
  <2>0. j \in Begun /\ j.at = "find" /\ UNCHANGED <<row, made>>
    BY <1>0, <1>1, WorkKinds DEF C!FindContact
  <2>1. RowsKept'
    BY <1>0, <2>0, RowsRestHere
  <2>2. CASE C!Matches(k) = {}
    <3> DEFINE r == [j EXCEPT !.at = "insert"]
    <3>1. C!Goes(k, r) /\ r \in Work
      BY <1>1, <2>0, <2>2 DEF C!FindContact, C!At, Work, Begun
    <3>2. r.at = "insert" /\ r.via = j.via /\ r.phone = j.phone
      BY <2>0 DEF Begun
    <3>3. Lone(r) => \A m \in C!Id : row'[m].jid # "L" /\ row'[m].phone # "N"
      <4> SUFFICES ASSUME Lone(r), NEW m \in C!Id PROVE row[m].jid # "L" /\ row[m].phone # "N"
        BY <2>0
      <4>1. j.via = "L" /\ j.phone = "N"
        BY <3>2 DEF Lone
      <4>2. m \notin C!Matches(k)
        BY <2>2
      <4>3. CASE C!Lives(m)
        BY <4>1, <4>2, <4>3, NoneIs DEF C!Matches, C!Live
      <4>4. CASE ~C!Lives(m)
        BY <4>4, NoneIs DEF C!Lives, C!NoRow
      <4> QED BY <4>3, <4>4
    <3> HIDE DEF r
    <3>4. Sure(r, row')
      BY <1>0, <2>0, <3>2, <3>3 DEF Sure, Upserting
    <3> QED BY <1>0, <2>1, <3>1, <3>4, Going
  <2>3. CASE C!Matches(k) # {}
    <3>1. PICK i \in C!Candidates(k) : C!Goes(k, [C!At(k, "enrich") EXCEPT !.id = i])
      BY <1>1, <2>3 DEF C!FindContact
    <3> DEFINE r == [j EXCEPT !.at = "enrich", !.id = i]
    <3>2. i \in C!Matches(k) /\ i \in C!Id /\ C!Lives(i)
      BY DEF C!Candidates, C!Matches, C!Live
    <3>3. C!Goes(k, r) /\ r \in Work
      BY <2>0, <3>1, <3>2 DEF C!At, Work, Begun, Enriching
    <3>4. r.at = "enrich" /\ r.id = i /\ r.via = j.via /\ r.phone = j.phone
      BY <2>0 DEF Begun
    <3>5. j.via = "L" => row[i].jid = "L" \/ \A m \in C!Id : row[m].jid # "L"
      <4> SUFFICES ASSUME j.via = "L", NEW m \in C!Id, row[m].jid = "L" PROVE row[i].jid = "L"
        OBVIOUS
      <4>1. C!Lives(m)
        BY NoneIs DEF C!Lives, C!NoRow
      <4>2. m \in C!Matches(k)
        BY <4>1 DEF C!Matches, C!Live
      <4> QED BY <3>1, <4>2 DEF C!Candidates
    <3> HIDE DEF r
    <3>6. Sure(r, row')
      BY <1>0, <2>0, <3>2, <3>4, <3>5 DEF Sure, Lone, C!Lives, Upserting
    <3> QED BY <1>0, <2>1, <3>3, <3>6, Going
  <2> QED BY <2>2, <2>3
<1>2. ASSUME NEW id \in C!Id \cup {None}, C!Returns(k, id),
             j.at \in {"enrich", "keep", "merge", "insert"}
      PROVE  JobsKept'
  <2> DEFINE r == [j EXCEPT !.at = j.then, !.id = id]
  <2>1. C!Goes(k, r)
    <3>1. [[j EXCEPT !.at = j.then] EXCEPT !.id = id] = r
      BY <1>0, <1>2, WorkKinds DEF Begun, Enriching, Merging
    <3> QED BY <1>2, <3>1 DEF C!Returns, C!At
  <2>2. r \in Begun
    BY <1>0, <1>2, WorkKinds DEF Begun, Enriching, Merging
  <2>3. r \in Work /\ r.at \notin Upserting
    BY <1>0, <1>2, <2>2, WorkKinds DEF Work, Begun, Enriching, Merging, Upserting
  <2> HIDE DEF r
  <2> QED BY <1>0, <2>1, <2>3, Going, SureElsewhere
<1>3. CASE C!EnrichContact(k)
  <2> DEFINE i == j.id
             n == C!Enriched(k, i)
             taken == C!Lives(i) /\ n.phone # row[i].phone /\ C!WithPhone(j.phone) # {}
  <2>0. /\ j \in Enriching /\ j.at = "enrich" /\ UNCHANGED made /\ i \in C!Id /\ row[i] \in ContactRow
        /\ row' = IF C!Lives(i) /\ ~taken THEN [row EXCEPT ![i] = n] ELSE row
        /\ IF taken THEN C!Goes(k, C!At(k, "keep")) ELSE C!Returns(k, i)
    BY <1>0, <1>3, WorkKinds DEF C!EnrichContact, Enriching
  <2>1. /\ n \in ContactRow /\ n.jid = row[i].jid
        /\ n.phone = IF row[i].phone = None THEN j.phone ELSE row[i].phone
    BY <2>0 DEF C!Enriched, ContactRow, Enriching
  <2>2. CASE taken
    <3> DEFINE r == [j EXCEPT !.at = "keep"]
    <3>1. C!Goes(k, r) /\ r \in Work /\ UNCHANGED row
      BY <2>0, <2>2 DEF C!At, Work, Enriching
    <3>2. r.at = "keep" /\ r.id = i /\ r.via = j.via /\ r.phone = j.phone
      BY <2>0 DEF Enriching
    <3>3. C!Lives(i) /\ row[i].phone = None /\ \E m \in C!Id : row[m].phone = j.phone
      BY <2>1, <2>2 DEF C!WithPhone, C!Live
    <3>4. RowsKept'
      BY <1>0, <2>0, <3>1, RowsRestHere
    <3> HIDE DEF r, j
    <3>5. Sure(r, row')
      BY <1>0, <2>0, <3>1, <3>2, <3>3 DEF Sure, Lone, C!Lives, Upserting
    <3> QED BY <1>0, <3>1, <3>4, <3>5, Going
  <2>3. CASE ~taken
    <3>1. JobsKept'
      BY <1>2, <2>0, <2>3
    <3>2. CASE ~C!Lives(i)
      BY <1>0, <2>0, <3>1, <3>2, RowsRestHere
    <3>3. CASE C!Lives(i)
      <4>1. row' = [row EXCEPT ![i] = n]
        BY <2>0, <2>3, <3>3
      <4>2. \/ n.phone = row[i].phone
            \/ n.phone = "N" /\ \A m \in C!Id : C!Lives(m) => row[m].phone # "N"
        <5> SUFFICES ASSUME n.phone # row[i].phone
                     PROVE  n.phone = "N" /\ \A m \in C!Id : C!Lives(m) => row[m].phone # "N"
          OBVIOUS
        <5>1. C!WithPhone(j.phone) = {} /\ row[i].phone = None /\ n.phone = j.phone
          BY <2>1, <2>3, <3>3
        <5>2. j.phone = "N"
          BY <2>0, <5>1 DEF Enriching
        <5> QED BY <5>1, <5>2 DEF C!WithPhone, C!Live
      <4> HIDE DEF n
      <4>3. RowsKept'
        BY <1>0, <2>0, <2>1, <3>3, <4>1, <4>2, RowEdited
      <4> QED BY <3>1, <4>3
    <3> QED BY <3>2, <3>3
  <2> QED BY <2>2, <2>3
<1>4. CASE C!FindKeep(k)
  <2> DEFINE others == C!WithPhone(j.phone) \ {j.id}
  <2>0. /\ j \in Enriching /\ j.at = "keep" /\ UNCHANGED <<row, made>> /\ j.id \in C!Id
        /\ IF others = {} THEN C!Returns(k, j.id)
           ELSE \E i \in others : C!Goes(k, [C!At(k, "merge") EXCEPT !.keep = i])
    BY <1>0, <1>4, WorkKinds DEF C!FindKeep, Enriching
  <2>1. RowsKept'
    BY <1>0, <2>0, RowsRestHere
  <2>2. CASE others = {}
    BY <1>2, <2>0, <2>1, <2>2
  <2>3. CASE others # {}
    <3>1. PICK i \in others : C!Goes(k, [C!At(k, "merge") EXCEPT !.keep = i])
      BY <2>0, <2>3
    <3> DEFINE r == [j EXCEPT !.at = "merge", !.keep = i]
    <3>2. i \in C!Id /\ C!Lives(i) /\ row[i].phone = j.phone /\ i # j.id
      BY DEF C!WithPhone, C!Live
    <3>3. r \in Merging /\ r.at = "merge" /\ r.id = j.id /\ r.keep = i /\ r.via = j.via
          /\ r.phone = j.phone /\ r.alone = j.alone
      BY <2>0, <3>2 DEF Enriching, Merging
    <3>4. C!Goes(k, r)
      BY <2>0, <3>1 DEF C!At, Enriching
    <3>5. r \in Work
      BY <3>3 DEF Work
    <3> HIDE DEF r
    <3>6. Sure(r, row')
      BY <1>0, <2>0, <3>2, <3>3 DEF Sure, Lone, C!Lives, Upserting
    <3> QED BY <1>0, <2>1, <3>4, <3>5, <3>6, Going
  <2> QED BY <2>2, <2>3
<1>5. CASE C!InsertContact(k)
  <2> DEFINE new == [jid |-> j.via, lid |-> j.via = "L", phone |-> j.phone]
  <2>0. /\ j \in Begun /\ j.at = "insert"
        /\ \/ ~C!Refused(new) /\ C!Insert(new) /\ C!Returns(k, made + 1)
           \/ /\ C!Refused(new) /\ UNCHANGED <<row, made>>
              /\ IF j.tries = 1 THEN C!Goes(k, [C!At(k, "find") EXCEPT !.tries = 2])
                 ELSE C!Returns(k, None)
    BY <1>0, <1>5, WorkKinds DEF C!InsertContact
  <2>1. CASE ~C!Refused(new) /\ C!Insert(new) /\ C!Returns(k, made + 1)
    <3>1. new \in ContactRow /\ new.jid # None
      BY <2>0, NoneIs DEF ContactRow, Begun
    <3>2. new.phone = None => new.jid = "L"
      BY <1>0, <2>0, NoneIs DEF Begun, Upserting
    <3> HIDE DEF new
    <3>3. RowsKept' /\ made + 1 \in C!Id
      BY <1>0, <2>1, <3>1, <3>2, RowInserted
    <3>4. JobsKept'
      BY <1>2, <2>0, <2>1, <3>3
    <3> QED BY <3>3, <3>4
  <2>2. CASE C!Refused(new) /\ UNCHANGED <<row, made>>
    <3>1. RowsKept'
      BY <1>0, <2>2, RowsRestHere
    <3>2. CASE C!Returns(k, None)
      BY <1>2, <2>0, <3>1, <3>2
    <3>3. CASE C!Goes(k, [C!At(k, "find") EXCEPT !.tries = 2])
      <4> DEFINE r == [j EXCEPT !.at = "find", !.tries = 2]
      <4>1. C!Goes(k, r) /\ r \in Begun /\ r.at = "find" /\ r.via = j.via /\ r.phone = j.phone
        BY <2>0, <3>3 DEF C!At, Begun
      <4>2. r \in Work
        BY <4>1 DEF Work
      <4> HIDE DEF r
      <4>3. Sure(r, row')
        BY <1>0, <2>0, <4>1 DEF Sure, Upserting
      <4> QED BY <1>0, <3>1, <4>1, <4>2, <4>3, Going
    <3> QED BY <2>0, <2>2, <3>2, <3>3
  <2> QED BY <2>0, <2>1, <2>2
<1>6. CASE C!MergeContactRows(k)
  <2> DEFINE d == j.id
             w == j.keep
             n == C!Absorbs(w, d)
             r == [j EXCEPT !.at = "enrich", !.id = w]
  <2>0. /\ j \in Merging /\ j.at = "merge" /\ UNCHANGED made /\ d \in C!Id /\ w \in C!Id /\ d # w
        /\ row[d] \in ContactRow /\ row[w] \in ContactRow
    BY <1>0, <1>6, WorkKinds DEF C!MergeContactRows, Merging
  <2>1. CASE ~C!Lives(w) /\ C!PointsAt(d)
    <3>1. UNCHANGED row /\ C!Returns(k, None)
      BY <1>6, <2>1 DEF C!MergeContactRows
    <3>2. RowsKept'
      BY <1>0, <2>0, <3>1, RowsRestHere
    <3>3. None \in C!Id \cup {None}
      OBVIOUS
    <3> HIDE DEF j, d, w, n, r
    <3>4. JobsKept'
      BY <1>2, <2>0, <3>1, <3>3
    <3> QED BY <3>2, <3>4
  <2>2. CASE ~(~C!Lives(w) /\ C!PointsAt(d))
    <3>1. row' = [row EXCEPT ![d] = C!NoRow, ![w] = n] /\ C!Goes(k, [C!At(k, "enrich") EXCEPT !.id = w])
      BY <1>6, <2>2 DEF C!MergeContactRows
    <3>2. r \in Enriching /\ r.at = "enrich" /\ r.id = w /\ r.via = j.via
          /\ r.phone = j.phone /\ r.alone = j.alone
      BY <2>0 DEF Merging, Enriching
    <3>3. C!Goes(k, r)
      BY <2>0, <3>1 DEF C!At, Merging
    <3>4. n \in ContactRow /\ n.jid = row[w].jid
          /\ (C!Lives(w) => n.phone = row[w].phone
                            \/ (row[w].phone = None /\ C!Lives(d) /\ n.phone = row[d].phone))
          /\ (~C!Lives(w) => n = row[w])
          /\ (row[w].phone = "N" => n.phone = "N")
      BY <2>0, NoneIs DEF ContactRow, C!Absorbs
    <3>5. r \in Work
      BY <3>2 DEF Work
    <3> HIDE DEF n, r
    <3>6. RowsKept'
      BY <1>0, <2>0, <3>1, <3>4, RowMerged
    <3>7. Sure(r, row')
      <4> SUFFICES ASSUME Lone(j)
                   PROVE  row'[w] # C!NoRow /\ \A m \in C!Id : row'[m].jid # "L"
        BY <1>0, <2>0, <3>2 DEF Sure, Lone, Upserting
      <4>1. C!Lives(d) /\ row[d].phone = None /\ row[w].phone = "N" /\ C!Lives(w)
        BY <1>0, <2>0 DEF Sure, Upserting, C!Lives
      <4>2. row[d].jid = "L"
        BY <1>0, <2>0, <4>1 DEF Addressed
      <4>3. row'[w] = n /\ row'[d] = C!NoRow /\ n.phone = "N"
        BY <1>0, <2>0, <3>1, <3>4, <4>1
      <4>4. ASSUME NEW m \in C!Id, m # d PROVE row'[m].jid # "L"
        <5>1. row'[m].jid = row[m].jid
          BY <1>0, <2>0, <3>1, <3>4, <4>4
        <5>2. row[m].jid = "L" => C!Lives(m)
          BY NoneIs DEF C!Lives, C!NoRow
        <5> QED BY <1>0, <2>0, <4>1, <4>2, <4>4, <5>1, <5>2 DEF OneEach
      <4> QED BY <4>3, <4>4, NoneIs DEF C!NoRow
    <3> QED BY <1>0, <3>3, <3>5, <3>6, <3>7, Going
  <2> QED BY <2>1, <2>2
<1> QED BY <1>1, <1>3, <1>4, <1>5, <1>6 DEF C!Upsert

LEMMA JobsRest ==
  ASSUME JobsKept, UNCHANGED <<row, job>>
  PROVE  JobsKept'
BY DEF JobsKept, Sure, Upserting, Lone, C!NoRow

\* Somebody sits down to rest, to list or to fold; the rows are accounted for.
LEMMA Turning ==
  ASSUME JobsKept, NEW k \in C!Actor, NEW r \in Work, C!Goes(k, r), r.at \notin Upserting
  PROVE  JobsKept'
BY Going, SureElsewhere

LEMMA Calling ==
  ASSUME NEW via \in C!Address, NEW then \in {"thread", "link"}
  PROVE  /\ C!Caller(then, via) \in Work
         /\ C!Caller(then, via).at = "find"
         /\ Sure(C!Caller(then, via), row')
         /\ [C!Caller(then, via) EXCEPT !.at = "thread"] \in Work
         /\ [C!Caller(then, via) EXCEPT !.at = "thread"].at = "thread"
<1> DEFINE r == C!Caller(then, via)
           t == [r EXCEPT !.at = "thread"]
<1>1. r \in Begun /\ r.at = "find" /\ (r.via = "N" => r.phone = "N")
  BY DEF C!Caller, Begun
<1> HIDE DEF r
<1>2. t \in Begun /\ t.at = "thread"
  BY <1>1 DEF Begun
<1>3. Sure(r, row')
  BY <1>1 DEF Sure, Upserting
<1>4. r \in Work /\ r.at = "find" /\ Sure(r, row') /\ t \in Work /\ t.at = "thread"
  BY <1>1, <1>2, <1>3 DEF Work
<1> HIDE DEF t
<1> QED BY <1>4, Zenon DEF r, t

\* The sessions' handler and the sync, other than in an upsert.
LEMMA EventsKeep ==
  ASSUME ContactInv,
         \/ \E via \in C!Address : C!SyncDirectory(via) \/ \E fromMe \in BOOLEAN : C!HandleMessage(via, fromMe)
         \/ C!StoreMessage \/ C!LinkConversationsToContacts
  PROVE  RowsKept' /\ JobsKept'
<1>0. RowsKept /\ JobsKept /\ {"handler", "sync"} \subseteq C!Actor
  BY DEF ContactInv
<1>1. ASSUME NEW via \in C!Address, C!SyncDirectory(via) PROVE RowsKept' /\ JobsKept'
  <2>1. UNCHANGED <<row, made>> /\ C!Goes("sync", C!Caller("link", via))
    BY <1>1 DEF C!SyncDirectory
  <2>2. RowsKept'
    BY <1>0, <2>1, RowsRestHere
  <2>3. C!Caller("link", via) \in Work /\ Sure(C!Caller("link", via), row')
    BY Calling
  <2> QED BY <1>0, <2>1, <2>2, <2>3, Going
<1>2. ASSUME NEW via \in C!Address, NEW fromMe \in BOOLEAN, C!HandleMessage(via, fromMe)
      PROVE  RowsKept' /\ JobsKept'
  <2> DEFINE r == IF fromMe THEN [C!Caller("thread", via) EXCEPT !.at = "thread"]
                  ELSE C!Caller("thread", via)
  <2>1. UNCHANGED <<row, made>> /\ C!Goes("handler", r)
    BY <1>2 DEF C!HandleMessage
  <2>2. RowsKept'
    BY <1>0, <2>1, RowsRestHere
  <2>3. r \in Work /\ Sure(r, row')
    <3>1. /\ C!Caller("thread", via) \in Work /\ Sure(C!Caller("thread", via), row')
          /\ [C!Caller("thread", via) EXCEPT !.at = "thread"] \in Work
          /\ [C!Caller("thread", via) EXCEPT !.at = "thread"].at \notin Upserting
      BY Calling DEF Upserting
    <3>2. Sure([C!Caller("thread", via) EXCEPT !.at = "thread"], row')
      BY <3>1, SureElsewhere
    <3> QED BY <3>1, <3>2
  <2> HIDE DEF r
  <2> QED BY <1>0, <2>1, <2>2, <2>3, Going
<1>3. C!Idle \in Work /\ C!Idle.at \notin Upserting
  BY DEF C!Idle, Work, Resting, Upserting
<1>4. CASE C!StoreMessage
  <2>1. UNCHANGED <<row, made>> /\ C!Goes("handler", C!Idle)
    BY <1>4 DEF C!StoreMessage
  <2> QED BY <1>0, <1>3, <2>1, RowsRestHere, Turning
<1>5. CASE C!LinkConversationsToContacts
  <2>1. UNCHANGED <<row, made>> /\ C!Goes("sync", C!Idle)
    BY <1>5 DEF C!LinkConversationsToContacts
  <2> QED BY <1>0, <1>3, <2>1, RowsRestHere, Turning
<1> QED BY <1>1, <1>2, <1>4, <1>5

\* The operator's import and merge of duplicates.
LEMMA OperatorKeeps ==
  ASSUME ContactInv,
         \/ C!ImportContacts \/ C!ImportInserts \/ C!MergeDuplicateContacts \/ C!Normalise
         \/ \E i \in C!Id : C!MergeContactInto(i) \/ C!DeleteContacts(i) \/ C!RefersTo(i)
         \/ C!LearnMapping \/ UNCHANGED C!vars
  PROVE  RowsKept' /\ JobsKept'
<1> DEFINE j == job["admin"]
<1>0. /\ RowsKept /\ JobsKept /\ "admin" \in C!Actor /\ j \in Work
      /\ row \in [C!Id -> ContactRow] /\ OneEach /\ Addressed
  BY DEF ContactInv, JobsKept, RowsKept, RowTypes
<1>1. C!Idle \in Work /\ C!Idle.at \notin Upserting
  BY DEF C!Idle, Work, Resting, Upserting
<1>2. CASE C!ImportContacts
  <2>1. UNCHANGED <<row, made>> /\ (UNCHANGED job \/ C!Goes("admin", [C!Idle EXCEPT !.at = "import"]))
    BY <1>2 DEF C!ImportContacts
  <2>2. [C!Idle EXCEPT !.at = "import"] \in Work /\ [C!Idle EXCEPT !.at = "import"].at \notin Upserting
    BY DEF C!Idle, Work, Resting, Upserting
  <2>3. RowsKept'
    BY <1>0, <2>1, RowsRestHere
  <2>4. JobsKept'
    BY <1>0, <2>1, <2>2, JobsRest, Turning
  <2> QED BY <2>3, <2>4
<1>3. CASE C!ImportInserts
  <2>1. /\ C!Goes("admin", C!Idle)
        /\ IF C!Refused(C!Canonical) THEN UNCHANGED <<row, made>> ELSE C!Insert(C!Canonical)
    BY <1>3 DEF C!ImportInserts
  <2>2. C!Canonical \in ContactRow /\ C!Canonical.jid # None /\ C!Canonical.phone # None
    BY NoneIs DEF C!Canonical, ContactRow
  <2>3. RowsKept'
    BY <1>0, <2>1, <2>2, RowsRestHere, RowInserted
  <2> QED BY <1>0, <1>1, <2>1, <2>3, Turning
<1>4. CASE C!MergeDuplicateContacts
  <2> DEFINE listed == {i \in C!Live : row[i].phone # None}
             later == {i \in listed : row[i].phone # "N"}
             r == C!Fold("normalise", listed, later)
  <2>1. UNCHANGED <<row, made>> /\ C!Goes("admin", r)
    BY <1>4 DEF C!MergeDuplicateContacts
  <2>2. listed \in SUBSET C!Id /\ later \in SUBSET C!Id
    BY DEF C!Live
  <2> HIDE DEF listed, later
  <2>3. r \in Work /\ r.at \notin Upserting
    BY <2>2 DEF C!Fold, Work, Listing, Upserting
  <2> QED BY <1>0, <2>1, <2>3, RowsRestHere, Turning
<1>5. CASE C!Normalise
  <2>0. j \in Listing /\ j.at = "normalise" /\ UNCHANGED made
        /\ j.listed \in SUBSET C!Id /\ j.left \in SUBSET C!Id /\ j.alone \in BOOLEAN
    <3>1. j.at = "normalise" /\ UNCHANGED made
      BY <1>5 DEF C!Normalise
    <3> QED BY <1>0, <3>1, WorkKinds DEF Listing
  <2>1. ASSUME NEW i \in j.left,
               row' = IF C!Lives(i) /\ C!WithPhone("N") = {} THEN [row EXCEPT ![i].phone = "N"] ELSE row,
               C!Goes("admin", [j EXCEPT !.left = j.left \ {i}])
        PROVE  RowsKept' /\ JobsKept'
    <3> DEFINE r == [j EXCEPT !.left = j.left \ {i}]
    <3>1. r \in Work /\ r.at \notin Upserting
      BY <2>0 DEF Listing, Work, Upserting
    <3> HIDE DEF r
    <3>2. JobsKept'
      BY <1>0, <2>1, <3>1, Turning DEF r
    <3>3. CASE C!Lives(i) /\ C!WithPhone("N") = {}
      <4>1. i \in C!Id /\ row[i] \in ContactRow
        BY <1>0, <2>0
      <4> DEFINE n == [row[i] EXCEPT !.phone = "N"]
      <4>2. n \in ContactRow /\ n.jid = row[i].jid /\ n.phone = "N"
        BY <4>1 DEF ContactRow
      <4>3. row' = [row EXCEPT ![i] = n]
        BY <2>1, <3>3
      <4>4. \A m \in C!Id : C!Lives(m) => row[m].phone # "N"
        BY <3>3 DEF C!WithPhone, C!Live
      <4> HIDE DEF n
      <4>5. RowsKept'
        BY <1>0, <2>0, <3>3, <4>1, <4>2, <4>3, <4>4, RowEdited
      <4> QED BY <3>2, <4>5
    <3>4. CASE ~(C!Lives(i) /\ C!WithPhone("N") = {})
      BY <1>0, <2>0, <2>1, <3>2, <3>4, RowsRestHere
    <3> QED BY <3>3, <3>4
  <2>2. ASSUME UNCHANGED row, C!Goes("admin", C!Idle)
        PROVE  RowsKept' /\ JobsKept'
    BY <1>0, <1>1, <2>0, <2>2, RowsRestHere, Turning
  <2>3. ASSUME UNCHANGED row, NEW w \in j.listed,
               C!Goes("admin", [at |-> "fold", alone |-> j.alone, winner |-> w,
                                left |-> j.listed \ {w}])
        PROVE  RowsKept' /\ JobsKept'
    <3> DEFINE r == [at |-> "fold", alone |-> j.alone, winner |-> w, left |-> j.listed \ {w}]
    <3>1. r \in Work /\ r.at \notin Upserting
      BY <2>0 DEF Folding, Work, Upserting
    <3> HIDE DEF r
    <3> QED BY <1>0, <2>0, <2>3, <3>1, RowsRestHere, Turning DEF r
  <2> QED BY <1>5, <2>1, <2>2, <2>3 DEF C!Normalise
<1>6. ASSUME NEW l \in C!Id, C!MergeContactInto(l) PROVE RowsKept' /\ JobsKept'
  <2> DEFINE w == j.winner
  <2>0. /\ j \in Folding /\ j.at = "fold" /\ UNCHANGED made /\ w \in C!Id /\ l \in j.left /\ l # w
        /\ j.left \in SUBSET C!Id /\ j.alone \in BOOLEAN /\ row[w] \in ContactRow
    <3>1. j.at = "fold" /\ UNCHANGED made /\ l \in j.left
      BY <1>6 DEF C!MergeContactInto
    <3> QED BY <1>0, <3>1, WorkKinds DEF Folding
  <2>1. CASE ~C!Lives(w) /\ C!PointsAt(l)
    <3>1. UNCHANGED row /\ C!Goes("admin", C!Idle)
      BY <1>6, <2>1 DEF C!MergeContactInto
    <3> QED BY <1>0, <1>1, <2>0, <3>1, RowsRestHere, Turning
  <2>2. CASE ~(~C!Lives(w) /\ C!PointsAt(l))
    <3> DEFINE n == [row[w] EXCEPT !.lid = IF C!Lives(w) THEN row[w].lid \/ row[l].lid ELSE row[w].lid]
               r == IF j.left = {l} THEN [C!Idle EXCEPT !.alone = j.alone]
                    ELSE [j EXCEPT !.left = j.left \ {l}]
    <3>1. /\ row' = [row EXCEPT ![l] = C!NoRow,
                       ![w].lid = IF C!Lives(w) THEN row[w].lid \/ row[l].lid ELSE row[w].lid]
          /\ C!Goes("admin", r)
      BY <1>6, <2>2 DEF C!MergeContactInto
    <3>2. row' = [row EXCEPT ![l] = C!NoRow, ![w] = n]
      BY <1>0, <2>0, <3>1
    <3>3. n \in ContactRow /\ n.jid = row[w].jid /\ n.phone = row[w].phone /\ (~C!Lives(w) => n = row[w])
      BY <1>0, <2>0 DEF ContactRow
    <3>4. r \in Work /\ r.at \notin Upserting
      <4>1. [C!Idle EXCEPT !.alone = j.alone] \in Resting /\ [C!Idle EXCEPT !.alone = j.alone].at = "idle"
        BY <2>0 DEF C!Idle, Resting
      <4>2. [j EXCEPT !.left = j.left \ {l}] \in Folding /\ [j EXCEPT !.left = j.left \ {l}].at = "fold"
        BY <2>0 DEF Folding
      <4> QED BY <4>1, <4>2 DEF Work, Upserting
    <3> HIDE DEF n, r
    <3>5. RowsKept'
      BY <1>0, <2>0, <3>2, <3>3, RowMerged
    <3> QED BY <1>0, <3>1, <3>4, <3>5, Turning
  <2> QED BY <2>1, <2>2
<1>7. ASSUME NEW i \in C!Id, C!DeleteContacts(i) PROVE RowsKept' /\ JobsKept'
  <2>1. /\ UNCHANGED made /\ row' = [row EXCEPT ![i] = C!NoRow]
        /\ job' = [k \in C!Actor |-> [job[k] EXCEPT !.alone = FALSE]]
    BY <1>7 DEF C!DeleteContacts
  <2>2. RowsKept'
    BY <1>0, <2>1, RowRemoved
  <2>3. ASSUME NEW k \in C!Actor PROVE job'[k] \in Work /\ Sure(job'[k], row')
    <3> DEFINE o == job[k]
               n == [o EXCEPT !.alone = FALSE]
    <3>1. o \in Work /\ job'[k] = n /\ Sure(o, row)
      BY <1>0, <2>1 DEF JobsKept
    <3> HIDE DEF o
    <3>2. n \in Work /\ n.at = o.at /\ n.alone = FALSE
          /\ (n.at \in Upserting => n.via = o.via /\ n.phone = o.phone)
      BY <3>1 DEF Upserting, Work, Begun, Enriching, Merging, Resting, Listing, Folding
    <3> HIDE DEF n
    <3>3. Sure(n, row')
      BY <3>1, <3>2 DEF Sure, Upserting, Lone
    <3> QED BY <3>1, <3>2, <3>3
  <2>4. JobsKept'
    BY <2>1, <2>3 DEF JobsKept
  <2> QED BY <2>2, <2>4
<1>8. CASE (\E i \in C!Id : C!RefersTo(i)) \/ C!LearnMapping \/ UNCHANGED C!vars
  <2>1. UNCHANGED <<row, made, job>>
    BY <1>8 DEF C!RefersTo, C!LearnMapping, C!vars
  <2> QED BY <1>0, <2>1, RowsRestHere, JobsRest
<1> QED BY <1>2, <1>3, <1>4, <1>5, <1>6, <1>7, <1>8

-----------------------------------------------------------------------------
\* Repointing leaves what pointed somewhere pointing somewhere.
LEMMA MoveKeeps ==
  ASSUME LinksKept, NEW d, NEW w \in C!Id, C!Move(d, w), UNCHANGED deleted
  PROVE  LinksKept' /\ C!NobodyLeftBehind
<1>0. /\ thread \in [C!Address -> Thread] /\ (~deleted => None \notin target) /\ None \notin C!Id
      /\ thread' = [a \in C!Address |-> IF thread[a].contact = d
                                        THEN [thread[a] EXCEPT !.contact = w] ELSE thread[a]]
      /\ target' = {IF t = d THEN w ELSE t : t \in target}
      /\ labelled' = IF d \in labelled THEN (labelled \ {d}) \cup {w} ELSE labelled
  BY NoneIs DEF LinksKept, C!Move
<1>1. ASSUME NEW a \in C!Address
      PROVE  /\ thread'[a] \in Thread
             /\ thread[a].contact # None => thread'[a].contact # None
  BY <1>0 DEF Thread
<1>2. thread' \in [C!Address -> Thread]
  BY <1>0, <1>1
<1>3. ~deleted => None \notin target'
  BY <1>0
<1>4. labelled # {} => labelled' # {}
  BY <1>0
<1> QED BY <1>1, <1>2, <1>3, <1>4 DEF LinksKept, C!NobodyLeftBehind

LEMMA LinksRest ==
  ASSUME LinksKept, UNCHANGED <<C!links, deleted>>
  PROVE  LinksKept' /\ C!NobodyLeftBehind
BY DEF LinksKept, C!links, C!NobodyLeftBehind

\* Nobody is left behind by any step, unless a contact was deleted.
LEMMA NobodyIsLeft ==
  ASSUME ContactInv, C!Next \/ UNCHANGED C!vars
  PROVE  LinksKept' /\ C!NobodyLeftBehind
<1>0. /\ LinksKept /\ JobsKept /\ thread \in [C!Address -> Thread] /\ (~deleted => None \notin target)
      /\ None \notin C!Id
  BY NoneIs DEF ContactInv, LinksKept
<1>1. ASSUME NEW k \in {"handler", "sync"}, C!Upsert(k) PROVE LinksKept' /\ C!NobodyLeftBehind
  <2>1. CASE C!FindContact(k) \/ C!EnrichContact(k) \/ C!FindKeep(k) \/ C!InsertContact(k)
    <3>1. UNCHANGED <<C!links, deleted>>
      BY <2>1 DEF C!FindContact, C!EnrichContact, C!FindKeep, C!InsertContact, C!world, C!links
    <3> QED BY <1>0, <3>1, LinksRest
  <2>2. CASE C!MergeContactRows(k)
    <3>1. /\ UNCHANGED deleted /\ job[k].at = "merge"
          /\ UNCHANGED C!links \/ C!Move(job[k].id, job[k].keep)
      BY <2>2 DEF C!MergeContactRows, C!world
    <3>2. job[k].keep \in C!Id
      BY <1>0, <3>1, WorkKinds DEF JobsKept, Merging
    <3> QED BY <1>0, <3>1, <3>2, LinksRest, MoveKeeps
  <2> QED BY <1>1, <2>1, <2>2 DEF C!Upsert
<1>2. CASE C!StoreMessage
  <2> DEFINE j == job["handler"]
             a == C!ThreadOf(j.via, j.phone # None)
             n == [exists |-> TRUE, pn |-> thread[a].pn \/ j.phone # None,
                   contact |-> IF j.id # None THEN j.id ELSE thread[a].contact]
  <2>1. /\ j \in Begun /\ UNCHANGED <<target, labelled, deleted>>
        /\ UNCHANGED thread \/ thread' = [thread EXCEPT ![a] = n]
    <3>1. /\ j.at = "thread" /\ UNCHANGED <<target, labelled, deleted>>
          /\ UNCHANGED thread \/ thread' = [thread EXCEPT ![a] = n]
      BY <1>2 DEF C!StoreMessage
    <3>2. j \in Work
      BY <1>0 DEF JobsKept
    <3> QED BY <3>1, <3>2, WorkKinds
  <2>2. a \in C!Address
    BY <2>1 DEF C!ThreadOf, Begun
  <2>3. n \in Thread /\ (thread[a].contact # None => n.contact # None)
    BY <1>0, <2>1, <2>2 DEF Thread, Begun
  <2> HIDE DEF n, a
  <2>4. thread' \in [C!Address -> Thread]
    BY <1>0, <2>1, <2>2, <2>3
  <2>5. \A m \in C!Address : thread[m].contact # None => thread'[m].contact # None
    BY <1>0, <2>1, <2>2, <2>3
  <2> QED BY <1>0, <2>1, <2>4, <2>5 DEF LinksKept, C!NobodyLeftBehind
<1>3. CASE C!LinkConversationsToContacts
  <2> DEFINE Holders(a) == {i \in C!Live : row[i].jid = a}
             Linked(a) == IF thread[a].exists /\ Holders(a) # {}
                          THEN [thread[a] EXCEPT !.contact = CHOOSE i \in Holders(a) : TRUE] ELSE thread[a]
  <2>1. /\ thread' = [a \in C!Address |-> Linked(a)] /\ UNCHANGED <<target, labelled, deleted>>
    BY <1>3 DEF C!LinkConversationsToContacts, C!world
  <2>2. ASSUME NEW a \in C!Address
        PROVE  Linked(a) \in Thread /\ (thread[a].contact # None => Linked(a).contact # None)
    <3>1. Holders(a) # {} => (CHOOSE i \in Holders(a) : TRUE) \in C!Id
      BY DEF C!Live
    <3> DEFINE c == CHOOSE i \in Holders(a) : TRUE
    <3> HIDE DEF c
    <3>2. Linked(a) = thread[a] \/ (c \in C!Id /\ Linked(a) = [thread[a] EXCEPT !.contact = c])
      BY <3>1 DEF c
    <3> HIDE DEF Linked
    <3> QED BY <1>0, <3>2 DEF Thread
  <2> HIDE DEF Linked
  <2> QED BY <1>0, <2>1, <2>2 DEF LinksKept, C!NobodyLeftBehind
<1>4. ASSUME NEW l \in C!Id, C!MergeContactInto(l) PROVE LinksKept' /\ C!NobodyLeftBehind
  <2>1. /\ UNCHANGED deleted /\ job["admin"].at = "fold"
        /\ UNCHANGED C!links \/ C!Move(l, job["admin"].winner)
    BY <1>4 DEF C!MergeContactInto, C!world
  <2>2. job["admin"].winner \in C!Id
    BY <1>0, <2>1, WorkKinds DEF JobsKept, Folding
  <2> QED BY <1>0, <2>1, <2>2, LinksRest, MoveKeeps
<1>5. ASSUME NEW i \in C!Id, C!DeleteContacts(i) PROVE LinksKept' /\ C!NobodyLeftBehind
  <2>1. /\ deleted' = TRUE
        /\ thread' = [a \in C!Address |-> IF thread[a].contact = i
                                          THEN [thread[a] EXCEPT !.contact = None] ELSE thread[a]]
    BY <1>5 DEF C!DeleteContacts, C!LetGo
  <2>2. thread' \in [C!Address -> Thread]
    BY <1>0, <2>1 DEF Thread
  <2> QED BY <2>1, <2>2 DEF LinksKept, C!NobodyLeftBehind
<1>6. ASSUME NEW i \in C!Id, C!RefersTo(i) PROVE LinksKept' /\ C!NobodyLeftBehind
  <2>1. /\ UNCHANGED <<thread, deleted>>
        /\ \/ target = {} /\ target' = {i} /\ UNCHANGED labelled
           \/ labelled' = labelled \cup {i} /\ UNCHANGED target
    BY <1>6 DEF C!RefersTo
  <2> QED BY <1>0, <2>1 DEF LinksKept, C!NobodyLeftBehind
<1>7. CASE \/ \E via \in C!Address :
                C!SyncDirectory(via) \/ \E fromMe \in BOOLEAN : C!HandleMessage(via, fromMe)
           \/ C!ImportContacts \/ C!ImportInserts \/ C!MergeDuplicateContacts \/ C!Normalise
           \/ C!LearnMapping \/ UNCHANGED C!vars
  <2>1. UNCHANGED <<C!links, deleted>>
    BY <1>7 DEF C!SyncDirectory, C!HandleMessage, C!ImportContacts, C!ImportInserts,
                C!MergeDuplicateContacts, C!Normalise, C!LearnMapping, C!vars, C!world, C!links
  <2> QED BY <1>0, <2>1, LinksRest
<1> QED BY <1>1, <1>2, <1>3, <1>4, <1>5, <1>6, <1>7 DEF C!Next

-----------------------------------------------------------------------------
LEMMA ContactInit == C!Init => ContactInv
<1> SUFFICES ASSUME C!Init PROVE ContactInv
  OBVIOUS
<1>1. PICK old \in {<<>>, <<"0N">>, <<"0N", "N">>, <<"N", "0N">>} :
        /\ made = IF old = <<>> THEN 0 ELSE IF old = <<"0N">> THEN 1 ELSE 2
        /\ row = [i \in C!Id |-> IF i > made THEN C!NoRow
                                 ELSE [jid |-> old[i], lid |-> FALSE, phone |-> old[i]]]
  BY DEF C!Init
<1>2. /\ \A i \in C!Id : i <= made => old[i] \in {"N", "0N"}
      /\ \A i, m \in C!Id : i <= made /\ m <= made /\ old[i] = old[m] => i = m
      /\ made \in Nat
  <2>1. CASE old = <<>>
    BY <1>1, <2>1, NoneIs
  <2>2. CASE old = <<"0N">>
    <3>1. made = 1 /\ old[1] = "0N"
      BY <1>1, <2>2
    <3>2. \A i \in C!Id : i <= made => i = 1
      BY <3>1, NoneIs
    <3> QED BY <3>1, <3>2
  <2>3. CASE old \in {<<"0N", "N">>, <<"N", "0N">>}
    <3>1. made = 2 /\ old[1] \in {"N", "0N"} /\ old[2] \in {"N", "0N"} /\ old[1] # old[2]
      BY <1>1, <2>3
    <3>2. \A i \in C!Id : i <= made => i = 1 \/ i = 2
      BY <3>1, NoneIs
    <3> QED BY <3>1, <3>2
  <2> QED BY <2>1, <2>2, <2>3
<1>3. ASSUME NEW i \in C!Id
      PROVE  /\ row[i] \in ContactRow
             /\ i > made => row[i] = C!NoRow
             /\ C!Lives(i) => i <= made /\ row[i].jid = old[i] /\ row[i].phone = old[i]
  <2>1. CASE i > made
    BY <1>1, <1>2, <2>1, NoneIs DEF ContactRow, C!NoRow, C!Lives
  <2>2. CASE i <= made
    <3> DEFINE o == old[i]
    <3>1. o \in {"N", "0N"} /\ ~(i > made)
      BY <1>2, <2>2
    <3>2. row[i] = [jid |-> o, lid |-> FALSE, phone |-> o]
      BY <1>1, <3>1
    <3> HIDE DEF o
    <3>3. row[i] \in ContactRow /\ row[i].jid = o /\ row[i].phone = o
      BY <3>1, <3>2 DEF ContactRow
    <3> QED BY <2>2, <3>1, <3>3 DEF o
  <2> QED BY <1>2, <2>1, <2>2
<1>4. RowsKept
  BY <1>1, <1>2, <1>3, NoneIs DEF RowsKept, RowTypes, OneEach, Addressed
<1>5. JobsKept
  <2>1. job = [k \in C!Actor |-> C!Idle]
    BY DEF C!Init
  <2>2. C!Idle \in Work /\ C!Idle.at \notin Upserting
    BY DEF C!Idle, Work, Resting, Upserting
  <2>3. Sure(C!Idle, row)
    BY <2>2, SureElsewhere
  <2> QED BY <2>1, <2>2, <2>3 DEF JobsKept
<1>6. LinksKept
  BY NoneIs DEF C!Init, LinksKept, Thread, C!NoThread
<1> QED BY <1>4, <1>5, <1>6 DEF ContactInv

LEMMA ContactNext ==
  ASSUME ContactInv, [C!Next]_(C!vars)
  PROVE  ContactInv'
<1>1. RowsKept' /\ JobsKept'
  BY UpsertKeeps, EventsKeep, OperatorKeeps DEF C!Next
<1>2. LinksKept'
  BY NobodyIsLeft
<1> QED BY <1>1, <1>2 DEF ContactInv

\* Nobody else takes a step of an upsert.
LEMMA OthersStay ==
  ASSUME JobsKept, NEW k \in {"handler", "sync"}, job[k].at \in Upserting, C!Next, ~C!Upsert(k)
  PROVE  job'[k].at \in Upserting
<1>1. k \in C!Actor /\ job[k] \in Work
  BY DEF JobsKept
<1>2. ASSUME NEW m \in C!Actor, m # k, NEW r, C!Goes(m, r) PROVE job'[k].at = job[k].at
  BY <1>1, <1>2 DEF C!Goes, Work, Begun, Enriching, Merging, Resting, Listing, Folding
<1>3. ASSUME NEW m \in {"handler", "sync"}, C!Upsert(m) PROVE job'[k].at = job[k].at
  <2>1. m # k /\ m \in C!Actor
    BY <1>3
  <2>2. \E r : C!Goes(m, r)
    BY <1>3 DEF C!Upsert, C!FindContact, C!EnrichContact, C!FindKeep, C!InsertContact,
                C!MergeContactRows, C!Returns
  <2> QED BY <1>2, <2>1, <2>2
<1>4. ASSUME NEW via \in C!Address, C!SyncDirectory(via) PROVE job'[k].at = job[k].at
  <2>1. job["sync"].at = "idle" /\ C!Goes("sync", C!Caller("link", via))
    BY <1>4 DEF C!SyncDirectory
  <2> QED BY <1>2, <2>1 DEF Upserting
<1>5. ASSUME NEW via \in C!Address, NEW fromMe \in BOOLEAN, C!HandleMessage(via, fromMe)
      PROVE  job'[k].at = job[k].at
  <2>1. job["handler"].at = "idle" /\ \E r : C!Goes("handler", r)
    BY <1>5 DEF C!HandleMessage
  <2> QED BY <1>2, <2>1 DEF Upserting
<1>6. CASE C!StoreMessage
  <2>1. job["handler"].at = "thread" /\ C!Goes("handler", C!Idle)
    BY <1>6 DEF C!StoreMessage
  <2> QED BY <1>2, <2>1 DEF Upserting
<1>7. CASE C!LinkConversationsToContacts
  <2>1. job["sync"].at = "link" /\ C!Goes("sync", C!Idle)
    BY <1>7 DEF C!LinkConversationsToContacts
  <2> QED BY <1>2, <2>1 DEF Upserting
<1>8. CASE C!ImportContacts \/ C!ImportInserts \/ C!MergeDuplicateContacts \/ C!Normalise
           \/ \E l \in C!Id : C!MergeContactInto(l)
  <2>1. UNCHANGED job \/ \E r : C!Goes("admin", r)
    BY <1>8 DEF C!ImportContacts, C!ImportInserts, C!MergeDuplicateContacts, C!Normalise,
                C!MergeContactInto
  <2> QED BY <1>2, <2>1
<1>9. ASSUME NEW i \in C!Id, C!DeleteContacts(i) PROVE job'[k].at = job[k].at
  BY <1>1, <1>9 DEF C!DeleteContacts, Work, Begun, Enriching, Merging, Resting, Listing, Folding
<1>10. ASSUME C!LearnMapping \/ \E i \in C!Id : C!RefersTo(i) PROVE job'[k].at = job[k].at
  BY <1>10 DEF C!LearnMapping, C!RefersTo
<1> QED BY <1>3, <1>4, <1>5, <1>6, <1>7, <1>8, <1>9, <1>10 DEF C!Next

LEMMA ContactSizes == ASSUME NEW X PROVE C!Cardinality(X) = Cardinality(X)
BY Zenon DEF C!Cardinality, Cardinality

\* One row at most, where no two are left.
LEMMA AtMostOne ==
  ASSUME NEW X, \A x, y \in X : x = y
  PROVE  C!Cardinality(X) <= 1
<1>1. CASE X = {}
  BY <1>1, ContactSizes, FS_EmptySet
<1>2. CASE X # {}
  <2>1. PICK x \in X : TRUE
    BY <1>2
  <2>2. X = {x}
    BY <2>1
  <2>3. C!Cardinality(X) = Cardinality({x})
    BY <2>2, ContactSizes, Zenon
  <2>4. Cardinality({x}) = 1
    BY FS_Singleton, Zenon
  <2> QED BY <2>3, <2>4
<1> QED BY <1>1, <1>2

\* An event that knows the number, undisturbed, leaves no row without it: the
\* row under the LID has taken it over.
LEMMA OneIsLeft ==
  ASSUME ContactInv, C!Next
  PROVE  C!OneRowLeft
<1> SUFFICES ASSUME NEW k \in {"handler", "sync"}, C!Resolves(k)
             PROVE  C!Cardinality(C!Numbered') <= 1
  BY DEF C!OneRowLeft
<1> DEFINE j == job[k]
<1>0. /\ RowsKept /\ JobsKept /\ k \in C!Actor /\ j \in Work /\ Sure(j, row) /\ Lone(j)
      /\ row \in [C!Id -> ContactRow] /\ OneEach /\ Addressed
      /\ j.at \in {"enrich", "insert", "keep"} /\ job'[k].at \in {"thread", "link"}
      /\ j.via = "L" /\ j.phone = "N" /\ None \notin {"N", "0N", "L"}
  BY NoneIs DEF ContactInv, JobsKept, RowsKept, RowTypes, C!Resolves, Lone
<1>1. C!Upsert(k)
  <2>1. j.at \in Upserting /\ job'[k].at \notin Upserting
    BY <1>0 DEF Upserting
  <2> QED BY <1>0, <2>1, OthersStay
<1>2. ASSUME NEW r, C!Goes(k, r) PROVE job'[k] = r
  BY <1>0, <1>2 DEF C!Goes
<1>3. \A m \in C!Id : row'[m] # C!NoRow => row'[m].phone # None
  <2>1. CASE C!EnrichContact(k)
    <3> DEFINE i == j.id
               n == C!Enriched(k, i)
    <3>1. /\ j \in Enriching /\ j.at = "enrich" /\ i \in C!Id
          /\ row[i] # C!NoRow /\ (row[i].jid = "L" \/ \A m \in C!Id : row[m].jid # "L")
      <4>1. j.at = "enrich"
        BY <2>1 DEF C!EnrichContact
      <4> QED BY <1>0, <4>1, WorkKinds DEF Enriching, Sure, Upserting
    <3>2. ~(n.phone # row[i].phone /\ C!WithPhone(j.phone) # {}) /\ row' = [row EXCEPT ![i] = n]
      <4>1. C!At(k, "keep").at = "keep"
        BY <3>1 DEF C!At, Enriching
      <4>2. ~(C!Lives(i) /\ n.phone # row[i].phone /\ C!WithPhone(j.phone) # {})
        <5> SUFFICES ASSUME C!Lives(i) /\ n.phone # row[i].phone /\ C!WithPhone(j.phone) # {}
                     PROVE  FALSE
          OBVIOUS
        <5>1. C!Goes(k, C!At(k, "keep"))
          BY <2>1 DEF C!EnrichContact
        <5> QED BY <1>0, <1>2, <4>1, <5>1
      <4> QED BY <2>1, <3>1, <4>2 DEF C!EnrichContact, C!Lives
    <3>3. n.phone # None
      BY <1>0, <3>1 DEF C!Enriched, ContactRow
    <3>4. ASSUME NEW m \in C!Id, m # i, row[m] # C!NoRow PROVE row[m].phone # None
      BY <1>0, <3>1, <3>4 DEF Addressed, OneEach, C!Lives
    <3> HIDE DEF n, i
    <3> QED BY <1>0, <3>1, <3>2, <3>3, <3>4
  <2>2. CASE C!InsertContact(k)
    <3> DEFINE new == [jid |-> j.via, lid |-> j.via = "L", phone |-> j.phone]
    <3>1. j.at = "insert" /\ (UNCHANGED row \/ row' = [row EXCEPT ![made + 1] = new])
      BY <2>2 DEF C!InsertContact, C!Insert
    <3>2. \A m \in C!Id : row[m] # C!NoRow => row[m].phone # None
      BY <1>0, <3>1 DEF Sure, Upserting, Addressed, C!Lives
    <3>3. new.phone # None
      BY <1>0
    <3> HIDE DEF new
    <3> QED BY <1>0, <3>1, <3>2, <3>3
  <2>3. CASE C!FindKeep(k)
    <3>1. j \in Enriching /\ j.at = "keep"
      <4>1. j.at = "keep"
        BY <2>3 DEF C!FindKeep
      <4> QED BY <1>0, <4>1, WorkKinds
    <3>2. C!WithPhone(j.phone) \ {j.id} # {}
      <4>1. PICK m \in C!Id : row[m].phone = "N"
        BY <1>0, <3>1 DEF Sure, Upserting
      <4>2. m # j.id /\ C!Lives(m)
        BY <1>0, <3>1, <4>1 DEF Sure, Upserting, C!Lives, C!NoRow
      <4> QED BY <1>0, <4>1, <4>2 DEF C!WithPhone, C!Live
    <3>3. PICK i \in C!WithPhone(j.phone) \ {j.id} : C!Goes(k, [C!At(k, "merge") EXCEPT !.keep = i])
      BY <2>3, <3>2 DEF C!FindKeep
    <3>4. [C!At(k, "merge") EXCEPT !.keep = i].at = "merge"
      BY <3>1 DEF C!At, Enriching
    <3> QED BY <1>0, <1>2, <3>3, <3>4
  <2>4. CASE C!FindContact(k) \/ C!MergeContactRows(k)
    BY <1>0, <2>4 DEF C!FindContact, C!MergeContactRows
  <2> QED BY <1>1, <2>1, <2>2, <2>3, <2>4 DEF C!Upsert
<1>4. OneEach'
  BY UpsertKeeps, <1>1 DEF RowsKept
<1>5. \A x, y \in C!Numbered' : x = y
  <2> SUFFICES ASSUME NEW x \in C!Numbered', NEW y \in C!Numbered' PROVE x = y
    OBVIOUS
  <2>1. /\ x \in C!Id /\ row'[x] # C!NoRow /\ row'[x].phone \in {"N", None}
        /\ y \in C!Id /\ row'[y] # C!NoRow /\ row'[y].phone \in {"N", None}
    BY DEF C!Numbered, C!Live, C!Lives, C!NoRow
  <2> QED BY <1>3, <1>4, <2>1 DEF OneEach, C!Lives, C!NoRow
<1> QED BY <1>5, AtMostOne

-----------------------------------------------------------------------------
(* The composition: a step is one of the component that part names, and      *)
(* keeps that component's invariant.                                         *)

RecordsInv ==
  /\ part = "hub" => HubInv
  /\ part = "org" => OrgInv
  /\ part = "labels" => LabelInv
  /\ part = "contacts" => ContactInv
  /\ part = "annotations" => A!AnnotationsInv
  /\ part = "series" => S!SeriesInv

LEMMA RecordsInit == Init => RecordsInv
<1>1. part = "hub" /\ H!Init => HubInv
  BY HubAssumption, HubInit
<1>2. part = "org" /\ O!Init => OrgInv
  BY OrgAssumption, OrgInit
<1>3. part = "annotations" /\ A!Init => A!AnnotationsInv
  BY AnnotationsAssumption, A!AnnotationsInit
<1>4. part = "series" /\ S!Init => S!SeriesInv
  BY S!SeriesInit
<1>5. part = "labels" /\ L!Init => LabelInv
  BY LabelInit
<1>6. part = "contacts" /\ C!Init => ContactInv
  BY ContactInit
<1> QED BY <1>1, <1>2, <1>3, <1>4, <1>5, <1>6 DEF Init, RecordsInv

\* A step of the whole is a step of the component it is of, or leaves that
\* component's variables alone.
LEMMA StepOfOne ==
  ASSUME [Next]_vars
  PROVE  /\ UNCHANGED part
         /\ part = "hub" => [H!Next]_(H!vars)
         /\ part = "org" => [O!Next]_(O!vars)
         /\ part = "labels" => [L!Next]_(L!vars)
         /\ part = "contacts" => [C!Next]_(C!vars)
         /\ part = "annotations" => [A!Next]_(A!vars)
         /\ part = "series" => [S!Next]_(S!vars)
<1>1. CASE Next
  BY <1>1 DEF Next, LabelsOnly, AnnotationsOnly, ContactsOnly, HubOnly, OrgOnly, MetricsOnly, SeriesOnly
<1>2. CASE UNCHANGED vars
  <2>1. UNCHANGED part /\ UNCHANGED H!vars /\ UNCHANGED O!vars /\ UNCHANGED A!vars /\ UNCHANGED S!vars
        /\ UNCHANGED L!vars /\ UNCHANGED C!vars
    BY <1>2 DEF vars, H!vars, H!hubState, O!vars, O!tables, A!vars, A!store, S!vars, L!vars, L!tables, L!ghosts,
                C!vars
  <2> QED BY <2>1
<1> QED BY <1>1, <1>2

LEMMA RecordsNext == RecordsInv /\ [Next]_vars => RecordsInv'
<1> SUFFICES ASSUME RecordsInv, [Next]_vars PROVE RecordsInv'
  OBVIOUS
<1>0. UNCHANGED part
  BY StepOfOne
<1>1. part = "hub" => HubInv'
  BY StepOfOne, HubAssumption, HubNext DEF RecordsInv
<1>2. part = "org" => OrgInv'
  BY StepOfOne, OrgAssumption, OrgNext DEF RecordsInv
<1>3. part = "annotations" => A!AnnotationsInv'
  BY StepOfOne, AnnotationsAssumption, A!AnnotationsStep DEF RecordsInv
<1>4. part = "series" => S!SeriesInv'
  BY StepOfOne, SeriesAssumption, S!SeriesStep DEF RecordsInv
<1>5. part = "labels" => LabelInv'
  BY StepOfOne, LabelNext DEF RecordsInv
<1>6. part = "contacts" => ContactInv'
  BY StepOfOne, ContactNext DEF RecordsInv
<1> QED BY <1>0, <1>1, <1>2, <1>3, <1>4, <1>5, <1>6 DEF RecordsInv

(* The composition keeps the invariant of each component that is proved about. *)
THEOREM RecordsInductive == Spec => []RecordsInv
BY RecordsInit, RecordsNext, PTL DEF Spec

(***************************************************************************)
(* Whoever is counted as looking at a conversation is registered, says so  *)
(* itself and looks at no other, whatever the pumps and a shutdown are in  *)
(* the middle of: setViewing, unregister and Close each change the hub's   *)
(* tables together under its lock.                                         *)
(***************************************************************************)
THEOREM HubViewingAgrees == Spec => []ViewingAgrees
<1>1. RecordsInv => ViewingAgrees
  BY DEF RecordsInv, HubInv, ViewingAgrees
<1> QED BY <1>1, RecordsInductive, PTL

(***************************************************************************)
(* Nothing is sent on a channel that shutdown has closed: trySend looks    *)
(* under the lock that shutdown takes, whatever list of clients it works   *)
(* off.                                                                    *)
(***************************************************************************)
THEOREM HubNoSendAfterClose == Spec => NoSendAfterClose
<1>1. RecordsInv /\ [Next]_vars => [part = "hub" => H!ClosedGetsNothing]_vars
  <2> SUFFICES ASSUME RecordsInv, [Next]_vars, part = "hub"
               PROVE  H!ClosedGetsNothing \/ UNCHANGED vars
    OBVIOUS
  <2>1. HubInv /\ [H!Next]_(H!vars)
    BY StepOfOne DEF RecordsInv
  <2>2. CASE Next
    <3>1. H!Next
      BY <2>2 DEF Next, LabelsOnly, AnnotationsOnly, ContactsOnly, HubOnly, OrgOnly, MetricsOnly, SeriesOnly
    <3> QED BY <2>1, <3>1, HubAssumption, HubQueuesKept
  <2> QED BY <2>2
<1> QED BY <1>1, RecordsInductive, PTL DEF Spec, NoSendAfterClose

(***************************************************************************)
(* However the requests of leaders and PICs overlap, die or come late, no  *)
(* application ever has two PICs, and only people whose role says so hold  *)
(* applications or have a PIC, unless a placement has landed on a role     *)
(* that changed since SetMemberAssignments read it, or under a person who  *)
(* is no PIC.                                                              *)
(***************************************************************************)
THEOREM OrgAgrees == Spec => []OrganisationAgrees
<1>1. RecordsInv => OrganisationAgrees
  BY DEF RecordsInv, OrgInv, OrganisationAgrees, O!OrganisationAgrees
<1> QED BY <1>1, RecordsInductive, PTL

(***************************************************************************)
(* However the phone's mutations are replayed, reordered and interleaved   *)
(* with the requests of the web and with crashes: a label is what was last *)
(* said of it, the history of a chat's labels adds up to the labels it has *)
(* but for what a deletion or a crash left out, and the reports' copy is   *)
(* current once every change has its entry (UpsertWALabel,                 *)
(* SetChatLabelByWAID, applyChatLabel, refreshLabelState).                 *)
(***************************************************************************)
THEOREM LabelsStayRight == Spec => []LabelsAgree
<1>1. RecordsInv => LabelsAgree
  BY DEF RecordsInv, LabelInv, LabelsAgree
<1> QED BY <1>1, RecordsInductive, PTL

(***************************************************************************)
(* Whatever a session's events, the directory sync and the operator do     *)
(* between each other's statements: merging two rows of a person leaves    *)
(* none of what points at them pointing nowhere, unless a contact was      *)
(* deleted, and an event that knows the number, undisturbed, leaves one    *)
(* row at most (mergeContactInto, merge_contact_rows, UpsertContact).      *)
(***************************************************************************)
THEOREM ContactsStayOne == Spec => OnePersonOneRow
<1>1. RecordsInv /\ [Next]_vars => [part = "contacts" => C!NobodyLeftBehind /\ C!OneRowLeft]_vars
  <2> SUFFICES ASSUME RecordsInv, [Next]_vars, part = "contacts"
               PROVE  (C!NobodyLeftBehind /\ C!OneRowLeft) \/ UNCHANGED vars
    OBVIOUS
  <2>1. ContactInv
    BY DEF RecordsInv
  <2>2. CASE Next
    <3>1. C!Next
      BY <2>2 DEF Next, LabelsOnly, AnnotationsOnly, ContactsOnly, HubOnly, OrgOnly, MetricsOnly, SeriesOnly
    <3> QED BY <2>1, <3>1, NobodyIsLeft, OneIsLeft
  <2> QED BY <2>2
<1> QED BY <1>1, RecordsInductive, PTL DEF Spec, OnePersonOneRow

(***************************************************************************)
(* A vote counts once, the reaction that came last shows, what was taken   *)
(* back stays empty, in whatever order updates arrive (ApplyPollVote,      *)
(* ApplyReaction, EditMessageContent).                                     *)
(***************************************************************************)
THEOREM AnnotationsStayRight == Spec => []AnnotationsAgree
<1>1. RecordsInv => AnnotationsAgree
  BY AnnotationsAssumption, A!CountsFollow, A!ReactionsFollow
     DEF RecordsInv, AnnotationsAgree, A!AnnotationsInv, A!MessageRow
<1> QED BY <1>1, RecordsInductive, PTL

(***************************************************************************)
(* An occurrence of a series has one successor at most                     *)
(* (CloneCampaignForNextRun).                                              *)
(***************************************************************************)
THEOREM SeriesKeepsOneSuccessor == Spec => []OneSuccessor
<1>1. RecordsInv => OneSuccessor
  BY DEF RecordsInv, S!SeriesInv, OneSuccessor
<1> QED BY <1>1, RecordsInductive, PTL
=============================================================================
