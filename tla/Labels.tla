------------------------------- MODULE Labels -------------------------------
(***************************************************************************)
(* The labels of one number: their definitions, the chats that carry them, *)
(* and the history kept of it, changed from the phone and from the web.    *)
(*                                                                         *)
(* The phone's changes arrive as app-state mutations, replayed freely and  *)
(* in any order; every change the web pushes comes back as one.  They are  *)
(* applied by one goroutine, several statements each, between the          *)
(* statements of the web's requests.  An association whose label or chat   *)
(* is unknown waits in memory.                                             *)
(***************************************************************************)
EXTENDS Integers, FiniteSets, FiniteSetsExt

CONSTANTS
  Lab,      \* the rows public.conversation_labels may come to hold
  Chat,     \* the chats of the number, one contact each
  Known,    \* the chats that have a conversation from the start
  Name,
  PhoneId,  \* the ids the phone gives its own labels
  First,    \* the first id NextWALabelID hands out
  Request,  \* web requests
  NoName,
  Budgets   \* bounds on what people do; a behaviour has one of them

LabelsAssumption ==
  /\ Known \subseteq Chat /\ NoName \notin Name
  /\ PhoneId \subseteq 1..(First - 1) /\ First \in Nat \ {0}
  /\ IsFiniteSet(Lab) /\ IsFiniteSet(Request)

VARIABLES
  rows,     \* public.conversation_labels
  assigned, \* public.conversation_label_assignments
  known,    \* the chats that have a conversation
  claimed,  \* public.whatsapp_label_events
  counted,  \* public.contact_label_events: assigned less removed, for each pair
  state,    \* public.contact_label_state: each contact's label_ids
  pending,  \* Session.pendingLabels: the chats waiting for each label id
  phone,    \* the label ids the phone holds: external
  net,      \* the mutations WhatsApp may deliver, or deliver again
  hand,     \* where the event goroutine is
  web,      \* where each request is
  now,      \* the time of the latest mutation
  word,     \* (history) what was last said of each row
  heard,    \* (history) the newest mutation that met each row
  erased,   \* (history) when the web deleted each row
  gap,      \* (history) pairs whose history lost an entry
  behind,   \* (history) contacts whose labels changed with no entry
  left      \* what is left of the bound

tables == <<rows, assigned, known, claimed, counted, state>>
ghosts == <<word, heard, erased, gap, behind>>
vars == <<tables, pending, phone, net, hand, web, now, ghosts, left>>

Idle == [k |-> "idle"]
NoRow == [wa |-> 0, bound |-> FALSE, name |-> NoName, deleted |-> TRUE, at |-> 0]
Ids == PhoneId \cup (First .. First + Cardinality(Lab))

Spend(b) == left[b] > 0 /\ left' = [left EXCEPT ![b] = @ - 1]

RowOf(w) == {l \in Lab : rows[l].wa = w}  \* at most one: uq_conversation_labels_wa
Free == {l \in Lab : rows[l] = NoRow}
Live(l) == rows[l] # NoRow /\ ~rows[l].deleted
Edit(w, n, d) == [k |-> "edit", w |-> w, name |-> n, deleted |-> d, at |-> now + 1]
Assoc(w, c, on) == [k |-> "assoc", w |-> w, chat |-> c, on |-> on, at |-> now + 1]
Mutate(e) == net' = net \cup {e} /\ now' = now + 1

(* What ListLabels and the chat show: the live labels assigned to it. *)
Current(r, a, c) == {l \in Lab : <<c, l>> \in a /\ r[l] # NoRow /\ ~r[l].deleted}
(* The contacts whose labels a step changes without an entry in the history *)
Slips(r, a) == behind' = behind \cup {c \in Chat : Current(r, a, c) # Current(rows, assigned, c)}

----------------------------------------------------------------------------
(* The phone: external *)

PhoneEdits ==
  /\ Spend("edits")
  /\ \E w \in PhoneId \cup phone, n \in Name : Mutate(Edit(w, n, FALSE)) /\ phone' = phone \cup {w}
  /\ UNCHANGED <<tables, pending, hand, web, ghosts>>

PhoneDeletes ==
  /\ Spend("edits")
  /\ \E w \in phone : Mutate(Edit(w, NoName, TRUE)) /\ phone' = phone \ {w}
  /\ UNCHANGED <<tables, pending, hand, web, ghosts>>

PhoneTags ==
  /\ Spend("tags")
  /\ \E w \in phone, c \in Chat, on \in BOOLEAN : Mutate(Assoc(w, c, on))
  /\ UNCHANGED <<tables, pending, phone, hand, web, ghosts>>

(* The first message of a chat, or the history, makes its conversation. *)
ChatAppears ==
  /\ \E c \in Chat \ known : known' = known \cup {c}
  /\ UNCHANGED <<rows, assigned, claimed, counted, state, pending, phone, net, hand, web, now,
                 ghosts, left>>

----------------------------------------------------------------------------
(* Phone to web: handleLabelEdit and handleLabelAssociation *)

(* Mutant: a replay is applied again. *)
Fresh_always(e) == TRUE

(* ClaimLabelEvent: the key holds the time, so a new edit is never a replay *)
Fresh(e) == e \notin claimed

ClaimLabelEvent(e) ==
  /\ hand = Idle /\ e \in net
  /\ Fresh(e)
  /\ claimed' = claimed \cup {e}
  /\ hand' = [k |-> e.k, e |-> e]
  /\ UNCHANGED <<rows, assigned, known, counted, state, pending, phone, net, web, now, ghosts, left>>

(* Mutant: the time is not compared. *)
Newer_any(l, e) == TRUE

(* wa_updated_at is null or <= the mutation's *)
Newer(l, e) == rows[l].at <= e.at

Said(l, e) ==
  IF e.at <= heard[l] THEN UNCHANGED <<word, heard>>
  ELSE /\ heard' = [heard EXCEPT ![l] = e.at]
       /\ word' = [word EXCEPT ![l] = [name |-> IF e.deleted THEN @.name ELSE e.name,
                                       deleted |-> e.deleted]]

(* UpsertWALabel of a deletion: nothing is kept of a label never heard of. *)
LabelDeleted(e) ==
  /\ UNCHANGED pending
  /\ IF \E l \in RowOf(e.w) : Newer(l, e)
     THEN \E l \in {l \in RowOf(e.w) : Newer(l, e)} :
            /\ rows' = [rows EXCEPT ![l].deleted = TRUE, ![l].at = e.at]
            /\ hand' = [k |-> "drop", l |-> l]
            /\ Said(l, e)
     ELSE /\ hand' = Idle /\ UNCHANGED rows
          /\ IF RowOf(e.w) = {} THEN UNCHANGED <<word, heard>>
             ELSE \A l \in RowOf(e.w) : Said(l, e)

(* UpsertWALabel of a definition; what waited for it is taken to be replayed. *)
LabelDefined(e) ==
  LET old == RowOf(e.w)
      drains == /\ hand' = [k |-> "drain", w |-> e.w, chats |-> pending[e.w]]
                /\ pending' = [pending EXCEPT ![e.w] = {}]
  IN  \/ /\ old = {}
         /\ \E l \in Free :
              /\ rows' = [rows EXCEPT ![l] = [wa |-> e.w, bound |-> TRUE, name |-> e.name,
                                              deleted |-> FALSE, at |-> e.at]]
              /\ Said(l, e)
         /\ drains
      \/ \E l \in old :
           /\ Said(l, e)
           /\ IF Newer(l, e)
              THEN /\ rows' = [rows EXCEPT ![l].name = e.name, ![l].deleted = FALSE, ![l].at = e.at]
                   /\ drains
              ELSE hand' = Idle /\ UNCHANGED <<rows, pending>>

UpsertWALabel ==
  /\ hand.k = "edit"
  /\ IF hand.e.deleted THEN LabelDeleted(hand.e) ELSE LabelDefined(hand.e)
  /\ Slips(rows', assigned)
  /\ UNCHANGED <<assigned, known, claimed, counted, state, phone, net, web, now, erased, gap, left>>

(* The assignments go in a statement of their own, with no entry. *)
DropAssignments(l) ==
  /\ assigned' = {p \in assigned : p[2] # l}
  /\ gap' = gap \cup {p \in assigned : p[2] = l}
  /\ Slips(rows, assigned')
  /\ UNCHANGED <<rows, known, claimed, counted, state, word, heard, erased>>

HandDrops ==
  /\ hand.k = "drop"
  /\ DropAssignments(hand.l)
  /\ hand' = Idle
  /\ UNCHANGED <<pending, phone, net, web, now, left>>

Found(w, c) == IF c \in known THEN {l \in RowOf(w) : Live(l)} ELSE {}

(* SetChatLabelByWAID finds both sides; parkPendingLabel keeps an addition  *)
(* that found neither, and a removal is let go.                             *)
ResolveAssociation ==
  /\ hand.k = "assoc"
  /\ LET e == hand.e IN
       IF Found(e.w, e.chat) = {}
       THEN /\ hand' = Idle
            /\ pending' = IF e.on THEN [pending EXCEPT ![e.w] = @ \cup {e.chat}] ELSE pending
       ELSE /\ UNCHANGED pending
            /\ \E l \in Found(e.w, e.chat) :
                 hand' = [k |-> "write", c |-> e.chat, l |-> l, on |-> e.on, w |-> e.w, chats |-> {}]
  /\ UNCHANGED <<tables, phone, net, web, now, ghosts, left>>

(* drainPendingLabels: a chat that is still unknown is not kept. *)
DrainPendingLabels ==
  /\ hand.k = "drain"
  /\ \/ hand.chats = {} /\ hand' = Idle
     \/ \E c \in hand.chats :
          LET rest == hand.chats \ {c} IN
          IF Found(hand.w, c) = {} THEN hand' = [hand EXCEPT !.chats = rest]
          ELSE \E l \in Found(hand.w, c) :
                 hand' = [k |-> "write", c |-> c, l |-> l, on |-> TRUE, w |-> hand.w, chats |-> rest]
  /\ UNCHANGED <<tables, pending, phone, net, web, now, ghosts, left>>

(* Mutant: an entry for every attempt. *)
Changes_always(c, l, on) == TRUE

(* RowsAffected: on conflict do nothing, and a delete that finds nothing *)
Changes(c, l, on) == (<<c, l>> \in assigned) # on

SetAssigned(c, l, on) ==
  /\ assigned' = IF on THEN assigned \cup {<<c, l>>} ELSE assigned \ {<<c, l>>}
  \* the entry that follows will tell; a row of a label deleted since tells nobody
  /\ UNCHANGED <<rows, known, claimed, counted, state, ghosts>>

AfterWrite == [k |-> "drain", w |-> hand.w, chats |-> hand.chats]

SetChatLabelByWAID ==
  /\ hand.k = "write"
  /\ SetAssigned(hand.c, hand.l, hand.on)
  /\ hand' = IF Changes(hand.c, hand.l, hand.on) THEN [hand EXCEPT !.k = "record"] ELSE AfterWrite
  /\ UNCHANGED <<pending, phone, net, web, now, left>>

(* Mutant: the row follows the entry and is not computed again. *)
RefreshLabelState_entry(c, l, on) == IF on THEN state[c] \cup {l} ELSE state[c]

(* refreshLabelState: the labels the contact has when the entry is written *)
RefreshLabelState(c, l, on) == Current(rows, assigned, c)

Change(on) == IF on THEN 1 ELSE -1

(* recordAssignmentChange, RecordLabelEvent: the entry and the state together *)
RecordLabelEvent(c, l, on) ==
  /\ counted' = [counted EXCEPT ![<<c, l>>] = @ + Change(on)]
  /\ state' = [state EXCEPT ![c] = RefreshLabelState(c, l, on)]
  /\ behind' = behind \ {c}
  /\ UNCHANGED <<rows, assigned, known, claimed, word, heard, erased, gap>>

HandRecords ==
  /\ hand.k = "record"
  /\ RecordLabelEvent(hand.c, hand.l, hand.on)
  /\ hand' = AfterWrite
  /\ UNCHANGED <<pending, phone, net, web, now, left>>

----------------------------------------------------------------------------
(* Web to phone *)

Goes(q, step) == web' = [web EXCEPT ![q] = step]
Push(l, then) == [k |-> "push", l |-> l, del |-> FALSE, then |-> then]
Ends == [k |-> "end"]

(* handleCreateLabel: a tag of the workspace, or a label of the number *)
CreateLabel(q) ==
  /\ web[q] = Idle /\ Spend("webs")
  /\ \E l \in Free, n \in Name, b \in BOOLEAN :
       /\ rows' = [rows EXCEPT ![l] = [wa |-> 0, bound |-> b, name |-> n, deleted |-> FALSE, at |-> 0]]
       /\ word' = [word EXCEPT ![l] = [name |-> n, deleted |-> FALSE]]
       /\ Goes(q, IF b THEN Push(l, Ends) ELSE Idle)
  /\ UNCHANGED <<assigned, known, claimed, counted, state, pending, phone, net, hand, now,
                 heard, erased, gap, behind>>

(* handleUpdateLabel: the name is changed here whether or not it is pushed *)
UpdateLabel(q) ==
  /\ web[q] = Idle /\ Spend("webs")
  /\ \E l \in Lab, n \in Name :
       /\ Live(l)
       /\ rows' = [rows EXCEPT ![l].name = n]
       /\ word' = [word EXCEPT ![l].name = n]
       /\ Goes(q, IF rows[l].bound THEN Push(l, Ends) ELSE Idle)
  /\ UNCHANGED <<assigned, known, claimed, counted, state, pending, phone, net, hand, now,
                 heard, erased, gap, behind>>

(* handleDeleteLabel: to the phone first, and here whatever it answers *)
RequestDelete(q) ==
  /\ web[q] = Idle /\ Spend("webs")
  /\ \E l \in Lab :
       /\ Live(l)
       /\ Goes(q, IF rows[l].bound THEN [Push(l, Ends) EXCEPT !.del = TRUE]
                  ELSE [k |-> "delete", l |-> l])
  /\ UNCHANGED <<tables, pending, phone, net, hand, now, ghosts>>

(* handleAssignLabel, handleUnassignLabel: applyChatLabel pushes, then stores *)
RequestTag(q) ==
  /\ web[q] = Idle /\ Spend("webs")
  /\ \E c \in known, l \in Lab, on \in BOOLEAN :
       /\ Live(l)
       /\ LET tag == [k |-> "tag", c |-> c, l |-> l, on |-> on] IN
          Goes(q, IF rows[l].wa = 0 THEN Push(l, tag) ELSE tag)
  /\ UNCHANGED <<tables, pending, phone, net, hand, now, ghosts>>

NextWALabelID == Max({First} \cup {rows[l].wa + 1 : l \in Lab})

Fails(q) == Goes(q, IF web[q].del THEN [k |-> "delete", l |-> web[q].l] ELSE Idle)

(* PushLabelDefinition up to the send: the id is picked, and kept nowhere *)
PushLabelDefinition(q) ==
  /\ web[q].k = "push"
  /\ LET p == web[q]
         r == rows[p.l] IN
       \/ Fails(q)                      \* offline, or the collection is being recovered
       \/ ~p.del /\ ~Live(p.l) /\ Goes(q, Idle)
       \/ p.del /\ r.wa = 0 /\ Fails(q) \* never existed on the phone
       \/ /\ Live(p.l) /\ (p.del => r.wa # 0)
          /\ Goes(q, [k |-> "define", l |-> p.l, del |-> p.del, then |-> p.then, name |-> r.name,
                      w |-> IF r.wa = 0 THEN NextWALabelID ELSE r.wa])
  /\ UNCHANGED <<tables, pending, phone, net, hand, now, ghosts, left>>

(* The send: refused, or landed, and then it will come back as a mutation *)
SendDefinition(q) ==
  /\ web[q].k = "define"
  /\ \/ Fails(q) /\ UNCHANGED <<net, now, phone>>
     \/ LET p == web[q] IN
          /\ Mutate(Edit(p.w, IF p.del THEN NoName ELSE p.name, p.del))
          /\ phone' = IF p.del THEN phone \ {p.w} ELSE phone \cup {p.w}
          /\ IF p.del THEN Fails(q) ELSE Goes(q, [p EXCEPT !.k = "adopt"])
  /\ UNCHANGED <<tables, pending, hand, ghosts, left>>

(* AdoptWALabelID: another row may have the id by then, and that is only logged *)
AdoptWALabelID(q) ==
  /\ web[q].k = "adopt"
  /\ LET p == web[q] IN
       /\ rows' = IF RowOf(p.w) \ {p.l} # {} THEN rows
                  ELSE [rows EXCEPT ![p.l].wa = p.w, ![p.l].bound = TRUE]
       /\ Goes(q, IF p.then = Ends THEN Idle
                  ELSE IF rows'[p.l].deleted \/ rows'[p.l].wa = 0 THEN Idle ELSE p.then)
  /\ UNCHANGED <<assigned, known, claimed, counted, state, pending, phone, net, hand, now, ghosts, left>>

(* PushChatLabel: one write for each address of the chat.  Refused, landed, *)
(* or landed under one address and refused under the other.                 *)
PushChatLabel(q) ==
  /\ web[q].k = "tag"
  /\ LET p == web[q] IN
       \/ Goes(q, Idle) /\ UNCHANGED <<net, now>>
       \/ /\ Mutate(Assoc(rows[p.l].wa, p.c, p.on))
          /\ Goes(q, [p EXCEPT !.k = "store"]) \/ Goes(q, Idle)
  /\ UNCHANGED <<tables, pending, phone, hand, ghosts, left>>

(* AssignLabel, UnassignLabel *)
AssignLabel(q) ==
  /\ web[q].k = "store"
  /\ LET p == web[q] IN
       IF (p.on /\ ~Live(p.l)) \/ ~Changes(p.c, p.l, p.on)
       THEN Goes(q, Idle) /\ UNCHANGED <<tables, ghosts>>
       ELSE SetAssigned(p.c, p.l, p.on) /\ Goes(q, [p EXCEPT !.k = "record"])
  /\ UNCHANGED <<pending, phone, net, hand, now, left>>

WebRecords(q) ==
  /\ web[q].k = "record"
  /\ RecordLabelEvent(web[q].c, web[q].l, web[q].on)
  /\ Goes(q, Idle)
  /\ UNCHANGED <<pending, phone, net, hand, now, left>>

(* DeleteLabel: the tombstone, and then the assignments *)
DeleteLabel(q) ==
  /\ web[q].k = "delete"
  /\ LET l == web[q].l IN
       IF Live(l)
       THEN /\ rows' = [rows EXCEPT ![l].deleted = TRUE]
            /\ word' = [word EXCEPT ![l].deleted = TRUE]
            /\ erased' = [erased EXCEPT ![l] = now]
            /\ Slips(rows', assigned)
            /\ Goes(q, [k |-> "drop", l |-> l])
       ELSE Goes(q, Idle) /\ UNCHANGED <<rows, word, erased, behind>>
  /\ UNCHANGED <<assigned, known, claimed, counted, state, pending, phone, net, hand, now,
                 heard, gap, left>>

WebDrops(q) ==
  /\ web[q].k = "drop"
  /\ DropAssignments(web[q].l)
  /\ Goes(q, Idle)
  /\ UNCHANGED <<pending, phone, net, hand, now, left>>

(* Everybody who has changed an assignment and not yet written the entry *)
Recording == {hand} \cup {web[q] : q \in Request}
Owes(s, c, l) == s.k = "record" /\ s.c = c /\ s.l = l
Owing(c, l, on) == {q \in Request : Owes(web[q], c, l) /\ web[q].on = on}

(* The process stops: what waits in memory is gone, and the claims are not. *)
Crash ==
  /\ Spend("crashes")
  /\ hand' = Idle /\ web' = [q \in Request |-> Idle]
  /\ pending' = [w \in Ids |-> {}]
  /\ gap' = gap \cup {<<s.c, s.l>> : s \in {s \in Recording : s.k = "record"}}
  /\ behind' = behind \cup {s.c : s \in {s \in Recording : s.k = "record"}}
  /\ UNCHANGED <<tables, phone, net, now, word, heard, erased>>

----------------------------------------------------------------------------

Init ==
  /\ rows = [l \in Lab |-> NoRow] /\ assigned = {} /\ known = Known /\ claimed = {}
  /\ counted = [p \in Chat \X Lab |-> 0] /\ state = [c \in Chat |-> {}]
  /\ pending = [w \in Ids |-> {}] /\ phone = {} /\ net = {}
  /\ hand = Idle /\ web = [q \in Request |-> Idle] /\ now = 0
  /\ word = [l \in Lab |-> [name |-> NoName, deleted |-> TRUE]]
  /\ heard = [l \in Lab |-> 0] /\ erased = [l \in Lab |-> 0]
  /\ gap = {} /\ behind = {}
  /\ left \in Budgets

Requests(q) ==
  \/ CreateLabel(q) \/ UpdateLabel(q) \/ RequestDelete(q) \/ RequestTag(q)
  \/ PushLabelDefinition(q) \/ SendDefinition(q) \/ AdoptWALabelID(q) \/ PushChatLabel(q)
  \/ AssignLabel(q) \/ WebRecords(q) \/ DeleteLabel(q) \/ WebDrops(q)

Next ==
  \/ PhoneEdits \/ PhoneDeletes \/ PhoneTags \/ ChatAppears
  \/ \E e \in net : ClaimLabelEvent(e)
  \/ UpsertWALabel \/ HandDrops \/ ResolveAssociation \/ DrainPendingLabels
  \/ SetChatLabelByWAID \/ HandRecords
  \/ \E q \in Request : Requests(q)
  \/ Crash

Spec == Init /\ [][Next]_vars

----------------------------------------------------------------------------
(***************************************************************************)
(* A label is what was last said of it: the newest definition from the     *)
(* phone that met its row, or a change made on the web since.  No replay,  *)
(* late mutation or echo puts back an older name or a deleted label.       *)
(***************************************************************************)
LastWordStands ==
  \A l \in Lab : rows[l] # NoRow =>
    rows[l].name = word[l].name /\ rows[l].deleted = word[l].deleted

(***************************************************************************)
(* The history of a chat's labels adds up to the labels it has, whoever    *)
(* changed them and however often the phone repeats itself: but for labels *)
(* that were deleted, and an entry lost to a crash.                        *)
(***************************************************************************)
HistoryAddsUp ==
  \A c \in Chat, l \in Lab : <<c, l>> \notin gap =>
    counted[<<c, l>>] + (IF Owes(hand, c, l) THEN Change(hand.on) ELSE 0)
        + Cardinality(Owing(c, l, TRUE)) - Cardinality(Owing(c, l, FALSE))
      = (IF <<c, l>> \in assigned THEN 1 ELSE 0)

(***************************************************************************)
(* The labels the reports count for a contact are those its chat has, once *)
(* every change to them has its entry.                                     *)
(***************************************************************************)
StateIsCurrent ==
  \A c \in Chat :
    c \notin behind /\ (\A s \in Recording, l \in Lab : ~Owes(s, c, l)) =>
      state[c] = Current(rows, assigned, c)

(***************************************************************************)
(* DeleteLabel keeps the row so that a late mutation with the old          *)
(* definition cannot resurrect the label: only a later one may.            *)
(***************************************************************************)
DeletedStaysDeleted ==
  \A l \in Lab : erased[l] > 0 /\ Live(l) => rows[l].at > erased[l]
=============================================================================
