-------------------------------- MODULE Chat --------------------------------
(***************************************************************************)
(* One conversation of the inbox: its stored messages, the counters kept   *)
(* beside them, and everybody who writes them.                             *)
(*                                                                         *)
(* Five kinds of process share the rows, with no lock but the statement:   *)
(*   - the session's event handler, which stores live messages and applies *)
(*     receipts, one event at a time but several statements per event;     *)
(*   - the app-state handler, which applies what the phone says of a chat; *)
(*   - the history goroutine, which stores a batch and then overwrites the *)
(*     counters with the phone's;                                          *)
(*   - the goroutine started by every connect, which reconciles counters;  *)
(*   - web requests: read, mark unread, archive, hide, clear, delete, send.*)
(* One SQL statement, and one transaction, is one step; row locks inside a *)
(* statement are taken to make it atomic.                                  *)
(***************************************************************************)
EXTENDS Integers, Sequences, FiniteSets

CONSTANTS
  Inbound,       \* messages of the customer
  Typed,         \* messages the operator types on the phone
  Sent,          \* messages the operator sends from the web
  Late,          \* the inbound messages the phone may get after this session
  Mentions,      \* the inbound messages that mention this number
  Group,         \* whether the conversation is a group
  Stamp,         \* WhatsApp's time of each message
  Local,         \* the machine's time, written before WhatsApp answers
  AutoMarkRead,  \* cfg.AutoMarkRead: reading here sends a read receipt
  Budget,        \* how often each thing outside the program happens
  NoMsg

Msg == Inbound \cup Typed \cup Sent

Kinds == {"all", "opens", "marks", "receipts", "revokes", "blobs", "drops", "crashes", "webs",
          "hides", "prunes"}

ChatAssumption ==
  /\ Mentions \subseteq Inbound /\ Late \subseteq Inbound
  /\ Stamp \in [Msg -> Nat] /\ Local \in [Sent -> Nat]
  /\ IsFiniteSet(Msg) /\ Inbound \cap Sent = {}
  /\ Group \in BOOLEAN /\ AutoMarkRead \in BOOLEAN
  /\ Budget \in [Kinds -> Nat]
  /\ NoMsg \notin Msg

VARIABLES
  row,       \* public.messages: each message's row, or NoRow
  conv,      \* its row of public.conversations
  claimed,   \* public.whatsapp_receipt_events
  phone,     \* the operator's phone: external
  wire,      \* messages and receipts on their way to the session
  patches,   \* app-state events on their way to the session
  online,    \* Session.IsConnected
  handler,   \* where handleEvent is in the event at the head of wire
  history,   \* where handleHistorySync is, and the blob it works on
  connect,   \* where the goroutine of onConnected is
  web,       \* the operator's web request
  sender,    \* the send in flight: handleSendMessage
  torn,      \* (history) counters known to be out of step, see Tear
  lost,      \* (history) inbound messages whose read receipt was lost
  shown,     \* (history) inbound messages an operator has been shown
  left       \* what is left of Budget

store == <<row, conv>>
procs == <<handler, history, connect, web, sender>>
ghosts == <<torn, lost, shown>>
vars == <<row, conv, claimed, phone, wire, patches, online, procs, ghosts, left>>

----------------------------------------------------------------------------
(* Rows *)

NoRow == [status |-> "none"]
Statuses == {"pending", "failed", "sent", "delivered", "read"}
Row == [status : Statuses, ts : Nat, read : BOOLEAN, seen : BOOLEAN,
        gone : {"no", "hidden", "revoked"}]
Conv == [there : BOOLEAN, unread : Nat, marked : BOOLEAN, archived : BOOLEAN,
         head : Msg \cup {NoMsg}, awaiting : BOOLEAN, mentions : 0..Cardinality(Mentions)]
NoConv == [there |-> FALSE, unread |-> 0, marked |-> FALSE, archived |-> FALSE,
           head |-> NoMsg, awaiting |-> FALSE, mentions |-> 0]

(* statusRank of AdvanceMessageStatus *)
Rank(s) == CASE s \in {"pending", "failed"} -> 0 [] s = "sent" -> 1
             [] s = "delivered" -> 2 [] s = "read" -> 3

Stored(r) == {m \in Msg : r[m] # NoRow}
Unread(r) == {m \in Stored(r) \cap Inbound : ~r[m].read}
Unseen(r) == {m \in Stored(r) \cap Mentions : ~r[m].seen /\ r[m].gone = "no"}
Newest(r, S) == IF S = {} THEN NoMsg
                ELSE CHOOSE m \in S : \A n \in S : r[n].ts <= r[m].ts

(* conversation_awaiting_reply: the customer spoke last and is unread.  All *)
(* the outbound messages of this model come from a human.                   *)
Awaits(r) ==
  LET last == Newest(r, {m \in Stored(r) : r[m].gone # "hidden"})
  IN  ~Group /\ last \in Inbound /\ ~r[last].read

(* refresh_conversation_head: nothing is cleared when no message is left. *)
RefreshHead(c, r) ==
  [c EXCEPT !.head = IF Stored(r) = {} THEN @ ELSE Newest(r, Stored(r)),
            !.awaiting = Awaits(r)]

(* Mutant: the trigger watches nothing. *)
AfterUpdate_ignored(c, r, s) == c

(* messages_refresh_awaiting, after an UPDATE changed a read or hidden stamp *)
AfterUpdate(c, r, s) ==
  IF \E m \in Stored(r) : r[m].read # s[m].read \/ r[m].gone # s[m].gone
  THEN [c EXCEPT !.awaiting = Awaits(s)] ELSE c

(* Mutant: the counter is cleared and the messages do not follow. *)
StampRead_none(r, S) == r

StampRead(r, S) == [m \in Msg |-> IF m \in S THEN [r[m] EXCEPT !.read = TRUE] ELSE r[m]]

(* Mutant: a status the column does not know. *)
LiveRow_misspelt(m) ==
  [status |-> "received", ts |-> IF m \in Sent THEN Local[m] ELSE Stamp[m],
   read |-> FALSE, seen |-> FALSE, gone |-> "no"]

(***************************************************************************)
(* The row a live message is stored as.  A message from the phone starts   *)
(* as sent, a customer's as delivered, the web's as pending at local time. *)
(***************************************************************************)
LiveRow(m) ==
  [status |-> IF m \in Inbound THEN "delivered" ELSE IF m \in Typed THEN "sent" ELSE "pending",
   ts |-> IF m \in Sent THEN Local[m] ELSE Stamp[m],
   read |-> FALSE, seen |-> FALSE, gone |-> "no"]

(* Mutant: history rows are not stamped read. *)
BackfillRow_unread(m) ==
  [status |-> IF m \in Inbound THEN "delivered" ELSE "sent", ts |-> Stamp[m],
   read |-> FALSE, seen |-> m \in Mentions, gone |-> "no"]

(* The row InsertMessagesBackfill writes: whatever history holds was read. *)
BackfillRow(m) ==
  [status |-> IF m \in Inbound THEN "delivered" ELSE "sent", ts |-> Stamp[m],
   read |-> m \in Inbound, seen |-> m \in Mentions, gone |-> "no"]

(* InsertMessage and the trigger bump_conversation_on_message *)
Insert(m) ==
  LET r == [row EXCEPT ![m] = LiveRow(m)] IN
  IF row[m] # NoRow THEN UNCHANGED store
  ELSE /\ row' = r
       /\ conv' = RefreshHead([conv EXCEPT !.there = TRUE,
                    !.unread = IF m \in Inbound THEN @ + 1 ELSE @], r)

(* MarkConversationRead, and SetConversationReadState when read: both stamp *)
(* every unread inbound message in the transaction that clears the counter. *)
ReadAll ==
  LET r == StampRead(row, Unread(row)) IN
  /\ row' = r
  /\ conv' = AfterUpdate([conv EXCEPT !.unread = 0, !.marked = FALSE], row, r)

SetConversationReadState(read) ==
  IF ~conv.there THEN UNCHANGED <<row, conv, torn>>
  ELSE IF read THEN ReadAll /\ torn' = torn \ {"unread"}
  ELSE /\ conv' = [conv EXCEPT !.marked = TRUE]
       /\ UNCHANGED <<row, torn>>

(* Tear: a step that leaves a counter out of step with the rows says so.   *)
(* Mend: the statement that counts it again.                               *)
Tear(S) == torn' = torn \cup S
Mend(S) == torn' = torn \ S

----------------------------------------------------------------------------
(* Outside: the phone, the customer and WhatsApp's servers *)

(* One of at most Budget[k] things of kind k, and Budget.all in all. *)
Spend(k) == /\ left[k] > 0 /\ left.all > 0
            /\ left' = [left EXCEPT ![k] = @ - 1, !.all = @ - 1]
Idle == [pc |-> "idle"]

(* WhatsApp has a message of the chat: it goes to this session and, at its  *)
(* own pace, to the phone.                                                  *)
ServerDelivers(m) ==
  /\ m \in (Inbound \cup Typed) \ phone.served
  /\ phone' = [phone EXCEPT !.served = @ \cup {m},
                 !.has = IF m \in Late THEN @ ELSE @ \cup {m}]
  /\ wire' = Append(wire, [k |-> "msg", m |-> m])
  /\ UNCHANGED <<store, claimed, patches, online, procs, ghosts, left>>

PhoneGets(m) ==
  /\ m \in phone.served \ phone.has
  /\ phone' = [phone EXCEPT !.has = @ \cup {m}]
  /\ UNCHANGED <<store, claimed, wire, patches, online, procs, ghosts, left>>

(* The operator opens the chat on the phone: a read-self receipt names what *)
(* the phone had not read, and an app-state event takes the mark off.       *)
PhoneReads ==
  LET new == (phone.has \cap Inbound) \ phone.read IN
  /\ Spend("opens")
  /\ new # {} \/ phone.marked
  /\ phone' = [phone EXCEPT !.read = @ \cup new, !.opened = @ \cup new, !.marked = FALSE]
  /\ shown' = shown \cup new
  /\ wire' = IF new = {} THEN wire
             ELSE Append(wire, [k |-> "readself", ids |-> new, at |-> left.opens])
  /\ patches' = IF phone.marked THEN Append(patches, [k |-> "mark", v |-> TRUE]) ELSE patches
  /\ UNCHANGED <<store, claimed, online, procs, torn, lost>>

PhoneMarks ==
  /\ Spend("marks")
  /\ \/ /\ ~phone.marked /\ phone' = [phone EXCEPT !.marked = TRUE]
        /\ patches' = Append(patches, [k |-> "mark", v |-> FALSE])
     \/ /\ phone' = [phone EXCEPT !.archived = ~@]
        /\ patches' = Append(patches, [k |-> "archive", v |-> ~phone.archived])
  /\ UNCHANGED <<store, claimed, wire, online, procs, ghosts>>

(* The customer's phone answers a message of ours. *)
CustomerReceipt(m) ==
  /\ m \in Sent \cap phone.served
  /\ Spend("receipts")
  /\ \E s \in {"delivered", "read"} :
       wire' = Append(wire, [k |-> "receipt", ids |-> {m}, s |-> s, at |-> left.receipts])
  /\ UNCHANGED <<store, claimed, phone, patches, online, procs, ghosts>>

(* The customer takes a message back. *)
CustomerRevokes(m) ==
  /\ m \in Inbound \cap phone.served
  /\ Spend("revokes")
  /\ wire' = Append(wire, [k |-> "revoke", m |-> m])
  /\ UNCHANGED <<store, claimed, phone, patches, online, procs, ghosts>>

(* The phone answers a history request with its view of the chat. *)
PhoneSendsHistory ==
  /\ history = Idle /\ online /\ phone.has # {}
  /\ Spend("blobs")
  /\ history' = [pc |-> "batch", msgs |-> phone.has, marked |-> phone.marked,
                 unread |-> Cardinality((phone.has \cap Inbound) \ phone.read),
                 archived |-> phone.archived]
  /\ UNCHANGED <<store, claimed, phone, wire, patches, online, handler, connect, web,
                 sender, ghosts>>

----------------------------------------------------------------------------
(* handleEvent: messages and receipts, in order *)

Ev == Head(wire)
Done == handler' = Idle /\ wire' = Tail(wire)
HandlerOnly == UNCHANGED <<phone, patches, online, history, connect, web, sender, lost, left>>
HandlerReady(k) == online /\ handler = Idle /\ wire # <<>> /\ Ev.k = k

(* persistMessage: UpsertConversation and InsertMessage; a duplicate stops   *)
(* there, a mention goes on to RefreshMentionCount.                          *)
PersistMessage ==
  /\ HandlerReady("msg")
  /\ Insert(Ev.m)
  /\ IF row[Ev.m] = NoRow /\ Ev.m \in Mentions
     THEN handler' = [pc |-> "recount"] /\ UNCHANGED wire
     ELSE Done
  /\ IF row[Ev.m] = NoRow THEN Mend({"head", "awaiting"}) ELSE UNCHANGED torn
  /\ UNCHANGED <<claimed, shown>> /\ HandlerOnly

RefreshMentionCount ==
  /\ handler.pc = "recount"
  /\ conv' = [conv EXCEPT !.mentions = Cardinality(Unseen(row))]
  /\ Mend({"mentions"}) /\ Done
  /\ UNCHANGED <<row, claimed, shown>> /\ HandlerOnly

(* handleMessageRevoke: nothing recounts the mentions. *)
HandleRevoke ==
  /\ HandlerReady("revoke")
  /\ LET m == Ev.m
         r == [row EXCEPT ![m].gone = IF @ = "hidden" THEN @ ELSE "revoked"]
     IN  IF row[m] = NoRow THEN UNCHANGED <<store, torn>>
         ELSE /\ row' = r /\ conv' = RefreshHead(conv, r)
              /\ torn' = (torn \ {"head", "awaiting"}) \cup
                         (IF m \in Unseen(row) THEN {"mentions"} ELSE {})
  /\ Done
  /\ UNCHANGED <<claimed, shown>> /\ HandlerOnly

(* handleReceipt: the claim is a statement of its own, before anything else. *)
ClaimReceipt ==
  /\ \/ HandlerReady("receipt") \/ HandlerReady("readself")
  /\ IF Ev \in claimed THEN Done
     ELSE handler' = [pc |-> "claimed"] /\ UNCHANGED wire
  /\ claimed' = claimed \cup {Ev}
  /\ UNCHANGED <<store, torn, shown>> /\ HandlerOnly

(* AdvanceMessageStatus: a rank only rises. *)
AdvanceMessageStatus ==
  /\ handler.pc = "claimed" /\ Ev.k = "receipt"
  /\ row' = [m \in Msg |->
       IF m \in Ev.ids /\ row[m] # NoRow /\ Rank(row[m].status) < Rank(Ev.s)
       THEN [row[m] EXCEPT !.status = Ev.s] ELSE row[m]]
  /\ Done
  /\ UNCHANGED <<conv, claimed, torn, shown>> /\ HandlerOnly

(***************************************************************************)
(* applyReadSelf.  MarkMessagesRead stamps the unread messages the receipt *)
(* names; when it stamped none the whole chat is marked read in their      *)
(* place, otherwise the counter is counted again, in a later statement.    *)
(***************************************************************************)
ReadSelfStamps ==
  /\ handler.pc = "claimed" /\ Ev.k = "readself"
  /\ LET hit == Ev.ids \cap Unread(row) IN
     IF hit = {} THEN handler' = [pc |-> "fallback"] /\ UNCHANGED <<store, torn>>
     ELSE /\ handler' = [pc |-> "stamped"]
          /\ row' = StampRead(row, hit)
          /\ conv' = AfterUpdate(conv, row, row')
          /\ Mend({"awaiting"})
  /\ UNCHANGED <<claimed, wire, shown>> /\ HandlerOnly

RecomputeUnread ==
  /\ handler.pc = "stamped"
  /\ conv' = [conv EXCEPT !.unread = Cardinality(Unread(row))]
  /\ Mend({"unread"}) /\ Done
  /\ UNCHANGED <<row, claimed, shown>> /\ HandlerOnly

ReadSelfFallback ==
  /\ handler.pc = "fallback"
  /\ SetConversationReadState(TRUE) /\ Done
  /\ UNCHANGED <<claimed, shown>> /\ HandlerOnly

(* handleMarkChatAsRead and handleChatFlag: one statement each. *)
ApplyPatch ==
  /\ online /\ patches # <<>>
  /\ LET p == Head(patches) IN
     IF p.k = "mark" THEN SetConversationReadState(p.v)
     ELSE /\ conv' = IF conv.there THEN [conv EXCEPT !.archived = p.v] ELSE conv
          /\ UNCHANGED <<row, torn>>
  /\ patches' = Tail(patches)
  /\ UNCHANGED <<claimed, phone, wire, online, procs, lost, shown, left>>

----------------------------------------------------------------------------
(* handleHistorySync, for this conversation *)

HistoryOnly == UNCHANGED <<claimed, phone, wire, patches, online, handler, connect, web,
                           sender, lost, shown, left>>

(* UpsertConversation and InsertMessagesBackfill: one transaction, no bump *)
HistoryBatch ==
  /\ history.pc = "batch"
  /\ LET new == {m \in history.msgs : row[m] = NoRow} IN
     /\ row' = [m \in Msg |-> IF m \in new THEN BackfillRow(m) ELSE row[m]]
     /\ history' = [history EXCEPT !.pc = IF new = {} THEN "state" ELSE "head"]
     /\ conv' = [conv EXCEPT !.there = TRUE]
  /\ UNCHANGED torn /\ HistoryOnly

HistoryHead ==
  /\ history.pc = "head"
  /\ conv' = RefreshHead(conv, row)
  /\ history' = [history EXCEPT !.pc = "state"]
  /\ Mend({"head", "awaiting"})
  /\ UNCHANGED row /\ HistoryOnly

(* ApplyWAConversationState: the phone's numbers as they were in the blob *)
HistoryState ==
  /\ history.pc = "state"
  /\ conv' = IF ~conv.there THEN conv ELSE
       [conv EXCEPT !.unread = history.unread, !.marked = history.marked,
                    !.archived = history.archived]
  /\ history' = Idle
  /\ Tear({"unread"})
  /\ UNCHANGED row /\ HistoryOnly

----------------------------------------------------------------------------
(* Connection: the goroutine of onConnected, disconnects and restarts *)

(* reconcileReadState: the mentions exactly, the unread counter only down. *)
ConnectMentions ==
  /\ connect = "mentions"
  /\ conv' = [conv EXCEPT !.mentions = Cardinality(Unseen(row))]
  /\ connect' = "unread" /\ Mend({"mentions"})
  /\ UNCHANGED <<row, claimed, phone, wire, patches, online, handler, history, web,
                 sender, lost, shown, left>>

ConnectUnread ==
  /\ connect = "unread"
  /\ LET n == Cardinality(Unread(row)) IN
     IF ~conv.marked /\ n < conv.unread
     THEN conv' = [conv EXCEPT !.unread = n] /\ Mend({"unread"})
     ELSE UNCHANGED <<conv, torn>>
  /\ connect' = "idle"
  /\ UNCHANGED <<row, claimed, phone, wire, patches, online, handler, history, web,
                 sender, lost, shown, left>>

Connect ==
  /\ ~online /\ online' = TRUE /\ connect' = "mentions"
  /\ UNCHANGED <<store, claimed, phone, wire, patches, handler, history, web, sender,
                 ghosts, left>>

(* What a process that stops between two statements leaves behind *)
Cut == (IF handler.pc = "recount" \/ web.pc = "recount" THEN {"mentions"} ELSE {})
       \cup (IF handler.pc = "stamped" THEN {"unread"} ELSE {})
       \cup (IF history.pc = "head" THEN {"head", "awaiting"} ELSE {})

(***************************************************************************)
(* The socket drops, or the process stops.  WhatsApp keeps messages for    *)
(* the next connection but not every receipt.  A restart also ends every   *)
(* handler and request where it stands; the event in hand comes again.     *)
(***************************************************************************)
Receipt(e) == e.k \in {"receipt", "readself"}
DropReceipts ==
  \E keep \in {DOMAIN wire, {i \in DOMAIN wire : ~Receipt(wire[i])}} :
  \E pick \in [1..Cardinality(keep) -> keep] :
    /\ \A i, j \in DOMAIN pick : i < j => pick[i] < pick[j]
    /\ wire' = [i \in DOMAIN pick |-> wire[pick[i]]]
    /\ lost' = lost \cup UNION {wire[i].ids : i \in {j \in DOMAIN wire \ keep : wire[j].k = "readself"}}

Disconnect ==
  /\ online /\ handler = Idle
  /\ Spend("drops")
  /\ online' = FALSE /\ DropReceipts
  /\ UNCHANGED <<store, claimed, phone, patches, procs, torn, shown>>

Crash ==
  /\ Spend("crashes")
  /\ online' = FALSE
  /\ handler' = Idle /\ history' = Idle /\ connect' = "idle" /\ web' = Idle /\ sender' = Idle
  /\ Tear(Cut)
  /\ lost' = lost \cup (IF handler.pc \in {"claimed", "fallback"} /\ Ev.k = "readself"
                        THEN Ev.ids ELSE {})
  /\ UNCHANGED <<store, claimed, phone, wire, patches, shown>>

----------------------------------------------------------------------------
(* Web requests *)

WebOnly == UNCHANGED <<claimed, wire, online, handler, history, connect, sender, lost>>
At(pc) == web.pc = pc
Goto(pc) == web' = [pc |-> pc]
Ends == web' = Idle

(* One request at a time, each on a conversation that is there (else 404). *)
WebStarts ==
  /\ At("idle") /\ conv.there /\ Spend("webs")
  /\ \E pc \in {"read", "pushUnread", "archive", "clear", "delete"} : Goto(pc)
  /\ UNCHANGED <<store, phone, patches, torn, shown>> /\ WebOnly

(* handleMarkConversationRead *)
WebMarkRead ==
  /\ At("read")
  /\ ReadAll /\ Goto("seen") /\ Mend({"unread"})
  /\ shown' = shown \cup (Stored(row) \cap Inbound)
  /\ UNCHANGED <<phone, patches, left>> /\ WebOnly

(* MarkMentionsSeen: hidden and revoked messages are stamped too. *)
WebMentionsSeen ==
  /\ At("seen")
  /\ LET hit == {m \in Stored(row) \cap Mentions : ~row[m].seen} IN
     /\ row' = [m \in Msg |-> IF m \in hit THEN [row[m] EXCEPT !.seen = TRUE] ELSE row[m]]
     /\ Goto(IF hit = {} THEN "receipt" ELSE "recount")
  /\ UNCHANGED <<conv, phone, patches, torn, shown, left>> /\ WebOnly

WebMentionCount ==
  /\ At("recount")
  /\ conv' = [conv EXCEPT !.mentions = Cardinality(Unseen(row))]
  /\ Mend({"mentions"}) /\ Goto("receipt")
  /\ UNCHANGED <<row, phone, patches, shown, left>> /\ WebOnly

(* SendReadReceipt names the newest inbound rows as they are now. *)
WebReadReceipt ==
  /\ At("receipt")
  /\ phone' = IF online /\ AutoMarkRead
              THEN [phone EXCEPT !.read = @ \cup (Stored(row) \cap Inbound \cap phone.has)]
              ELSE phone
  /\ Goto("pushRead")
  /\ UNCHANGED <<store, patches, torn, shown, left>> /\ WebOnly

(* SetChatReadState: the phone applies the patch and it comes back as an event. *)
WebPushReadState ==
  /\ At("pushRead") \/ At("pushUnread")
  /\ LET read == At("pushRead") IN
     \/ /\ online
        /\ phone' = [phone EXCEPT !.marked = ~read,
                       !.read = IF read THEN phone.has \cap Inbound ELSE @]
        /\ patches' = Append(patches, [k |-> "mark", v |-> read])
        /\ IF read THEN Ends ELSE Goto("mark")
     \/ UNCHANGED <<phone, patches>> /\ Ends   \* offline, or refused: 409 for unread
  /\ UNCHANGED <<store, torn, shown, left>> /\ WebOnly

(* SetMarkedUnread, once the phone has taken it *)
WebMarkUnread ==
  /\ At("mark")
  /\ conv' = IF conv.there THEN [conv EXCEPT !.marked = TRUE] ELSE conv
  /\ Ends
  /\ UNCHANGED <<row, phone, patches, torn, shown, left>> /\ WebOnly

(* SetChatArchived: pushed if it can be, stored either way. *)
WebArchive ==
  /\ At("archive")
  /\ \/ /\ online /\ phone' = [phone EXCEPT !.archived = ~conv.archived]
        /\ patches' = Append(patches, [k |-> "archive", v |-> ~conv.archived])
     \/ UNCHANGED <<phone, patches>>
  /\ web' = [pc |-> "flag", v |-> ~conv.archived]
  /\ UNCHANGED <<store, torn, shown, left>> /\ WebOnly

WebArchiveStored ==
  /\ At("flag")
  /\ conv' = IF conv.there THEN [conv EXCEPT !.archived = web.v] ELSE conv
  /\ Ends
  /\ UNCHANGED <<row, phone, patches, torn, shown, left>> /\ WebOnly

(* ClearConversationMessages: the head and the unread counter go, the        *)
(* waiting badge and the mention counter stay as they were.                  *)
WebClear ==
  /\ At("clear")
  /\ row' = [m \in Msg |-> NoRow]
  /\ conv' = [conv EXCEPT !.head = NoMsg, !.unread = 0, !.marked = FALSE]
  /\ torn' = (torn \ {"unread", "head"}) \cup {"awaiting", "mentions"}
  /\ Ends
  /\ UNCHANGED <<phone, patches, shown, left>> /\ WebOnly

(* DeleteConversation: the next message starts a new row. *)
WebDelete ==
  /\ At("delete")
  /\ row' = [m \in Msg |-> NoRow] /\ conv' = NoConv /\ torn' = {}
  /\ Ends
  /\ UNCHANGED <<phone, patches, shown, left>> /\ WebOnly

(* HideMessage and the RefreshConversationHead after it *)
WebHide ==
  /\ At("idle") /\ Spend("hides")
  /\ \E m \in Stored(row) :
       LET r == [row EXCEPT ![m].gone = "hidden"] IN
       /\ row' = r /\ conv' = RefreshHead(conv, r)
       /\ torn' = (torn \ {"head", "awaiting"}) \cup
                  (IF m \in Unseen(row) THEN {"mentions"} ELSE {})
  /\ UNCHANGED <<phone, patches, web, shown>> /\ WebOnly

(* SyncAccount with Prune: rows before the window go, no counter follows. *)
Prune ==
  /\ Spend("prunes")
  /\ \E cut \in {Stamp[m] : m \in Msg} :
       LET old == {m \in Stored(row) : row[m].ts < cut} IN
       /\ old # {}
       /\ row' = [m \in Msg |-> IF m \in old THEN NoRow ELSE row[m]]
       /\ conv' = [conv EXCEPT !.head = IF @ \in old THEN NoMsg ELSE @]
       /\ Tear({"unread", "mentions", "awaiting"})
  /\ UNCHANGED <<claimed, phone, wire, patches, online, procs, lost, shown>>

----------------------------------------------------------------------------
(* SendText *)

SenderOnly == UNCHANGED <<claimed, wire, patches, online, handler, history, connect, web,
                          lost, left>>

(* The row is stored before anything is sent. *)
SendStores(m) ==
  /\ Spend("webs")
  /\ sender = Idle /\ online /\ conv.there /\ row[m] = NoRow /\ m \notin phone.served
  /\ Insert(m)
  /\ sender' = [pc |-> IF AutoMarkRead /\ (conv.unread > 0 \/ conv.marked)
                       THEN "greet" ELSE "send", m |-> m]
  /\ Mend({"head", "awaiting"})
  /\ UNCHANGED <<claimed, phone, wire, patches, online, handler, history, connect, web,
                 lost, shown>>

(* readBeforeReplying: a receipt, then the chat is read here. *)
SendReadsFirst ==
  /\ sender.pc = "greet"
  /\ sender' = [sender EXCEPT !.pc = "send"]
  /\ IF ~online \/ ~conv.there THEN UNCHANGED <<store, phone, torn, shown>>
     ELSE /\ ReadAll /\ Mend({"unread"})
          /\ phone' = [phone EXCEPT !.read = @ \cup (Stored(row) \cap Inbound \cap phone.has)]
          /\ shown' = shown \cup (Stored(row) \cap Inbound)
  /\ SenderOnly

(* client.SendMessage: it may go out and the answer be lost. *)
SendGoesOut ==
  /\ sender.pc = "send"
  /\ \E out \in {"sent", "unanswered", "failed"} :
       /\ sender' = [pc |-> "outcome", m |-> sender.m,
                     s |-> IF out = "sent" THEN "sent" ELSE "failed"]
       /\ out # "failed" => online
       /\ phone' = IF out = "failed" THEN phone ELSE [phone EXCEPT !.served = @ \cup {sender.m}]
  /\ UNCHANGED <<store, torn, shown>> /\ SenderOnly

(* SetMessageOutcome: the status is written over whatever the row holds. *)
SendOutcome ==
  /\ sender.pc = "outcome"
  /\ LET m == sender.m
         x == [row[m] EXCEPT !.status = sender.s, !.ts = IF sender.s = "sent" THEN Stamp[m] ELSE @]
         r == [row EXCEPT ![m] = x]
     IN  IF row[m] = NoRow THEN UNCHANGED <<store, torn>>
         ELSE row' = r /\ conv' = RefreshHead(conv, r) /\ Mend({"head", "awaiting"})
  /\ sender' = Idle
  /\ UNCHANGED <<phone, shown>> /\ SenderOnly

----------------------------------------------------------------------------

Init ==
  /\ row = [m \in Msg |-> NoRow] /\ conv = NoConv /\ claimed = {}
  /\ phone = [served |-> {}, has |-> {}, read |-> {}, opened |-> {}, marked |-> FALSE, archived |-> FALSE]
  /\ wire = <<>> /\ patches = <<>> /\ online = TRUE
  /\ handler = Idle /\ history = Idle /\ connect = "idle" /\ web = Idle /\ sender = Idle
  /\ torn = {} /\ lost = {} /\ shown = {} /\ left = Budget

Handler == \/ PersistMessage \/ RefreshMentionCount \/ HandleRevoke \/ ClaimReceipt
           \/ AdvanceMessageStatus \/ ReadSelfStamps \/ RecomputeUnread \/ ReadSelfFallback
History == HistoryBatch \/ HistoryHead \/ HistoryState
Reconcile == ConnectMentions \/ ConnectUnread
Web == \/ WebMarkRead \/ WebMentionsSeen \/ WebMentionCount \/ WebReadReceipt
       \/ WebPushReadState \/ WebMarkUnread \/ WebArchive \/ WebArchiveStored
       \/ WebClear \/ WebDelete
Sender == SendReadsFirst \/ SendGoesOut \/ SendOutcome
Outside == \/ \E m \in Msg : ServerDelivers(m) \/ PhoneGets(m) \/ CustomerReceipt(m) \/ CustomerRevokes(m)
           \/ PhoneReads \/ PhoneMarks \/ PhoneSendsHistory \/ Disconnect \/ Crash

Next == \/ Handler \/ ApplyPatch \/ History \/ Reconcile \/ Connect \/ Outside
        \/ WebStarts \/ Web \/ WebHide \/ Prune \/ Sender
        \/ \E m \in Sent : SendStores(m)

(* The session's goroutines and every started request go on; WhatsApp      *)
(* reconnects by itself.  Nobody has to read, send or click anything.      *)
Fairness == /\ WF_vars(Handler) /\ WF_vars(ApplyPatch) /\ WF_vars(History)
            /\ WF_vars(Reconcile) /\ WF_vars(Connect) /\ WF_vars(Web) /\ WF_vars(Sender)

Spec == Init /\ [][Next]_vars /\ Fairness

----------------------------------------------------------------------------
(* Properties *)

Wheres == {"idle", "recount", "claimed", "stamped", "fallback"}

(* The shape of the state. *)
TypeOK ==
  /\ row \in [Msg -> Row \cup {NoRow}]
  /\ conv \in Conv
  /\ handler.pc \in Wheres /\ online \in BOOLEAN
  /\ connect \in {"idle", "mentions", "unread"}
  /\ torn \subseteq {"unread", "mentions", "head", "awaiting"}

(***************************************************************************)
(* The unread badge and the mention badge are what the stored rows say,    *)
(* through every interleaving of live messages, receipts, backfill and web *)
(* requests, but for the steps the code itself leaves torn: the phone's    *)
(* own number from history, pruned rows, and a restart half way.           *)
(***************************************************************************)
CountersAgree ==
  /\ "unread" \in torn \/ handler.pc = "stamped" \/ conv.unread = Cardinality(Unread(row))
  /\ \/ "mentions" \in torn \/ handler.pc = "recount" \/ web.pc = "recount"
     \/ conv.mentions = Cardinality(Unseen(row))

(***************************************************************************)
(* The list shows the newest stored message as the conversation's head,    *)
(* and the waiting badge exactly when the customer spoke last and is       *)
(* unread, whichever order local time, WhatsApp's time, backfill and live  *)
(* messages wrote the rows in.                                             *)
(***************************************************************************)
HeadAgrees ==
  history.pc # "head" =>
    /\ "head" \in torn \/ conv.head = Newest(row, Stored(row))
    /\ "awaiting" \in torn \/ conv.awaiting = Awaits(row)

ReadOnPhone(m) == m \in phone.opened /\ row[m] # NoRow
ReadHere(m) == row[m] = NoRow \/ m \in lost \/ row[m].read

(***************************************************************************)
(* What the operator read on the phone is read here in the end, unless the *)
(* receipt was lost with the connection or in a restart.                   *)
(***************************************************************************)
PhoneReadsArrive == \A m \in Inbound : ReadOnPhone(m) ~> ReadHere(m)

(***************************************************************************)
(* A read-self receipt for stored messages reads those and no others: it   *)
(* "covers specific messages, and anything newer that it did not name must *)
(* stay unread" (events.go:842), the fallback being for when "none of      *)
(* those ids are stored" (events.go:830).                                  *)
(***************************************************************************)
ReceiptReadsWhatItNames ==
  [][ (handler.pc \in {"claimed", "fallback"} /\ Ev.k = "readself" /\ handler' # handler
        /\ Ev.ids \subseteq Stored(row))
      => \A m \in Inbound \ Ev.ids : row[m] # NoRow => row'[m] = row[m] ]_vars

=============================================================================
