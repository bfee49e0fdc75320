----------------------------- MODULE Chat_proofs -----------------------------
(***************************************************************************)
(* The counters and the head of a conversation are those of its stored     *)
(* messages, for every set of messages, every order of WhatsApp's and the  *)
(* machine's times, and however often anything outside happens.            *)
(***************************************************************************)
EXTENDS Chat, FiniteSetTheorems, SequenceTheorems, TLAPS

Event ==
  [k : {"msg", "revoke"}, m : Msg]
  \cup [k : {"receipt"}, ids : SUBSET Msg, s : {"delivered", "read"}, at : Nat]
  \cup [k : {"readself"}, ids : SUBSET Msg, at : Nat]
Patch == [k : {"mark", "archive"}, v : BOOLEAN]
Blob == [pc : {"batch", "head", "state"}, msgs : SUBSET Msg, marked : BOOLEAN, unread : Nat,
         archived : BOOLEAN]
Sending == [pc : {"greet", "send"}, m : Sent]
           \cup [pc : {"outcome"}, m : Sent, s : {"sent", "failed"}]
Phone == [served : SUBSET Msg, has : SUBSET Msg, read : SUBSET Msg, opened : SUBSET Msg,
          marked : BOOLEAN, archived : BOOLEAN]

RowsOK == row \in [Msg -> Row \cup {NoRow}]
TornOK == torn \subseteq {"unread", "mentions", "head", "awaiting"}

(* Where the processes are, and what is on its way to them. *)
Shape ==
  /\ phone \in Phone /\ wire \in Seq(Event) /\ patches \in Seq(Patch) /\ left \in [Kinds -> Nat]
  /\ online \in BOOLEAN /\ connect \in {"idle", "mentions", "unread"} /\ TornOK
  /\ handler.pc \in Wheres /\ (handler.pc # "idle" => wire # <<>>)
  /\ history = Idle \/ history \in Blob
  /\ web.pc = "flag" => web.v \in BOOLEAN
  /\ sender = Idle \/ sender \in Sending

(* The head of the conversation is a message that is there, torn or not:   *)
(* what refresh_conversation_head relies on when nothing is left.          *)
HeadStored == conv.head = NoMsg \/ conv.head \in Stored(row)

UnreadAgrees ==
  "unread" \in torn \/ handler.pc = "stamped" \/ conv.unread = Cardinality(Unread(row))
MentionsAgree ==
  \/ "mentions" \in torn \/ handler.pc = "recount" \/ web.pc = "recount"
  \/ conv.mentions = Cardinality(Unseen(row))
HeadIsNewest ==
  history.pc = "head" \/ "head" \in torn \/ conv.head = Newest(row, Stored(row))
AwaitingAgrees ==
  history.pc = "head" \/ "awaiting" \in torn \/ conv.awaiting = Awaits(row)

Kept == HeadStored /\ UnreadAgrees /\ MentionsAgree /\ HeadIsNewest /\ AwaitingAgrees

ChatInv == RowsOK /\ conv \in Conv /\ Shape /\ Kept

----------------------------------------------------------------------------
(* The operators *)

(* A nonempty set of messages has one that nothing in it is newer than: by *)
(* induction on finite sets, as a least counterexample.                    *)
LEMMA HasNewest ==
  ASSUME ChatAssumption, NEW S \in SUBSET Msg, S # {}, NEW r, \A m \in S : r[m].ts \in Nat
  PROVE  /\ Newest(r, S) \in S
         /\ \A n \in S : r[n].ts <= r[Newest(r, S)].ts
<1> DEFINE Top(U, m) == m \in U /\ \A n \in U : r[n].ts <= r[m].ts
           Bad == {U \in FiniteSubsetsOf(S) : U # {} /\ ~\E m \in U : Top(U, m)}
<1>1. IsFiniteSet(S)
  BY FS_Subset DEF ChatAssumption
<1>2. Bad = {}
  <2> SUFFICES ASSUME Bad # {} PROVE FALSE
    OBVIOUS
  <2>1. PICK U \in Bad : \A V \in Bad : <<V, U>> \notin StrictSubsetOrdering(S)
    <3>1. Bad \subseteq FiniteSubsetsOf(S)
      OBVIOUS
    <3> QED BY <3>1, FS_StrictSubsetOrderingWellFounded, WFMin
  <2>2. U \in SUBSET S /\ IsFiniteSet(U) /\ U # {} /\ ~\E m \in U : Top(U, m)
    BY DEF FiniteSubsetsOf
  <2>3. PICK x \in U : TRUE
    BY <2>2
  <2>4. U \ {x} # {}
    <3> SUFFICES ASSUME U = {x} PROVE FALSE
      BY <2>3
    <3>1. Top(U, x)
      BY <2>2
    <3> QED BY <2>2, <3>1
  <2>5. U \ {x} \notin Bad
    <3>1. <<U \ {x}, U>> \in StrictSubsetOrdering(S)
      BY <2>2, <2>3 DEF StrictSubsetOrdering
    <3> QED BY <2>1, <3>1
  <2>6. U \ {x} \in FiniteSubsetsOf(S)
    BY <2>2, FS_RemoveElement DEF FiniteSubsetsOf
  <2>7. PICK m \in U \ {x} : Top(U \ {x}, m)
    BY <2>4, <2>5, <2>6
  <2>8. Top(U, m) \/ Top(U, x)
    <3>1. \A n \in U : r[n].ts \in Nat
      BY <2>2
    <3>2. CASE r[x].ts <= r[m].ts
      BY <2>7, <3>1, <3>2
    <3>3. CASE r[m].ts <= r[x].ts
      BY <2>3, <2>7, <3>1, <3>3
    <3> QED BY <2>3, <2>7, <3>1, <3>2, <3>3
  <2> QED BY <2>2, <2>3, <2>7, <2>8
<1>3. \E m \in S : \A n \in S : r[n].ts <= r[m].ts
  <2>1. S \in FiniteSubsetsOf(S)
    BY <1>1 DEF FiniteSubsetsOf
  <2> QED BY <1>2, <2>1
<1> QED BY <1>3 DEF Newest

(* The newest message depends on the times of the rows alone. *)
LEMMA NewestSame ==
  ASSUME NEW S, NEW r, NEW s, \A m \in S : s[m].ts = r[m].ts
  PROVE  Newest(s, S) = Newest(r, S)
<1>1. CASE S = {}
  BY <1>1 DEF Newest
<1>2. CASE S # {}
  <2>1. (CHOOSE m \in S : \A n \in S : s[n].ts <= s[m].ts)
          = (CHOOSE m \in S : \A n \in S : r[n].ts <= r[m].ts)
    BY SMT
  <2>2. Newest(s, S) = CHOOSE m \in S : \A n \in S : s[n].ts <= s[m].ts
    BY <1>2, Zenon DEF Newest
  <2>3. Newest(r, S) = CHOOSE m \in S : \A n \in S : r[n].ts <= r[m].ts
    BY <1>2, Zenon DEF Newest
  <2> QED BY <2>1, <2>2, <2>3, Zenon
<1> QED BY <1>1, <1>2

(* What is older than all that stays may go. *)
LEMMA NewestKept ==
  ASSUME NEW S, NEW T \in SUBSET S, T # {}, NEW r, \A m \in S : r[m].ts \in Nat,
         \A m \in S \ T, n \in T : r[m].ts < r[n].ts
  PROVE  Newest(r, T) = Newest(r, S)
<1>1. \A m : (m \in S /\ \A n \in S : r[n].ts <= r[m].ts)
               <=> (m \in T /\ \A n \in T : r[n].ts <= r[m].ts)
  <2> SUFFICES ASSUME NEW m
               PROVE  (m \in S /\ \A n \in S : r[n].ts <= r[m].ts)
                        <=> (m \in T /\ \A n \in T : r[n].ts <= r[m].ts)
    OBVIOUS
  <2>1. PICK t \in T : TRUE
    OBVIOUS
  <2>2. ASSUME m \in S, \A n \in S : r[n].ts <= r[m].ts PROVE m \in T
    <3>1. r[t].ts <= r[m].ts /\ r[t].ts \in Nat /\ r[m].ts \in Nat
      BY <2>1, <2>2
    <3> QED BY <2>1, <2>2, <3>1
  <2>3. ASSUME m \in T, \A n \in T : r[n].ts <= r[m].ts, NEW n \in S PROVE r[n].ts <= r[m].ts
    <3>1. r[n].ts \in Nat /\ r[m].ts \in Nat
      BY <2>3
    <3> QED BY <2>3, <3>1
  <2> QED BY <2>2, <2>3
<1>2. (CHOOSE m \in T : \A n \in T : r[n].ts <= r[m].ts)
        = (CHOOSE m \in S : \A n \in S : r[n].ts <= r[m].ts)
  BY <1>1, SMT
<1>3. S # {}
  OBVIOUS
<1>4. Newest(r, T) = CHOOSE m \in T : \A n \in T : r[n].ts <= r[m].ts
  BY Zenon DEF Newest
<1>5. Newest(r, S) = CHOOSE m \in S : \A n \in S : r[n].ts <= r[m].ts
  BY <1>3, Zenon DEF Newest
<1> QED BY <1>2, <1>4, <1>5, Zenon

(* The waiting badge depends on the times and on the read and hidden stamps. *)
LEMMA AwaitsSame ==
  ASSUME NEW r, NEW s, Stored(s) = Stored(r),
         \A m \in Stored(r) : s[m].ts = r[m].ts /\ s[m].read = r[m].read
                              /\ (s[m].gone = "hidden" <=> r[m].gone = "hidden"),
         ChatAssumption, \A m \in Stored(r) : r[m].ts \in Nat
  PROVE  Awaits(s) = Awaits(r)
<1> DEFINE S == {m \in Stored(r) : r[m].gone # "hidden"}
<1>1. {m \in Stored(s) : s[m].gone # "hidden"} = S
  OBVIOUS
<1>2. Newest(s, S) = Newest(r, S)
  BY NewestSame
<1>3. CASE S = {}
  <2>1. Newest(r, S) = NoMsg /\ NoMsg \notin Inbound
    BY <1>3 DEF Newest, ChatAssumption, Msg
  <2> QED BY <1>1, <1>2, <2>1 DEF Awaits
<1>4. CASE S # {}
  <2>1. S \in SUBSET Msg /\ \A m \in S : r[m].ts \in Nat
    BY DEF Stored
  <2>2. Newest(r, S) \in S
    BY <1>4, <2>1, HasNewest
  <2> HIDE DEF S
  <2>3. s[Newest(r, S)].read = r[Newest(r, S)].read
    BY <2>2 DEF S
  <2> QED BY <1>1, <1>2, <2>3 DEF Awaits, S
<1> QED BY <1>3, <1>4

Rows == [Msg -> Row \cup {NoRow}]

LEMMA StoredRows ==
  ASSUME NEW r \in Rows
  PROVE  /\ Stored(r) \subseteq Msg
         /\ \A m \in Stored(r) : r[m] \in Row /\ r[m].ts \in Nat
  BY DEF Rows, Stored, Row

LEMMA NotNoRow == \A x \in Row : x # NoRow
  BY DEF Row, NoRow, Statuses

LEMMA Counts ==
  ASSUME ChatAssumption, NEW r
  PROVE  /\ IsFiniteSet(Unread(r)) /\ Cardinality(Unread(r)) \in Nat
         /\ Cardinality(Unseen(r)) \in 0..Cardinality(Mentions)
<1>1. Unread(r) \in SUBSET Msg /\ Mentions \in SUBSET Msg /\ Unseen(r) \in SUBSET Mentions
  BY DEF Unread, Unseen, Stored, ChatAssumption, Msg
<1>2. IsFiniteSet(Unread(r)) /\ IsFiniteSet(Mentions)
  BY <1>1, FS_Subset DEF ChatAssumption
<1>3. IsFiniteSet(Unseen(r)) /\ Cardinality(Unseen(r)) <= Cardinality(Mentions)
  BY <1>1, <1>2, FS_Subset
<1> QED BY <1>2, <1>3, FS_CardinalityType

(* refresh_conversation_head, field by field *)
LEMMA Refreshed ==
  ASSUME ChatAssumption, NEW c \in Conv, NEW r \in Rows
  PROVE  LET d == RefreshHead(c, r) IN
         /\ d \in Conv
         /\ d.there = c.there /\ d.unread = c.unread /\ d.marked = c.marked
         /\ d.archived = c.archived /\ d.mentions = c.mentions
         /\ d.awaiting = Awaits(r)
         /\ d.head = IF Stored(r) = {} THEN c.head ELSE Newest(r, Stored(r))
<1>1. Awaits(r) \in BOOLEAN
  BY DEF Awaits
<1>2. (IF Stored(r) = {} THEN c.head ELSE Newest(r, Stored(r))) \in Msg \cup {NoMsg}
  <2>1. CASE Stored(r) = {}
    BY <2>1 DEF Conv
  <2>2. CASE Stored(r) # {}
    BY <2>2, HasNewest, StoredRows
  <2> QED BY <2>1, <2>2
<1> QED BY <1>1, <1>2 DEF RefreshHead, Conv

(* The trigger on the read and hidden stamps *)
LEMMA Updated ==
  ASSUME ChatAssumption, NEW c \in Conv, NEW r \in Rows, NEW s \in Rows, Stored(s) = Stored(r),
         \A m \in Stored(r) : s[m].ts = r[m].ts
  PROVE  LET d == AfterUpdate(c, r, s) IN
         /\ d \in Conv
         /\ d.there = c.there /\ d.unread = c.unread /\ d.marked = c.marked
         /\ d.archived = c.archived /\ d.mentions = c.mentions /\ d.head = c.head
         /\ d.awaiting = Awaits(s) \/ (d.awaiting = c.awaiting /\ Awaits(s) = Awaits(r))
<1>1. CASE \E m \in Stored(r) : r[m].read # s[m].read \/ r[m].gone # s[m].gone
  <2>1. Awaits(s) \in BOOLEAN
    BY DEF Awaits
  <2>2. AfterUpdate(c, r, s) = [c EXCEPT !.awaiting = Awaits(s)]
    BY <1>1 DEF AfterUpdate
  <2> QED BY <2>1, <2>2 DEF Conv
<1>2. CASE ~\E m \in Stored(r) : r[m].read # s[m].read \/ r[m].gone # s[m].gone
  <2>1. Awaits(s) = Awaits(r)
    BY <1>2, AwaitsSame, StoredRows
  <2>2. AfterUpdate(c, r, s) = c
    BY <1>2 DEF AfterUpdate
  <2> QED BY <2>1, <2>2
<1> QED BY <1>1, <1>2

LEMMA Stamped ==
  ASSUME NEW r \in Rows, NEW S \in SUBSET Unread(r)
  PROVE  LET s == StampRead(r, S) IN
         /\ s \in Rows /\ Stored(s) = Stored(r)
         /\ Unread(s) = Unread(r) \ S /\ Unseen(s) = Unseen(r)
         /\ \A m \in Stored(r) : s[m].ts = r[m].ts
<1> DEFINE s == StampRead(r, S)
<1>1. S \subseteq Stored(r)
  BY DEF Unread
<1>2. \A m \in S : /\ [r[m] EXCEPT !.read = TRUE] \in Row
                   /\ [r[m] EXCEPT !.read = TRUE].read = TRUE
                   /\ [r[m] EXCEPT !.read = TRUE].ts = r[m].ts
                   /\ [r[m] EXCEPT !.read = TRUE].seen = r[m].seen
                   /\ [r[m] EXCEPT !.read = TRUE].gone = r[m].gone
  BY <1>1, StoredRows DEF Row
<1>3. s \in [Msg -> Row \cup {NoRow}]
  BY <1>2 DEF Rows, StampRead
<1>4. \A m \in Msg : s[m] = IF m \in S THEN [r[m] EXCEPT !.read = TRUE] ELSE r[m]
  BY DEF StampRead
<1>5. Stored(s) = Stored(r)
  BY <1>1, <1>2, <1>4, NotNoRow DEF Stored
<1> HIDE DEF s
<1>6. /\ \A m \in Stored(r) : m \in Msg /\ s[m].ts = r[m].ts /\ s[m].seen = r[m].seen
                              /\ s[m].gone = r[m].gone
      /\ \A m \in Stored(r) : s[m].read <=> (m \in S \/ r[m].read)
  BY <1>2, <1>4 DEF Stored
<1>7. Unread(s) = Unread(r) \ S /\ Unseen(s) = Unseen(r)
  BY <1>1, <1>5, <1>6 DEF Unread, Unseen
<1> QED BY <1>3, <1>5, <1>6, <1>7 DEF s, Rows

(* How the rows may change without a counter noticing: what the counters   *)
(* are counted from stays, and so does what they say.                      *)
LEMMA KeptAlike ==
  ASSUME Kept, conv'.unread = conv.unread, conv'.mentions = conv.mentions,
         conv'.head = conv.head, conv'.awaiting = conv.awaiting,
         Stored(row') = Stored(row), Unread(row') = Unread(row), Unseen(row') = Unseen(row),
         Newest(row', Stored(row')) = Newest(row, Stored(row)), Awaits(row') = Awaits(row),
         torn' = torn,
         handler.pc = "stamped" => handler'.pc = "stamped",
         handler.pc = "recount" => handler'.pc = "recount",
         web.pc = "recount" => web'.pc = "recount",
         history.pc = "head" => history'.pc = "head"
  PROVE  Kept'
  BY DEF Kept, HeadStored, UnreadAgrees, MentionsAgree, HeadIsNewest, AwaitingAgrees

LEMMA KeptQuiet ==
  ASSUME Kept, UNCHANGED <<row, conv, torn>>,
         handler.pc = "stamped" => handler'.pc = "stamped",
         handler.pc = "recount" => handler'.pc = "recount",
         web.pc = "recount" => web'.pc = "recount",
         history.pc = "head" => history'.pc = "head"
  PROVE  Kept'
  BY KeptAlike

(* InsertMessage of a message that is not there *)
LEMMA Inserts ==
  ASSUME ChatAssumption, RowsOK, conv \in Conv, NEW m \in Msg, row[m] = NoRow, Insert(m)
  PROVE  /\ RowsOK' /\ conv' \in Conv
         /\ Stored(row') # {}
         /\ conv'.head = Newest(row', Stored(row')) /\ conv'.head \in Stored(row')
         /\ conv'.awaiting = Awaits(row')
         /\ conv.unread = Cardinality(Unread(row)) => conv'.unread = Cardinality(Unread(row'))
         /\ conv'.mentions = conv.mentions
         /\ m \notin Mentions => Unseen(row') = Unseen(row)
<1> DEFINE r == [row EXCEPT ![m] = LiveRow(m)]
           c == [conv EXCEPT !.there = TRUE,
                             !.unread = IF m \in Inbound THEN conv.unread + 1 ELSE conv.unread]
<1>1. row' = r /\ conv' = RefreshHead(c, r)
  BY DEF Insert
<1>2. LiveRow(m) \in Row /\ LiveRow(m).read = FALSE /\ LiveRow(m).seen = FALSE
  BY DEF LiveRow, Row, Statuses, ChatAssumption
<1>3. r \in Rows /\ row \in Rows
  BY <1>2 DEF RowsOK, Rows
<1>4. c \in Conv /\ c.head = conv.head /\ c.mentions = conv.mentions
      /\ c.unread = IF m \in Inbound THEN conv.unread + 1 ELSE conv.unread
  <2>1. (IF m \in Inbound THEN conv.unread + 1 ELSE conv.unread) \in Nat
    BY DEF Conv
  <2> QED BY <2>1 DEF Conv
<1>5. r[m] = LiveRow(m) /\ \A n \in Msg \ {m} : r[n] = row[n]
  BY DEF RowsOK
<1>6. /\ Stored(r) = Stored(row) \cup {m}
      /\ Unread(r) = IF m \in Inbound THEN Unread(row) \cup {m} ELSE Unread(row)
      /\ m \notin Unread(row)
      /\ m \notin Mentions => Unseen(r) = Unseen(row)
  <2> HIDE DEF r
  <2>1. Stored(r) = Stored(row) \cup {m} /\ m \notin Stored(row)
    BY <1>2, <1>5, NotNoRow DEF Stored
  <2>2. /\ Unread(r) = IF m \in Inbound THEN Unread(row) \cup {m} ELSE Unread(row)
        /\ m \notin Unread(row)
    BY <1>2, <1>5, <2>1 DEF Unread, Stored
  <2>3. m \notin Mentions => Unseen(r) = Unseen(row)
    BY <1>5, <2>1 DEF Unseen, Stored
  <2> QED BY <2>1, <2>2, <2>3
<1>7. m \in Inbound => Cardinality(Unread(r)) = Cardinality(Unread(row)) + 1
  <2> HIDE DEF r
  <2> SUFFICES ASSUME m \in Inbound PROVE Cardinality(Unread(r)) = Cardinality(Unread(row)) + 1
    OBVIOUS
  <2>1. IsFiniteSet(Unread(row))
    BY Counts
  <2> QED BY <1>6, <2>1, FS_AddElement
<1> HIDE DEF r, c
<1>8. Newest(r, Stored(r)) \in Stored(r)
  BY <1>3, <1>6, StoredRows, HasNewest
<1>9. /\ conv' \in Conv /\ conv'.head = Newest(r, Stored(r)) /\ conv'.awaiting = Awaits(r)
      /\ conv'.unread = c.unread /\ conv'.mentions = c.mentions
  BY <1>1, <1>3, <1>4, <1>6, Refreshed
<1> QED BY <1>1, <1>3, <1>4, <1>6, <1>7, <1>8, <1>9 DEF RowsOK, Rows

(* MarkConversationRead: no unread message is left, and the counter is 0. *)
LEMMA ReadsAll ==
  ASSUME ChatAssumption, RowsOK, conv \in Conv, ReadAll
  PROVE  /\ RowsOK' /\ conv' \in Conv
         /\ conv'.unread = 0 /\ Cardinality(Unread(row')) = 0
         /\ conv'.mentions = conv.mentions /\ Unseen(row') = Unseen(row)
         /\ Stored(row') = Stored(row)
         /\ conv'.head = conv.head /\ Newest(row', Stored(row')) = Newest(row, Stored(row))
         /\ conv'.awaiting = Awaits(row')
              \/ (conv'.awaiting = conv.awaiting /\ Awaits(row') = Awaits(row))
<1> DEFINE r == StampRead(row, Unread(row))
           c == [conv EXCEPT !.unread = 0, !.marked = FALSE]
<1>1. row' = r /\ conv' = AfterUpdate(c, row, r)
  BY DEF ReadAll
<1>2. c \in Conv /\ c.unread = 0 /\ c.mentions = conv.mentions /\ c.head = conv.head
      /\ c.awaiting = conv.awaiting
  BY DEF Conv
<1>3. row \in Rows
  BY DEF RowsOK, Rows
<1>4. /\ r \in Rows /\ Stored(r) = Stored(row) /\ Unread(r) = {} /\ Unseen(r) = Unseen(row)
      /\ \A m \in Stored(row) : r[m].ts = row[m].ts
  <2>1. Unread(row) \in SUBSET Unread(row)
    OBVIOUS
  <2> QED BY <1>3, <2>1, Stamped
<1> HIDE DEF r, c
<1>5. Newest(r, Stored(r)) = Newest(row, Stored(row))
  BY <1>4, NewestSame
<1>6. LET d == AfterUpdate(c, row, r) IN
      /\ d \in Conv /\ d.unread = 0 /\ d.mentions = conv.mentions /\ d.head = conv.head
      /\ d.awaiting = Awaits(r) \/ (d.awaiting = conv.awaiting /\ Awaits(r) = Awaits(row))
  BY <1>2, <1>3, <1>4, Updated
<1> QED BY <1>1, <1>4, <1>5, <1>6, FS_EmptySet DEF Rows, RowsOK

LEMMA ReadsAllKeeps ==
  ASSUME ChatAssumption, RowsOK, conv \in Conv, Kept, ReadAll, torn' = torn \ {"unread"},
         handler.pc = "recount" => handler'.pc = "recount",
         web.pc = "recount" => web'.pc = "recount",
         history.pc = "head" => history'.pc = "head"
  PROVE  RowsOK' /\ conv' \in Conv /\ Kept'
<1>1. HeadStored' /\ UnreadAgrees'
  BY ReadsAll DEF Kept, HeadStored, UnreadAgrees
<1>2. MentionsAgree' /\ HeadIsNewest' /\ AwaitingAgrees'
  BY ReadsAll DEF Kept, MentionsAgree, HeadIsNewest, AwaitingAgrees
<1> QED BY <1>1, <1>2, ReadsAll DEF Kept

(* SetConversationReadState; when marked unread, only the mark changes. *)
LEMMA SetsReadState ==
  ASSUME ChatAssumption, RowsOK, conv \in Conv, Kept, NEW read, SetConversationReadState(read),
         handler.pc = "stamped" => handler'.pc = "stamped",
         handler.pc = "recount" => handler'.pc = "recount",
         web.pc = "recount" => web'.pc = "recount",
         history.pc = "head" => history'.pc = "head"
  PROVE  RowsOK' /\ conv' \in Conv /\ Kept' /\ torn' \subseteq torn
<1>1. CASE ~conv.there
  BY <1>1, KeptQuiet DEF SetConversationReadState, RowsOK
<1>2. CASE conv.there /\ read
  BY <1>2, ReadsAllKeeps DEF SetConversationReadState
<1>3. CASE conv.there /\ ~read
  <2>1. conv' = [conv EXCEPT !.marked = TRUE] /\ row' = row /\ torn' = torn
    BY <1>3 DEF SetConversationReadState
  <2>2. /\ conv' \in Conv /\ conv'.unread = conv.unread /\ conv'.mentions = conv.mentions
        /\ conv'.head = conv.head /\ conv'.awaiting = conv.awaiting
    BY <2>1 DEF Conv
  <2>3. Kept'
    BY <2>1, <2>2, KeptAlike
  <2> QED BY <2>1, <2>2, <2>3 DEF RowsOK
<1> QED BY <1>1, <1>2, <1>3

----------------------------------------------------------------------------
(* The shape of what is on its way, action by action *)

LEMMA Spends ==
  ASSUME left \in [Kinds -> Nat], NEW k \in Kinds, k # "all", Spend(k)
  PROVE  left' \in [Kinds -> Nat]
<1>1. /\ left[k] \in Nat /\ left[k] > 0 /\ left["all"] \in Nat /\ left["all"] > 0
      /\ left' = [[left EXCEPT ![k] = left[k] - 1] EXCEPT !["all"] = left["all"] - 1]
  BY DEF Spend, Kinds
<1>2. left[k] - 1 \in Nat /\ left["all"] - 1 \in Nat
  BY <1>1
<1> QED BY <1>1, <1>2

LEMMA Appends ==
  ASSUME NEW S, NEW s \in Seq(S), NEW e \in S
  PROVE  Append(s, e) \in Seq(S) /\ Append(s, e) # <<>>
  BY AppendProperties

(* The head of the wire is an event, and what is behind it a wire. *)
LEMMA Takes ==
  ASSUME NEW S, NEW s \in Seq(S), s # <<>>
  PROVE  Head(s) \in S /\ Tail(s) \in Seq(S)
  OBVIOUS

LEMMA OutsideShape ==
  ASSUME ChatAssumption, Shape, Outside PROVE Shape'
<1>1. ASSUME NEW m \in Msg, ServerDelivers(m) PROVE Shape'
  <2>1. [k |-> "msg", m |-> m] \in Event
    BY DEF Event
  <2>2. wire' \in Seq(Event) /\ wire' # <<>>
    BY <1>1, <2>1, Appends DEF ServerDelivers, Shape
  <2>3. phone' \in Phone
    BY <1>1 DEF ServerDelivers, Shape, Phone
  <2> QED BY <1>1, <2>2, <2>3 DEF ServerDelivers, Shape, TornOK, procs, ghosts
<1>2. ASSUME NEW m \in Msg, PhoneGets(m) PROVE Shape'
  <2>1. phone' \in Phone
    BY <1>2 DEF PhoneGets, Shape, Phone
  <2> QED BY <1>2, <2>1 DEF PhoneGets, Shape, TornOK, procs, ghosts
<1>3. ASSUME NEW m \in Msg, CustomerReceipt(m) PROVE Shape'
  <2>1. PICK s \in {"delivered", "read"} :
          wire' = Append(wire, [k |-> "receipt", ids |-> {m}, s |-> s, at |-> left.receipts])
    BY <1>3 DEF CustomerReceipt
  <2>2. [k |-> "receipt", ids |-> {m}, s |-> s, at |-> left.receipts] \in Event
    BY <2>1 DEF Event, Shape, Kinds
  <2>3. wire' \in Seq(Event) /\ wire' # <<>>
    BY <2>1, <2>2, Appends DEF Shape
  <2>4. left' \in [Kinds -> Nat]
    BY <1>3, Spends DEF CustomerReceipt, Shape, Kinds
  <2> QED BY <1>3, <2>3, <2>4 DEF CustomerReceipt, Shape, TornOK, procs, ghosts
<1>4. ASSUME NEW m \in Msg, CustomerRevokes(m) PROVE Shape'
  <2>1. [k |-> "revoke", m |-> m] \in Event
    BY DEF Event
  <2>2. wire' \in Seq(Event) /\ wire' # <<>>
    BY <1>4, <2>1, Appends DEF CustomerRevokes, Shape
  <2>3. left' \in [Kinds -> Nat]
    BY <1>4, Spends DEF CustomerRevokes, Shape, Kinds
  <2> QED BY <1>4, <2>2, <2>3 DEF CustomerRevokes, Shape, TornOK, procs, ghosts
<1>5. ASSUME PhoneReads PROVE Shape'
  <2> DEFINE new == (phone.has \cap Inbound) \ phone.read
             e == [k |-> "readself", ids |-> new, at |-> left.opens]
  <2>1. e \in Event /\ [k |-> "mark", v |-> TRUE] \in Patch
    BY DEF Event, Patch, Shape, Kinds, Phone
  <2>2. phone' \in Phone
    BY <1>5 DEF PhoneReads, Shape, Phone
  <2>3. wire' = wire \/ wire' = Append(wire, e)
    BY <1>5 DEF PhoneReads
  <2>4. patches' = patches \/ patches' = Append(patches, [k |-> "mark", v |-> TRUE])
    BY <1>5 DEF PhoneReads
  <2> HIDE DEF e
  <2>5. wire' \in Seq(Event) /\ (wire # <<>> => wire' # <<>>)
    BY <2>1, <2>3, Appends DEF Shape
  <2>6. patches' \in Seq(Patch)
    BY <2>1, <2>4, Appends DEF Shape
  <2>7. left' \in [Kinds -> Nat]
    BY <1>5, Spends DEF PhoneReads, Shape, Kinds
  <2> QED BY <1>5, <2>2, <2>5, <2>6, <2>7 DEF PhoneReads, Shape, TornOK, procs
<1>6. ASSUME PhoneMarks PROVE Shape'
  <2>1. PICK p \in Patch : patches' = Append(patches, p)
    <3>1. /\ [k |-> "mark", v |-> FALSE] \in Patch
          /\ [k |-> "archive", v |-> ~phone.archived] \in Patch
      BY DEF Patch
    <3> QED BY <1>6, <3>1 DEF PhoneMarks
  <2>2. phone' \in Phone
    BY <1>6 DEF PhoneMarks, Shape, Phone
  <2>3. patches' \in Seq(Patch)
    BY <2>1, Appends DEF Shape
  <2>4. left' \in [Kinds -> Nat]
    BY <1>6, Spends DEF PhoneMarks, Shape, Kinds
  <2> QED BY <1>6, <2>2, <2>3, <2>4 DEF PhoneMarks, Shape, TornOK, procs, ghosts
<1>7. ASSUME PhoneSendsHistory PROVE Shape'
  <2>1. Cardinality((phone.has \cap Inbound) \ phone.read) \in Nat
    <3>1. (phone.has \cap Inbound) \ phone.read \in SUBSET Msg
      BY DEF Shape, Phone
    <3> QED BY <3>1, FS_Subset, FS_CardinalityType DEF ChatAssumption
  <2>2. history' \in Blob
    BY <1>7, <2>1 DEF PhoneSendsHistory, Blob, Shape, Phone
  <2>3. left' \in [Kinds -> Nat]
    BY <1>7, Spends DEF PhoneSendsHistory, Shape, Kinds
  <2> QED BY <1>7, <2>2, <2>3 DEF PhoneSendsHistory, Shape, TornOK, ghosts
<1>8. ASSUME Disconnect PROVE Shape'
  <2>1. wire' \in Seq(Event)
    <3>0. PICK keep \in {DOMAIN wire, {i \in DOMAIN wire : ~Receipt(wire[i])}} :
            \E pick \in [1..Cardinality(keep) -> keep] :
              wire' = [i \in DOMAIN pick |-> wire[pick[i]]]
      BY <1>8 DEF Disconnect, DropReceipts
    <3>1. PICK pick \in [1..Cardinality(keep) -> keep] :
            wire' = [i \in DOMAIN pick |-> wire[pick[i]]]
      BY <3>0
    <3>2. keep \in SUBSET DOMAIN wire /\ DOMAIN wire = 1..Len(wire) /\ Len(wire) \in Nat
      BY <3>0 DEF Shape
    <3>3. Cardinality(keep) \in Nat
      <4>1. IsFiniteSet(1..Len(wire))
        BY <3>2, FS_Interval
      <4> QED BY <3>2, <4>1, FS_Subset, FS_CardinalityType
    <3>4. \A i \in 1..Cardinality(keep) : wire[pick[i]] \in Event
      BY <3>1, <3>2 DEF Shape
    <3> QED BY <3>1, <3>3, <3>4
  <2>2. left' \in [Kinds -> Nat]
    BY <1>8, Spends DEF Disconnect, Shape, Kinds
  <2> QED BY <1>8, <2>1, <2>2 DEF Disconnect, Shape, TornOK, procs, Idle
<1>9. ASSUME Crash PROVE Shape'
  <2>1. left' \in [Kinds -> Nat]
    BY <1>9, Spends DEF Crash, Shape, Kinds
  <2>2. TornOK'
    BY <1>9 DEF Crash, Shape, TornOK, Tear, Cut
  <2> QED BY <1>9, <2>1, <2>2 DEF Crash, Shape, Idle, Wheres
<1> QED BY <1>1, <1>2, <1>3, <1>4, <1>5, <1>6, <1>7, <1>8, <1>9 DEF Outside

LEMMA HandlerShape ==
  ASSUME ChatAssumption, Shape, Handler PROVE Shape'
<1>1. ASSUME PersistMessage PROVE Shape'
  <2>1. wire # <<>>
    BY <1>1 DEF PersistMessage, HandlerReady
  <2>2. \/ handler' = [pc |-> "recount"] /\ wire' = wire
        \/ handler' = Idle /\ wire' = Tail(wire)
    BY <1>1 DEF PersistMessage, Done
  <2>3. TornOK'
    BY <1>1 DEF PersistMessage, Mend, Shape, TornOK
  <2>4. Tail(wire) \in Seq(Event) /\ wire \in Seq(Event)
    BY <2>1, Takes DEF Shape
  <2>5. wire' \in Seq(Event) /\ handler'.pc \in Wheres /\ (handler'.pc # "idle" => wire' # <<>>)
    BY <2>1, <2>2, <2>4 DEF Idle, Wheres
  <2> QED BY <1>1, <2>3, <2>5 DEF PersistMessage, HandlerOnly, Shape
<1>2. ASSUME Done, HandlerOnly, TornOK', wire # <<>> PROVE Shape'
  <2>1. wire' \in Seq(Event) /\ handler'.pc = "idle"
    BY <1>2, Takes DEF Shape, Done, Idle
  <2> QED BY <1>2, <2>1 DEF HandlerOnly, Shape, Wheres
<1>3. ASSUME RefreshMentionCount PROVE Shape'
  BY <1>2, <1>3 DEF RefreshMentionCount, Shape, TornOK, Mend
<1>4. ASSUME HandleRevoke PROVE Shape'
  <2>1. TornOK'
    BY <1>4 DEF HandleRevoke, Shape, TornOK
  <2> QED BY <1>2, <1>4, <2>1 DEF HandleRevoke, HandlerReady
<1>5. ASSUME ClaimReceipt PROVE Shape'
  <2>1. wire # <<>> /\ TornOK'
    BY <1>5 DEF ClaimReceipt, HandlerReady, Shape, TornOK
  <2>2. CASE Done
    BY <1>2, <1>5, <2>1, <2>2 DEF ClaimReceipt
  <2>3. CASE handler' = [pc |-> "claimed"] /\ wire' = wire
    BY <1>5, <2>1, <2>3 DEF ClaimReceipt, HandlerOnly, Shape, Wheres
  <2> QED BY <1>5, <2>2, <2>3 DEF ClaimReceipt
<1>6. ASSUME AdvanceMessageStatus PROVE Shape'
  BY <1>2, <1>6 DEF AdvanceMessageStatus, Shape, TornOK
<1>7. ASSUME ReadSelfStamps PROVE Shape'
  <2>1. handler'.pc \in {"fallback", "stamped"} /\ wire' = wire /\ wire # <<>>
    BY <1>7 DEF ReadSelfStamps, Shape
  <2>2. torn' = torn \/ torn' = torn \ {"awaiting"}
    BY <1>7 DEF ReadSelfStamps, Mend
  <2>3. TornOK'
    BY <2>2 DEF TornOK, Shape
  <2> QED BY <1>7, <2>1, <2>3 DEF ReadSelfStamps, HandlerOnly, Shape, Wheres
<1>8. ASSUME RecomputeUnread PROVE Shape'
  BY <1>2, <1>8 DEF RecomputeUnread, Shape, TornOK, Mend
<1>9. ASSUME ReadSelfFallback PROVE Shape'
  <2>1. TornOK'
    BY <1>9 DEF ReadSelfFallback, SetConversationReadState, Shape, TornOK
  <2> QED BY <1>2, <1>9, <2>1 DEF ReadSelfFallback, Shape
<1> QED BY <1>1, <1>3, <1>4, <1>5, <1>6, <1>7, <1>8, <1>9 DEF Handler

LEMMA HistoryShape ==
  ASSUME ChatAssumption, Shape, History PROVE Shape'
<1>1. ASSUME HistoryBatch PROVE Shape'
  <2>1. history \in Blob
    BY <1>1 DEF HistoryBatch, Shape, Idle
  <2>2. history' \in Blob
    BY <1>1, <2>1 DEF HistoryBatch, Blob
  <2> QED BY <1>1, <2>2 DEF HistoryBatch, HistoryOnly, Shape, TornOK
<1>2. ASSUME HistoryHead PROVE Shape'
  <2>1. history \in Blob
    BY <1>2 DEF HistoryHead, Shape, Idle
  <2>2. history' \in Blob
    BY <1>2, <2>1 DEF HistoryHead, Blob
  <2>3. TornOK'
    BY <1>2 DEF HistoryHead, Shape, TornOK, Mend
  <2> QED BY <1>2, <2>2, <2>3 DEF HistoryHead, HistoryOnly, Shape
<1>3. ASSUME HistoryState PROVE Shape'
  <2>1. TornOK'
    BY <1>3 DEF HistoryState, Shape, TornOK, Tear
  <2> QED BY <1>3, <2>1 DEF HistoryState, HistoryOnly, Shape
<1> QED BY <1>1, <1>2, <1>3 DEF History

LEMMA WebShape ==
  ASSUME ChatAssumption, Shape, conv \in Conv, Web PROVE Shape'
<1>0. ASSUME WebOnly, phone' \in Phone, patches' \in Seq(Patch), left' = left, TornOK',
             web'.pc = "flag" => web'.v \in BOOLEAN
      PROVE  Shape'
  BY <1>0 DEF WebOnly, Shape
<1>1. ASSUME WebMarkRead PROVE Shape'
  <2>1. TornOK' /\ web'.pc # "flag"
    BY <1>1 DEF WebMarkRead, Mend, Shape, TornOK, Goto
  <2> QED BY <1>0, <1>1, <2>1 DEF WebMarkRead, Shape
<1>2. ASSUME WebMentionsSeen PROVE Shape'
  BY <1>0, <1>2 DEF WebMentionsSeen, Shape, TornOK, Goto
<1>3. ASSUME WebMentionCount PROVE Shape'
  <2>1. TornOK' /\ web'.pc # "flag"
    BY <1>3 DEF WebMentionCount, Mend, Shape, TornOK, Goto
  <2> QED BY <1>0, <1>3, <2>1 DEF WebMentionCount, Shape
<1>4. ASSUME WebReadReceipt PROVE Shape'
  <2>1. phone' \in Phone
    BY <1>4 DEF WebReadReceipt, Shape, Phone
  <2> QED BY <1>0, <1>4, <2>1 DEF WebReadReceipt, Shape, TornOK, Goto
<1>5. ASSUME WebPushReadState PROVE Shape'
  <2>1. phone' \in Phone
    <3>1. phone' = phone \/ \E b \in BOOLEAN, S \in SUBSET Msg :
            phone' = [phone EXCEPT !.marked = b, !.read = S]
      <4>1. phone.has \cap Inbound \in SUBSET Msg /\ phone.read \in SUBSET Msg
        BY DEF Shape, Phone
      <4> QED BY <1>5, <4>1 DEF WebPushReadState
    <3> QED BY <3>1 DEF Shape, Phone
  <2>2. patches' \in Seq(Patch)
    <3>1. PICK read \in BOOLEAN :
            patches' = patches \/ patches' = Append(patches, [k |-> "mark", v |-> read])
      BY <1>5 DEF WebPushReadState, At
    <3>2. [k |-> "mark", v |-> read] \in Patch
      BY DEF Patch
    <3> QED BY <3>1, <3>2, Appends DEF Shape
  <2>3. web'.pc # "flag"
    BY <1>5 DEF WebPushReadState, Goto, Ends, Idle
  <2> QED BY <1>0, <1>5, <2>1, <2>2, <2>3 DEF WebPushReadState, Shape, TornOK
<1>6. ASSUME WebMarkUnread PROVE Shape'
  BY <1>0, <1>6 DEF WebMarkUnread, Shape, TornOK, Ends, Idle
<1>7. ASSUME WebArchive PROVE Shape'
  <2>1. phone' \in Phone
    BY <1>7 DEF WebArchive, Shape, Phone
  <2>2. patches' \in Seq(Patch)
    <3>1. [k |-> "archive", v |-> ~conv.archived] \in Patch
      BY DEF Patch
    <3>2. \/ patches' = patches
          \/ patches' = Append(patches, [k |-> "archive", v |-> ~conv.archived])
      BY <1>7 DEF WebArchive
    <3> QED BY <3>1, <3>2, Appends DEF Shape
  <2>3. web'.v \in BOOLEAN
    BY <1>7 DEF WebArchive
  <2> QED BY <1>0, <1>7, <2>1, <2>2, <2>3 DEF WebArchive, Shape, TornOK
<1>8. ASSUME WebArchiveStored PROVE Shape'
  BY <1>0, <1>8 DEF WebArchiveStored, Shape, TornOK, Ends, Idle
<1>9. ASSUME WebClear PROVE Shape'
  BY <1>0, <1>9 DEF WebClear, Shape, TornOK, Ends, Idle
<1>10. ASSUME WebDelete PROVE Shape'
  BY <1>0, <1>10 DEF WebDelete, Shape, TornOK, Ends, Idle
<1> QED BY <1>1, <1>2, <1>3, <1>4, <1>5, <1>6, <1>7, <1>8, <1>9, <1>10 DEF Web

LEMMA SenderShape ==
  ASSUME ChatAssumption, Shape, Sender PROVE Shape'
<1>0. ASSUME SenderOnly, phone' \in Phone, TornOK', sender' = Idle \/ sender' \in Sending
      PROVE  Shape'
  BY <1>0 DEF SenderOnly, Shape
<1>1. ASSUME SendReadsFirst PROVE Shape'
  <2>1. sender' \in Sending
    BY <1>1 DEF SendReadsFirst, Shape, Idle, Sending
  <2>2. phone' \in Phone
    BY <1>1 DEF SendReadsFirst, Shape, Phone
  <2>3. TornOK'
    BY <1>1 DEF SendReadsFirst, Shape, TornOK, Mend
  <2> QED BY <1>0, <1>1, <2>1, <2>2, <2>3 DEF SendReadsFirst
<1>2. ASSUME SendGoesOut PROVE Shape'
  <2>1. sender.m \in Sent
    BY <1>2 DEF SendGoesOut, Shape, Idle, Sending
  <2>2. sender' \in Sending
    <3>1. PICK s \in {"sent", "failed"} : sender' = [pc |-> "outcome", m |-> sender.m, s |-> s]
      BY <1>2 DEF SendGoesOut
    <3> QED BY <2>1, <3>1 DEF Sending
  <2>3. phone' \in Phone
    <3>1. \/ phone' = phone
          \/ phone' = [phone EXCEPT !.served = phone.served \cup {sender.m}]
      BY <1>2 DEF SendGoesOut
    <3>2. sender.m \in Msg
      BY <2>1 DEF Msg
    <3>3. phone \in Phone
      BY DEF Shape
    <3>4. [phone EXCEPT !.served = phone.served \cup {sender.m}] \in Phone
      BY <3>2, <3>3 DEF Phone
    <3> QED BY <3>1, <3>3, <3>4
  <2> QED BY <1>0, <1>2, <2>2, <2>3 DEF SendGoesOut, Shape, TornOK
<1>3. ASSUME SendOutcome PROVE Shape'
  <2>1. TornOK'
    BY <1>3 DEF SendOutcome, Shape, TornOK, Mend
  <2> QED BY <1>0, <1>3, <2>1 DEF SendOutcome, Shape
<1> QED BY <1>1, <1>2, <1>3 DEF Sender

LEMMA OtherShape ==
  ASSUME ChatAssumption, Shape,
         ApplyPatch \/ Reconcile \/ Connect \/ WebStarts \/ WebHide \/ Prune
           \/ \E m \in Sent : SendStores(m)
  PROVE  Shape'
<1>1. ASSUME ApplyPatch PROVE Shape'
  <2>1. patches' \in Seq(Patch)
    BY <1>1, Takes DEF ApplyPatch, Shape
  <2>2. TornOK'
    BY <1>1 DEF ApplyPatch, SetConversationReadState, Shape, TornOK
  <2> QED BY <1>1, <2>1, <2>2 DEF ApplyPatch, Shape, procs
<1>2. ASSUME Reconcile PROVE Shape'
  <2>1. TornOK'
    BY <1>2 DEF Reconcile, ConnectMentions, ConnectUnread, Mend, Shape, TornOK
  <2> QED BY <1>2, <2>1 DEF Reconcile, ConnectMentions, ConnectUnread, Shape
<1>3. ASSUME Connect PROVE Shape'
  BY <1>3 DEF Connect, Shape, TornOK, ghosts
<1>4. ASSUME WebStarts PROVE Shape'
  <2>1. left' \in [Kinds -> Nat]
    BY <1>4, Spends DEF WebStarts, Shape, Kinds
  <2>2. web'.pc # "flag"
    BY <1>4 DEF WebStarts, Goto
  <2> QED BY <1>4, <2>1, <2>2 DEF WebStarts, WebOnly, Shape, TornOK
<1>5. ASSUME WebHide PROVE Shape'
  <2>1. left' \in [Kinds -> Nat]
    BY <1>5, Spends DEF WebHide, Shape, Kinds
  <2>2. TornOK'
    BY <1>5 DEF WebHide, Shape, TornOK
  <2> QED BY <1>5, <2>1, <2>2 DEF WebHide, WebOnly, Shape
<1>6. ASSUME Prune PROVE Shape'
  <2>1. left' \in [Kinds -> Nat]
    BY <1>6, Spends DEF Prune, Shape, Kinds
  <2>2. TornOK'
    BY <1>6 DEF Prune, Shape, TornOK, Tear
  <2> QED BY <1>6, <2>1, <2>2 DEF Prune, Shape, procs
<1>7. ASSUME NEW m \in Sent, SendStores(m) PROVE Shape'
  <2>1. left' \in [Kinds -> Nat]
    BY <1>7, Spends DEF SendStores, Shape, Kinds
  <2>2. TornOK' /\ sender' \in Sending
    BY <1>7 DEF SendStores, Shape, TornOK, Mend, Sending
  <2> QED BY <1>7, <2>1, <2>2 DEF SendStores, Shape
<1> QED BY <1>1, <1>2, <1>3, <1>4, <1>5, <1>6, <1>7

----------------------------------------------------------------------------
(* The rows and the counters, action by action *)

Store == RowsOK /\ conv \in Conv /\ Kept

LEMMA OutsideStore ==
  ASSUME ChatAssumption, Store, Outside PROVE Store'
<1>1. ASSUME UNCHANGED <<row, conv, torn, handler, web>>,
             history.pc = "head" => history'.pc = "head"
      PROVE  Store'
  BY <1>1, KeptQuiet DEF Store, RowsOK
<1>2. ASSUME NEW m \in Msg, ServerDelivers(m) PROVE Store'
  BY <1>1, <1>2 DEF ServerDelivers, store, procs, ghosts
<1>3. ASSUME NEW m \in Msg, PhoneGets(m) PROVE Store'
  BY <1>1, <1>3 DEF PhoneGets, store, procs, ghosts
<1>4. ASSUME NEW m \in Msg, CustomerReceipt(m) PROVE Store'
  BY <1>1, <1>4 DEF CustomerReceipt, store, procs, ghosts
<1>5. ASSUME NEW m \in Msg, CustomerRevokes(m) PROVE Store'
  BY <1>1, <1>5 DEF CustomerRevokes, store, procs, ghosts
<1>6. CASE PhoneReads
  BY <1>1, <1>6 DEF PhoneReads, store, procs
<1>7. CASE PhoneMarks
  BY <1>1, <1>7 DEF PhoneMarks, store, procs, ghosts
<1>8. CASE PhoneSendsHistory
  BY <1>1, <1>8 DEF PhoneSendsHistory, store, ghosts, Idle
<1>9. CASE Disconnect
  BY <1>1, <1>9 DEF Disconnect, store, procs
<1>10. CASE Crash
  <2>1. /\ row' = row /\ conv' = conv /\ torn' = torn \cup Cut
        /\ handler'.pc = "idle" /\ history'.pc = "idle" /\ web'.pc = "idle"
    BY <1>10 DEF Crash, Tear, store, Idle
  <2>2. /\ handler.pc = "stamped" => "unread" \in torn'
        /\ handler.pc = "recount" \/ web.pc = "recount" => "mentions" \in torn'
        /\ history.pc = "head" => "head" \in torn' /\ "awaiting" \in torn'
        /\ torn \subseteq torn'
    BY <2>1 DEF Cut
  <2>3. Kept'
    BY <2>1, <2>2 DEF Store, Kept, HeadStored, UnreadAgrees, MentionsAgree, HeadIsNewest,
                      AwaitingAgrees
  <2> QED BY <2>1, <2>3 DEF Store, RowsOK
<1> QED BY <1>2, <1>3, <1>4, <1>5, <1>6, <1>7, <1>8, <1>9, <1>10 DEF Outside

(* RefreshMentionCount, by whoever runs it *)
LEMMA MentionsCounted ==
  ASSUME ChatAssumption, Store, conv' = [conv EXCEPT !.mentions = Cardinality(Unseen(row))],
         row' = row, torn' = torn \ {"mentions"}, history' = history,
         handler.pc = "stamped" => handler'.pc = "stamped"
  PROVE  Store'
<1>1. /\ conv' \in Conv /\ conv'.unread = conv.unread /\ conv'.head = conv.head
      /\ conv'.awaiting = conv.awaiting /\ conv'.mentions = Cardinality(Unseen(row))
  BY Counts DEF Store, Conv
<1>2. Kept'
  BY <1>1 DEF Store, Kept, HeadStored, UnreadAgrees, MentionsAgree, HeadIsNewest, AwaitingAgrees
<1> QED BY <1>1, <1>2 DEF Store, RowsOK

(* RecomputeUnread, and what reconcileReadState does when it lowers *)
LEMMA UnreadCounted ==
  ASSUME ChatAssumption, Store, conv' = [conv EXCEPT !.unread = Cardinality(Unread(row))],
         row' = row, torn' = torn \ {"unread"}, history' = history, web' = web,
         handler.pc = "recount" => handler'.pc = "recount"
  PROVE  Store'
<1>1. /\ conv' \in Conv /\ conv'.mentions = conv.mentions /\ conv'.head = conv.head
      /\ conv'.awaiting = conv.awaiting /\ conv'.unread = Cardinality(Unread(row))
  BY Counts DEF Store, Conv
<1>2. Kept'
  BY <1>1 DEF Store, Kept, HeadStored, UnreadAgrees, MentionsAgree, HeadIsNewest, AwaitingAgrees
<1> QED BY <1>1, <1>2 DEF Store, RowsOK

(* refresh_conversation_head after the rows changed *)
LEMMA HeadRefreshed ==
  ASSUME ChatAssumption, RowsOK', conv' = RefreshHead(conv, row'), conv \in Conv,
         Stored(row') # {} \/ conv.head = NoMsg
  PROVE  /\ conv' \in Conv /\ conv'.unread = conv.unread /\ conv'.mentions = conv.mentions
         /\ HeadStored' /\ HeadIsNewest' /\ AwaitingAgrees'
<1>1. row' \in Rows
  BY DEF RowsOK, Rows
<1>2. /\ conv' \in Conv /\ conv'.unread = conv.unread /\ conv'.mentions = conv.mentions
      /\ conv'.awaiting = Awaits(row')
      /\ conv'.head = IF Stored(row') = {} THEN conv.head ELSE Newest(row', Stored(row'))
  BY <1>1, Refreshed
<1>3. CASE Stored(row') # {}
  <2>1. Newest(row', Stored(row')) \in Stored(row')
    BY <1>1, <1>3, StoredRows, HasNewest
  <2> QED BY <1>2, <1>3, <2>1 DEF HeadStored, HeadIsNewest, AwaitingAgrees
<1>4. CASE Stored(row') = {} /\ conv.head = NoMsg
  <2>1. Newest(row', Stored(row')) = NoMsg
    BY <1>4 DEF Newest
  <2> QED BY <1>2, <1>4, <2>1 DEF HeadStored, HeadIsNewest, AwaitingAgrees
<1> QED BY <1>3, <1>4

(* One row changes, and it is there before and after. *)
LEMMA OneRowChanges ==
  ASSUME RowsOK, NEW m \in Stored(row), NEW x \in Row, row' = [row EXCEPT ![m] = x],
         x.read = row[m].read
  PROVE  /\ RowsOK' /\ Stored(row') = Stored(row) /\ Stored(row') # {}
         /\ Unread(row') = Unread(row)
         /\ (x.seen = row[m].seen /\ x.gone = row[m].gone) \/ (m \notin Unseen(row) /\ x.gone # "no")
              => Unseen(row') = Unseen(row)
<1>1. /\ RowsOK' /\ m \in Msg /\ row'[m] = x /\ \A n \in Msg \ {m} : row'[n] = row[n]
  BY DEF RowsOK, Stored
<1>2. Stored(row') = Stored(row)
  BY <1>1, NotNoRow DEF Stored
<1>3. Unread(row') = Unread(row)
  BY <1>1, <1>2 DEF Unread, Stored
<1>4. ASSUME (x.seen = row[m].seen /\ x.gone = row[m].gone)
               \/ (m \notin Unseen(row) /\ x.gone # "no")
      PROVE  Unseen(row') = Unseen(row)
  BY <1>1, <1>2, <1>4 DEF Unseen, Stored
<1> QED BY <1>1, <1>2, <1>3, <1>4

LEMMA EvIs ==
  ASSUME Shape, wire # <<>>
  PROVE  /\ Ev \in Event
         /\ Ev.k \in {"msg", "revoke"} => Ev.m \in Msg
         /\ Ev.k = "receipt" => Ev.s \in {"delivered", "read"}
<1>1. Ev \in Event
  BY Takes DEF Shape, Ev
<1> QED BY <1>1 DEF Event

LEMMA PersistStore == ASSUME ChatAssumption, Store, Shape, PersistMessage PROVE Store'
<1> DEFINE m == Ev.m
<1>1. /\ handler.pc = "idle" /\ web' = web /\ history' = history /\ m \in Msg
  BY EvIs DEF PersistMessage, HandlerReady, HandlerOnly, Idle
<1>2. CASE row[m] # NoRow
  <2>1. UNCHANGED <<row, conv, torn>>
    BY <1>2 DEF PersistMessage, Insert, store
  <2> QED BY <1>1, <2>1, KeptQuiet DEF Store, RowsOK
<1>3. CASE row[m] = NoRow
  <2>1. Insert(m) /\ torn' = torn \ {"head", "awaiting"}
    BY <1>3 DEF PersistMessage, Mend
  <2>2. m \in Mentions => handler'.pc = "recount"
    BY <1>3 DEF PersistMessage
  <2> HIDE DEF m
  <2>3. /\ RowsOK' /\ conv' \in Conv
        /\ conv'.head = Newest(row', Stored(row')) /\ conv'.head \in Stored(row')
        /\ conv'.awaiting = Awaits(row')
        /\ conv.unread = Cardinality(Unread(row)) => conv'.unread = Cardinality(Unread(row'))
        /\ conv'.mentions = conv.mentions
        /\ m \notin Mentions => Unseen(row') = Unseen(row)
    BY <1>1, <1>3, <2>1, Inserts DEF Store
  <2>4. HeadStored' /\ HeadIsNewest' /\ AwaitingAgrees'
    BY <2>3 DEF HeadStored, HeadIsNewest, AwaitingAgrees
  <2>5. UnreadAgrees' /\ MentionsAgree'
    BY <1>1, <2>1, <2>2, <2>3 DEF Store, Kept, UnreadAgrees, MentionsAgree
  <2> QED BY <2>3, <2>4, <2>5 DEF Store, Kept
<1> QED BY <1>2, <1>3

LEMMA RevokeStore == ASSUME ChatAssumption, Store, Shape, HandleRevoke PROVE Store'
<1> DEFINE m == Ev.m
           x == [row[m] EXCEPT !.gone = IF row[m].gone = "hidden" THEN row[m].gone ELSE "revoked"]
<1>1. handler.pc = "idle" /\ web' = web /\ history' = history /\ handler'.pc = "idle" /\ m \in Msg
  BY EvIs DEF HandleRevoke, HandlerReady, HandlerOnly, Done, Idle
<1>2. CASE row[m] = NoRow
  <2>1. row' = row /\ conv' = conv /\ torn' = torn
    BY <1>2 DEF HandleRevoke, store
  <2> QED BY <1>1, <2>1, KeptQuiet DEF Store, RowsOK
<1>3. CASE row[m] # NoRow
  <2>1. /\ row' = [row EXCEPT ![m] = x] /\ conv' = RefreshHead(conv, row')
        /\ torn' = (torn \ {"head", "awaiting"})
                     \cup (IF m \in Unseen(row) THEN {"mentions"} ELSE {})
    <3>2. row' = [row EXCEPT ![m] = x]
      BY <1>3 DEF HandleRevoke
    <3>3. conv' = RefreshHead(conv, row')
      BY <1>3 DEF HandleRevoke
    <3>4. torn' = (torn \ {"head", "awaiting"})
                    \cup (IF m \in Unseen(row) THEN {"mentions"} ELSE {})
      BY <1>3 DEF HandleRevoke
    <3> QED BY <3>2, <3>3, <3>4
  <2>2. m \in Stored(row) /\ row[m] \in Row
    BY <1>1, <1>3 DEF Stored, Store, RowsOK
  <2>3. x \in Row /\ x.read = row[m].read /\ x.gone # "no"
    BY <2>2 DEF Row
  <2> HIDE DEF x, m
  <2>4. /\ RowsOK' /\ Stored(row') # {} /\ Unread(row') = Unread(row)
        /\ m \notin Unseen(row) => Unseen(row') = Unseen(row)
    BY <2>1, <2>2, <2>3, OneRowChanges DEF Store
  <2>5. /\ conv' \in Conv /\ conv'.unread = conv.unread /\ conv'.mentions = conv.mentions
        /\ HeadStored' /\ HeadIsNewest' /\ AwaitingAgrees'
    BY <2>1, <2>4, HeadRefreshed DEF Store
  <2>6. UnreadAgrees' /\ MentionsAgree'
    BY <1>1, <2>1, <2>4, <2>5 DEF Store, Kept, UnreadAgrees, MentionsAgree
  <2> QED BY <2>4, <2>5, <2>6 DEF Store, Kept
<1> QED BY <1>2, <1>3

(* AdvanceMessageStatus: no counter is counted from a status. *)
LEMMA AdvanceStore == ASSUME ChatAssumption, Store, Shape, AdvanceMessageStatus PROVE Store'
<1>1. /\ handler.pc = "claimed" /\ web' = web /\ history' = history
      /\ conv' = conv /\ torn' = torn /\ Ev.s \in {"delivered", "read"}
  BY EvIs DEF AdvanceMessageStatus, HandlerOnly, Shape
<1>2. \A m \in Msg : \/ row'[m] = row[m]
                     \/ m \in Stored(row) /\ row'[m] = [row[m] EXCEPT !.status = Ev.s]
  BY DEF AdvanceMessageStatus, Stored
<1>3. \A m \in Stored(row) :
         LET x == [row[m] EXCEPT !.status = Ev.s] IN
         /\ x \in Row /\ x.ts = row[m].ts /\ x.read = row[m].read /\ x.seen = row[m].seen
         /\ x.gone = row[m].gone
  <2>1. \A m \in Stored(row) : row[m] \in Row
    BY DEF Store, RowsOK, Stored
  <2> QED BY <1>1, <2>1 DEF Row, Statuses
<1>4. RowsOK'
  <2>1. row' = [m \in Msg |-> row'[m]]
    BY DEF AdvanceMessageStatus
  <2> QED BY <1>2, <1>3, <2>1 DEF RowsOK, Store
<1>5. Stored(row') = Stored(row)
  BY <1>2, <1>3, NotNoRow DEF Stored
<1>6. \A m \in Stored(row) : /\ m \in Msg /\ row'[m].ts = row[m].ts /\ row'[m].read = row[m].read
                             /\ row'[m].seen = row[m].seen /\ row'[m].gone = row[m].gone
  BY <1>2, <1>3 DEF Stored
<1>7. Unread(row') = Unread(row) /\ Unseen(row') = Unseen(row)
  BY <1>5, <1>6 DEF Unread, Unseen
<1>8. /\ Newest(row', Stored(row')) = Newest(row, Stored(row))
      /\ Awaits(row') = Awaits(row)
  <2>1. row \in Rows
    BY DEF Store, RowsOK, Rows
  <2> QED BY <1>5, <1>6, <2>1, NewestSame, AwaitsSame, StoredRows
<1> QED BY <1>1, <1>4, <1>5, <1>7, <1>8, KeptAlike DEF Store

LEMMA ReadSelfStore == ASSUME ChatAssumption, Store, Shape, ReadSelfStamps PROVE Store'
<1> DEFINE hit == Ev.ids \cap Unread(row)
<1>1. handler.pc = "claimed" /\ web' = web /\ history' = history
  BY DEF ReadSelfStamps, HandlerOnly
<1>2. CASE hit = {}
  <2>1. UNCHANGED <<row, conv, torn>>
    BY <1>2 DEF ReadSelfStamps, store
  <2> QED BY <1>1, <2>1, KeptQuiet DEF Store, RowsOK
<1>3. CASE hit # {}
  <2>1. /\ row' = StampRead(row, hit) /\ conv' = AfterUpdate(conv, row, row')
        /\ torn' = torn \ {"awaiting"} /\ handler'.pc = "stamped"
    BY <1>3 DEF ReadSelfStamps, Mend
  <2>2. row \in Rows /\ hit \in SUBSET Unread(row)
    BY DEF Store, RowsOK, Rows
  <2> HIDE DEF hit
  <2>3. /\ row' \in Rows /\ Stored(row') = Stored(row) /\ Unseen(row') = Unseen(row)
        /\ Unread(row') = Unread(row) \ hit
        /\ \A m \in Stored(row) : row'[m].ts = row[m].ts
    BY <2>1, <2>2, Stamped
  <2>4. /\ conv' \in Conv /\ conv'.mentions = conv.mentions /\ conv'.head = conv.head
    BY <2>1, <2>2, <2>3, Updated DEF Store
  <2>5. conv'.awaiting = Awaits(row')
    <3>1. PICK m \in hit : TRUE
      BY <1>3
    <3>2. m \in Stored(row) /\ ~row[m].read
      BY <2>2 DEF Unread
    <3>3. row'[m].read = TRUE
      <4>1. m \in Msg /\ row[m] \in Row
        BY <3>2, <2>2 DEF Stored, Rows
      <4> QED BY <2>1, <3>1, <4>1 DEF StampRead, Row
    <3>4. conv' = [conv EXCEPT !.awaiting = Awaits(row')]
      BY <2>1, <3>2, <3>3 DEF AfterUpdate
    <3> QED BY <3>4 DEF Store, Conv
  <2>6. Newest(row', Stored(row')) = Newest(row, Stored(row))
    BY <2>3, NewestSame
  <2>7. HeadStored' /\ UnreadAgrees' /\ MentionsAgree' /\ HeadIsNewest' /\ AwaitingAgrees'
    BY <1>1, <2>1, <2>3, <2>4, <2>5, <2>6
       DEF Store, Kept, HeadStored, UnreadAgrees, MentionsAgree, HeadIsNewest, AwaitingAgrees
  <2> QED BY <2>3, <2>4, <2>7 DEF Store, Kept, RowsOK, Rows
<1> QED BY <1>2, <1>3

LEMMA HandlerStore == ASSUME ChatAssumption, Store, Shape, Handler PROVE Store'
<1>1. CASE RefreshMentionCount
  BY <1>1, MentionsCounted DEF RefreshMentionCount, HandlerOnly, Mend
<1>2. CASE ClaimReceipt
  <2>1. /\ UNCHANGED <<row, conv, torn, web, history>>
        /\ handler.pc = "idle"
    BY <1>2 DEF ClaimReceipt, HandlerReady, HandlerOnly, store, Idle
  <2> QED BY <2>1, KeptQuiet DEF Store, RowsOK
<1>3. CASE RecomputeUnread
  BY <1>3, UnreadCounted DEF RecomputeUnread, HandlerOnly, Mend
<1>4. CASE ReadSelfFallback
  <2>1. /\ SetConversationReadState(TRUE) /\ handler.pc = "fallback"
        /\ web' = web /\ history' = history
    BY <1>4 DEF ReadSelfFallback, HandlerOnly
  <2> QED BY <2>1, SetsReadState DEF Store
<1> QED BY <1>1, <1>2, <1>3, <1>4, PersistStore, RevokeStore, AdvanceStore, ReadSelfStore
        DEF Handler

(* handleMarkChatAsRead, and handleChatFlag which counts nothing *)
LEMMA PatchStore == ASSUME ChatAssumption, Store, Shape, ApplyPatch PROVE Store'
<1> DEFINE p == Head(patches)
<1>1. /\ handler' = handler /\ web' = web /\ history' = history /\ p \in Patch
  BY Takes DEF ApplyPatch, procs, Shape
<1>2. CASE p.k = "mark"
  <2>1. SetConversationReadState(p.v)
    BY <1>2 DEF ApplyPatch
  <2> QED BY <1>1, <2>1, SetsReadState DEF Store
<1>3. CASE p.k # "mark"
  <2>1. /\ conv' = conv \/ conv' = [conv EXCEPT !.archived = p.v]
        /\ row' = row /\ torn' = torn
    BY <1>3 DEF ApplyPatch
  <2>2. p.v \in BOOLEAN
    BY <1>1 DEF Patch
  <2>3. /\ conv' \in Conv /\ conv'.unread = conv.unread /\ conv'.mentions = conv.mentions
        /\ conv'.head = conv.head /\ conv'.awaiting = conv.awaiting
    BY <2>1, <2>2 DEF Conv, Store
  <2> QED BY <1>1, <2>1, <2>3, KeptAlike DEF Store, RowsOK
<1> QED BY <1>2, <1>3

(* InsertMessagesBackfill: history was read and seen, so nothing to count. *)
LEMMA BatchStore == ASSUME ChatAssumption, Store, Shape, HistoryBatch PROVE Store'
<1> DEFINE new == {m \in history.msgs : row[m] = NoRow}
<1>1. /\ history \in Blob /\ history.msgs \subseteq Msg
  BY DEF HistoryBatch, Shape, Idle, Blob
<1>2. /\ row' = [m \in Msg |-> IF m \in new THEN BackfillRow(m) ELSE row[m]]
      /\ conv' = [conv EXCEPT !.there = TRUE] /\ torn' = torn
      /\ handler' = handler /\ web' = web
      /\ history.pc = "batch" /\ (new # {} => history'.pc = "head")
  BY <1>1 DEF HistoryBatch, HistoryOnly, Blob
<1>3. /\ conv' \in Conv /\ conv'.unread = conv.unread /\ conv'.mentions = conv.mentions
      /\ conv'.head = conv.head /\ conv'.awaiting = conv.awaiting
  BY <1>2 DEF Conv, Store
<1>4. \A m \in Msg : /\ BackfillRow(m) \in Row
                     /\ m \in Inbound => BackfillRow(m).read = TRUE
                     /\ m \in Mentions => BackfillRow(m).seen = TRUE
  <2> SUFFICES ASSUME NEW m \in Msg
               PROVE  /\ BackfillRow(m) \in Row
                      /\ m \in Inbound => BackfillRow(m).read = TRUE
                      /\ m \in Mentions => BackfillRow(m).seen = TRUE
    OBVIOUS
  <2>1. Stamp[m] \in Nat /\ (m \in Inbound) \in BOOLEAN /\ (m \in Mentions) \in BOOLEAN
    BY DEF ChatAssumption
  <2>2. (IF m \in Inbound THEN "delivered" ELSE "sent") \in Statuses
    BY DEF Statuses
  <2> QED BY <2>1, <2>2 DEF BackfillRow, Row
<1>5. RowsOK'
  BY <1>2, <1>4 DEF RowsOK, Store
<1>6. CASE new = {}
  <2>1. row' = row
    BY <1>2, <1>6 DEF Store, RowsOK
  <2> QED BY <1>2, <1>3, <2>1, KeptAlike DEF Store, RowsOK
<1>7. CASE new # {}
  <2>1. \A m \in new : m \in Msg /\ row[m] = NoRow
    BY <1>1
  <2>2. \A m \in Msg : row'[m] = IF m \in new THEN BackfillRow(m) ELSE row[m]
    BY <1>2
  <2> HIDE DEF new
  <2>3. Stored(row') = Stored(row) \cup new
    BY <1>4, <2>1, <2>2, NotNoRow DEF Stored
  <2>4. Unread(row') = Unread(row)
    BY <1>4, <2>1, <2>2, <2>3 DEF Unread, Stored
  <2>5. Unseen(row') = Unseen(row)
    BY <1>4, <2>1, <2>2, <2>3 DEF Unseen, Stored
  <2>6. HeadStored' /\ UnreadAgrees' /\ MentionsAgree' /\ HeadIsNewest' /\ AwaitingAgrees'
    BY <1>2, <1>3, <1>7, <2>3, <2>4, <2>5
       DEF Store, Kept, HeadStored, UnreadAgrees, MentionsAgree, HeadIsNewest, AwaitingAgrees
  <2> QED BY <1>3, <1>5, <2>6 DEF Store, Kept
<1> QED BY <1>6, <1>7

LEMMA HistoryStore == ASSUME ChatAssumption, Store, Shape, History PROVE Store'
<1>1. CASE HistoryHead
  <2>1. /\ conv' = RefreshHead(conv, row') /\ row' = row /\ torn' = torn \ {"head", "awaiting"}
        /\ handler' = handler /\ web' = web
    BY <1>1 DEF HistoryHead, HistoryOnly, Mend
  <2>2. Stored(row') # {} \/ conv.head = NoMsg
    BY <2>1 DEF Store, Kept, HeadStored
  <2>3. RowsOK'
    BY <2>1 DEF Store, RowsOK
  <2>4. /\ conv' \in Conv /\ conv'.unread = conv.unread /\ conv'.mentions = conv.mentions
        /\ HeadStored' /\ HeadIsNewest' /\ AwaitingAgrees'
    BY <2>1, <2>2, <2>3, HeadRefreshed DEF Store
  <2>5. UnreadAgrees' /\ MentionsAgree'
    BY <2>1, <2>4 DEF Store, Kept, UnreadAgrees, MentionsAgree
  <2> QED BY <2>3, <2>4, <2>5 DEF Store, Kept
<1>2. CASE HistoryState
  <2>1. history \in Blob /\ history.pc = "state"
    BY <1>2 DEF HistoryState, Shape, Idle
  <2>2. /\ conv' = conv \/ conv' = [conv EXCEPT !.unread = history.unread,
                                        !.marked = history.marked, !.archived = history.archived]
        /\ row' = row /\ torn' = torn \cup {"unread"} /\ handler' = handler /\ web' = web
    BY <1>2 DEF HistoryState, HistoryOnly, Tear
  <2>3. /\ conv' \in Conv /\ conv'.mentions = conv.mentions
        /\ conv'.head = conv.head /\ conv'.awaiting = conv.awaiting
    BY <2>1, <2>2 DEF Conv, Store, Blob
  <2>4. HeadStored' /\ UnreadAgrees' /\ MentionsAgree' /\ HeadIsNewest' /\ AwaitingAgrees'
    BY <2>1, <2>2, <2>3
       DEF Store, Kept, HeadStored, UnreadAgrees, MentionsAgree, HeadIsNewest, AwaitingAgrees
  <2> QED BY <2>2, <2>3, <2>4 DEF Store, Kept, RowsOK
<1> QED BY <1>1, <1>2, BatchStore DEF History

LEMMA ReconcileStore == ASSUME ChatAssumption, Store, Reconcile PROVE Store'
<1>1. CASE ConnectMentions
  BY <1>1, MentionsCounted DEF ConnectMentions, Mend
<1>2. CASE ConnectUnread
  <2>1. CASE ~conv.marked /\ Cardinality(Unread(row)) < conv.unread
    BY <1>2, <2>1, UnreadCounted DEF ConnectUnread, Mend
  <2>2. CASE ~(~conv.marked /\ Cardinality(Unread(row)) < conv.unread)
    <3>1. UNCHANGED <<row, conv, torn, handler, web, history>>
      BY <1>2, <2>2 DEF ConnectUnread
    <3> QED BY <3>1, KeptQuiet DEF Store, RowsOK
  <2> QED BY <2>1, <2>2
<1> QED BY <1>1, <1>2 DEF Reconcile

(* ClearConversationMessages and DeleteConversation: nothing is left. *)
LEMMA NothingStored ==
  ASSUME row' = [m \in Msg |-> NoRow]
  PROVE  /\ RowsOK' /\ Stored(row') = {} /\ Unread(row') = {} /\ Unseen(row') = {}
         /\ Newest(row', Stored(row')) = NoMsg
<1>1. RowsOK' /\ Stored(row') = {}
  BY DEF RowsOK, Stored
<1> QED BY <1>1 DEF Unread, Unseen, Newest

LEMMA EmptiedStore == ASSUME ChatAssumption, Store, WebClear \/ WebDelete PROVE Store'
<1>1. CASE WebClear
  <2>1. /\ row' = [m \in Msg |-> NoRow]
        /\ conv' = [conv EXCEPT !.head = NoMsg, !.unread = 0, !.marked = FALSE]
        /\ torn' = (torn \ {"unread", "head"}) \cup {"awaiting", "mentions"}
    BY <1>1 DEF WebClear
  <2>2. conv' \in Conv /\ conv'.head = NoMsg /\ conv'.unread = 0
    BY <2>1 DEF Conv, Store
  <2>3. Kept'
    BY <2>1, <2>2, NothingStored, FS_EmptySet
       DEF Kept, HeadStored, UnreadAgrees, MentionsAgree, HeadIsNewest, AwaitingAgrees
  <2> QED BY <2>1, <2>2, <2>3, NothingStored DEF Store
<1>2. CASE WebDelete
  <2>1. row' = [m \in Msg |-> NoRow] /\ conv' = NoConv
    BY <1>2 DEF WebDelete
  <2>2. /\ NoConv \in Conv /\ NoConv.head = NoMsg /\ NoConv.unread = 0 /\ NoConv.mentions = 0
        /\ NoConv.awaiting = FALSE
    <3>1. 0 \in 0..Cardinality(Mentions)
      <4>1. Mentions \in SUBSET Msg
        BY DEF ChatAssumption, Msg
      <4> QED BY <4>1, FS_Subset, FS_CardinalityType DEF ChatAssumption
    <3> QED BY <3>1 DEF NoConv, Conv
  <2>3. Awaits(row') = FALSE
    <3>1. {m \in Stored(row') : row'[m].gone # "hidden"} = {}
      BY <2>1, NothingStored
    <3>2. Newest(row', {m \in Stored(row') : row'[m].gone # "hidden"}) = NoMsg
      BY <3>1 DEF Newest
    <3>3. NoMsg \notin Inbound
      BY DEF ChatAssumption, Msg
    <3> QED BY <3>2, <3>3 DEF Awaits
  <2>4. Kept'
    BY <2>1, <2>2, <2>3, NothingStored, FS_EmptySet
       DEF Kept, HeadStored, UnreadAgrees, MentionsAgree, HeadIsNewest, AwaitingAgrees
  <2> QED BY <2>1, <2>2, <2>4, NothingStored DEF Store
<1> QED BY <1>1, <1>2

(* MarkMentionsSeen: until the recount, the badge counts what was unseen. *)
LEMMA SeenStore == ASSUME ChatAssumption, Store, WebMentionsSeen PROVE Store'
<1> DEFINE hit == {m \in Stored(row) \cap Mentions : ~row[m].seen}
<1>1. /\ row' = [m \in Msg |-> IF m \in hit THEN [row[m] EXCEPT !.seen = TRUE] ELSE row[m]]
      /\ UNCHANGED <<conv, torn, handler, history>>
      /\ web.pc = "seen" /\ (hit # {} => web'.pc = "recount")
  BY DEF WebMentionsSeen, WebOnly, At, Goto
<1>2. row \in Rows
  BY DEF Store, RowsOK, Rows
<1>3. CASE hit = {}
  <2>1. row' = row
    BY <1>1, <1>2, <1>3 DEF Rows
  <2> QED BY <1>1, <2>1, KeptQuiet DEF Store, RowsOK
<1>4. CASE hit # {}
  <2>1. \A m \in Stored(row) : LET x == [row[m] EXCEPT !.seen = TRUE] IN
           x \in Row /\ x.ts = row[m].ts /\ x.read = row[m].read /\ x.gone = row[m].gone
    <3>1. \A m \in Stored(row) : row[m] \in Row
      BY <1>2, StoredRows
    <3> QED BY <3>1 DEF Row
  <2>2. \A m \in Msg : \/ row'[m] = row[m]
                       \/ m \in Stored(row) /\ row'[m] = [row[m] EXCEPT !.seen = TRUE]
    BY <1>1
  <2>3. RowsOK'
    <3>1. row' = [m \in Msg |-> row'[m]]
      BY <1>1
    <3> QED BY <1>2, <2>1, <2>2, <3>1 DEF RowsOK, Rows
  <2> HIDE DEF hit
  <2>4. Stored(row') = Stored(row)
    <3>1. \A m \in Stored(row) : row[m] # NoRow /\ row'[m] # NoRow
      BY <1>2, <2>1, <2>2, StoredRows, NotNoRow
    <3>2. \A m \in Msg \ Stored(row) : row[m] = NoRow /\ row'[m] = NoRow
      BY <2>2 DEF Stored
    <3> QED BY <3>1, <3>2 DEF Stored
  <2>5. \A m \in Stored(row) : /\ m \in Msg /\ row'[m].ts = row[m].ts
                               /\ row'[m].read = row[m].read /\ row'[m].gone = row[m].gone
    BY <2>1, <2>2 DEF Stored
  <2>6. Unread(row') = Unread(row)
    BY <2>4, <2>5 DEF Unread
  <2>7. /\ Newest(row', Stored(row')) = Newest(row, Stored(row))
        /\ Awaits(row') = Awaits(row)
    BY <1>2, <2>4, <2>5, NewestSame, AwaitsSame, StoredRows
  <2>8. Kept'
    BY <1>1, <1>4, <2>4, <2>6, <2>7
       DEF Store, Kept, HeadStored, UnreadAgrees, MentionsAgree, HeadIsNewest, AwaitingAgrees
  <2> QED BY <1>1, <2>3, <2>8 DEF Store
<1> QED BY <1>3, <1>4

LEMMA WebStore == ASSUME ChatAssumption, Store, Shape, Web PROVE Store'
<1>0. ASSUME UNCHANGED <<row, torn, handler, history>>, web.pc # "recount",
             conv' \in Conv, conv'.unread = conv.unread, conv'.mentions = conv.mentions,
             conv'.head = conv.head, conv'.awaiting = conv.awaiting
      PROVE  Store'
  BY <1>0, KeptAlike DEF Store, RowsOK
<1>1. CASE WebMarkRead
  <2>1. /\ ReadAll /\ torn' = torn \ {"unread"} /\ handler' = handler /\ history' = history
        /\ web.pc = "read"
    BY <1>1 DEF WebMarkRead, WebOnly, Mend, At
  <2> QED BY <2>1, ReadsAllKeeps DEF Store
<1>2. CASE WebMentionCount
  BY <1>2, MentionsCounted DEF WebMentionCount, WebOnly, Mend
<1>3. CASE WebReadReceipt
  <2>1. UNCHANGED <<row, conv, torn, handler, history>> /\ web.pc = "receipt"
    BY <1>3 DEF WebReadReceipt, WebOnly, At, store
  <2> QED BY <1>0, <2>1 DEF Store
<1>4. CASE WebPushReadState
  <2>1. UNCHANGED <<row, conv, torn, handler, history>> /\ web.pc # "recount"
    BY <1>4 DEF WebPushReadState, WebOnly, At, store
  <2> QED BY <1>0, <2>1 DEF Store
<1>5. CASE WebMarkUnread
  <2>1. /\ UNCHANGED <<row, torn, handler, history>> /\ web.pc = "mark"
        /\ conv' = conv \/ conv' = [conv EXCEPT !.marked = TRUE]
    BY <1>5 DEF WebMarkUnread, WebOnly, At
  <2>2. /\ conv' \in Conv /\ conv'.unread = conv.unread /\ conv'.mentions = conv.mentions
        /\ conv'.head = conv.head /\ conv'.awaiting = conv.awaiting
    BY <2>1 DEF Conv, Store
  <2> QED BY <1>0, <2>1, <2>2
<1>6. CASE WebArchive
  <2>1. UNCHANGED <<row, conv, torn, handler, history>> /\ web.pc = "archive"
    BY <1>6 DEF WebArchive, WebOnly, At, store
  <2> QED BY <1>0, <2>1 DEF Store
<1>7. CASE WebArchiveStored
  <2>1. /\ UNCHANGED <<row, torn, handler, history>> /\ web.pc = "flag"
        /\ conv' = conv \/ conv' = [conv EXCEPT !.archived = web.v]
    BY <1>7 DEF WebArchiveStored, WebOnly, At
  <2>2. web.v \in BOOLEAN
    BY <2>1 DEF Shape
  <2>3. /\ conv' \in Conv /\ conv'.unread = conv.unread /\ conv'.mentions = conv.mentions
        /\ conv'.head = conv.head /\ conv'.awaiting = conv.awaiting
    BY <2>1, <2>2 DEF Conv, Store
  <2> QED BY <1>0, <2>1, <2>3
<1> QED BY <1>1, <1>2, <1>3, <1>4, <1>5, <1>6, <1>7, EmptiedStore, SeenStore DEF Web

(* HideMessage, and the refresh in the same request *)
LEMMA HideStore == ASSUME ChatAssumption, Store, WebHide PROVE Store'
<1>1. PICK m \in Stored(row) :
        /\ row' = [row EXCEPT ![m].gone = "hidden"] /\ conv' = RefreshHead(conv, row')
        /\ torn' = (torn \ {"head", "awaiting"})
                     \cup (IF m \in Unseen(row) THEN {"mentions"} ELSE {})
  BY DEF WebHide
<1> DEFINE x == [row[m] EXCEPT !.gone = "hidden"]
<1>2. handler' = handler /\ history' = history /\ web' = web
  BY DEF WebHide, WebOnly
<1>3. row[m] \in Row
  BY DEF Store, RowsOK, Stored
<1>4. x \in Row /\ x.read = row[m].read /\ x.gone # "no" /\ row' = [row EXCEPT ![m] = x]
  BY <1>1, <1>3 DEF Row
<1> HIDE DEF x
<1>5. /\ RowsOK' /\ Stored(row') # {} /\ Unread(row') = Unread(row)
      /\ m \notin Unseen(row) => Unseen(row') = Unseen(row)
  BY <1>4, OneRowChanges DEF Store
<1>6. /\ conv' \in Conv /\ conv'.unread = conv.unread /\ conv'.mentions = conv.mentions
      /\ HeadStored' /\ HeadIsNewest' /\ AwaitingAgrees'
  BY <1>1, <1>5, HeadRefreshed DEF Store
<1>7. UnreadAgrees' /\ MentionsAgree'
  BY <1>1, <1>2, <1>5, <1>6 DEF Store, Kept, UnreadAgrees, MentionsAgree
<1> QED BY <1>5, <1>6, <1>7 DEF Store, Kept

(* Prune: what is left of the head is still the newest of what is left. *)
LEMMA PruneStore == ASSUME ChatAssumption, Store, Prune PROVE Store'
<1>1. PICK cut \in {Stamp[m] : m \in Msg} :
        LET old == {m \in Stored(row) : row[m].ts < cut} IN
        /\ old # {}
        /\ row' = [m \in Msg |-> IF m \in old THEN NoRow ELSE row[m]]
        /\ conv' = [conv EXCEPT !.head = IF conv.head \in old THEN NoMsg ELSE conv.head]
  BY DEF Prune
<1> DEFINE old == {m \in Stored(row) : row[m].ts < cut}
           T == Stored(row) \ old
<1>2. /\ handler' = handler /\ history' = history /\ web' = web
      /\ torn' = torn \cup {"unread", "mentions", "awaiting"}
  BY DEF Prune, Tear, procs
<1>3. /\ row \in Rows /\ cut \in Nat /\ Stored(row) \in SUBSET Msg
      /\ \A m \in Stored(row) : row[m] \in Row /\ row[m].ts \in Nat
  BY StoredRows DEF Store, RowsOK, Rows, ChatAssumption
<1>4. /\ RowsOK' /\ Stored(row') = T /\ \A m \in T : row'[m] = row[m]
  BY <1>1, <1>3 DEF RowsOK, Rows, Stored
<1>5. /\ conv' \in Conv /\ conv'.head = IF conv.head \in old THEN NoMsg ELSE conv.head
  BY <1>1 DEF Conv, Store
<1>6. \A m \in Stored(row) \ T, n \in T : row[m].ts < row[n].ts
  BY <1>3
<1>7. old # {} /\ old \subseteq Stored(row) /\ T \subseteq Stored(row)
  BY <1>1
<1>8. ASSUME conv.head = Newest(row, Stored(row)) PROVE conv'.head = Newest(row', Stored(row'))
  <2>1. /\ conv.head \in Stored(row)
        /\ \A n \in Stored(row) : row[n].ts <= row[conv.head].ts
    BY <1>3, <1>7, <1>8, HasNewest
  <2>2. CASE T = {}
    <3>1. conv.head \in old
      BY <2>1, <2>2
    <3>2. Newest(row', Stored(row')) = NoMsg
      BY <1>4, <2>2 DEF Newest
    <3> QED BY <1>5, <3>1, <3>2
  <2>3. CASE T # {}
    <3>1. conv.head \notin old
      <4> SUFFICES ASSUME conv.head \in old PROVE FALSE
        OBVIOUS
      <4>1. PICK t \in T : TRUE
        BY <2>3
      <4>2. row[conv.head].ts < row[t].ts /\ row[t].ts <= row[conv.head].ts
        BY <1>6, <1>7, <2>1, <4>1
      <4>3. row[conv.head].ts \in Nat /\ row[t].ts \in Nat
        BY <1>3, <1>7, <2>1, <4>1
      <4> QED BY <4>2, <4>3
    <3> HIDE DEF old, T
    <3>2. Newest(row, T) = Newest(row, Stored(row))
      BY <1>3, <1>6, <1>7, <2>3, NewestKept
    <3>3. Newest(row', T) = Newest(row, T)
      BY <1>4, NewestSame
    <3> QED BY <1>4, <1>5, <1>8, <3>1, <3>2, <3>3
  <2> QED BY <2>2, <2>3
<1>9. HeadStored'
  BY <1>4, <1>5 DEF Store, Kept, HeadStored
<1> HIDE DEF old, T
<1>10. UnreadAgrees' /\ MentionsAgree' /\ HeadIsNewest' /\ AwaitingAgrees'
  BY <1>2, <1>8 DEF Store, Kept, UnreadAgrees, MentionsAgree, HeadIsNewest, AwaitingAgrees
<1> QED BY <1>4, <1>5, <1>9, <1>10 DEF Store, Kept

LEMMA SendStoresStore ==
  ASSUME ChatAssumption, Store, NEW m \in Sent, SendStores(m) PROVE Store'
<1>1. /\ Insert(m) /\ row[m] = NoRow /\ torn' = torn \ {"head", "awaiting"}
      /\ UNCHANGED <<handler, history, web>> /\ m \in Msg /\ m \notin Mentions
  BY DEF SendStores, Mend, Msg, ChatAssumption
<1>2. /\ RowsOK' /\ conv' \in Conv
      /\ conv'.head = Newest(row', Stored(row')) /\ conv'.head \in Stored(row')
      /\ conv'.awaiting = Awaits(row')
      /\ conv.unread = Cardinality(Unread(row)) => conv'.unread = Cardinality(Unread(row'))
      /\ conv'.mentions = conv.mentions /\ Unseen(row') = Unseen(row)
  BY <1>1, Inserts DEF Store
<1>3. Kept'
  BY <1>1, <1>2
     DEF Store, Kept, HeadStored, UnreadAgrees, MentionsAgree, HeadIsNewest, AwaitingAgrees
<1> QED BY <1>2, <1>3 DEF Store

(* SetMessageOutcome: the row gets WhatsApp's time, and may no longer be    *)
(* the newest.                                                             *)
LEMMA OutcomeStore == ASSUME ChatAssumption, Store, Shape, SendOutcome PROVE Store'
<1> DEFINE m == sender.m
           x == [row[m] EXCEPT !.status = sender.s,
                               !.ts = IF sender.s = "sent" THEN Stamp[m] ELSE row[m].ts]
<1>1. m \in Msg /\ sender.s \in {"sent", "failed"} /\ UNCHANGED <<handler, history, web>>
  BY DEF SendOutcome, SenderOnly, Shape, Idle, Sending, Msg
<1>2. CASE row[m] = NoRow
  <2>1. UNCHANGED <<row, conv, torn>>
    BY <1>2 DEF SendOutcome, store
  <2> QED BY <1>1, <2>1, KeptQuiet DEF Store, RowsOK
<1>3. CASE row[m] # NoRow
  <2>1. /\ row' = [row EXCEPT ![m] = x] /\ conv' = RefreshHead(conv, row')
        /\ torn' = torn \ {"head", "awaiting"}
    BY <1>3 DEF SendOutcome, Mend
  <2>2. m \in Stored(row) /\ row[m] \in Row
    BY <1>1, <1>3 DEF Stored, Store, RowsOK
  <2>3. x \in Row /\ x.read = row[m].read /\ x.seen = row[m].seen /\ x.gone = row[m].gone
    <3>1. (IF sender.s = "sent" THEN Stamp[m] ELSE row[m].ts) \in Nat
      BY <1>1, <2>2 DEF ChatAssumption, Row
    <3> QED BY <1>1, <2>2, <3>1 DEF Row, Statuses
  <2> HIDE DEF x, m
  <2>4. /\ RowsOK' /\ Stored(row') # {} /\ Unread(row') = Unread(row)
        /\ Unseen(row') = Unseen(row)
    BY <2>1, <2>2, <2>3, OneRowChanges DEF Store
  <2>5. /\ conv' \in Conv /\ conv'.unread = conv.unread /\ conv'.mentions = conv.mentions
        /\ HeadStored' /\ HeadIsNewest' /\ AwaitingAgrees'
    BY <2>1, <2>4, HeadRefreshed DEF Store
  <2>6. UnreadAgrees' /\ MentionsAgree'
    BY <1>1, <2>1, <2>4, <2>5 DEF Store, Kept, UnreadAgrees, MentionsAgree
  <2> QED BY <2>4, <2>5, <2>6 DEF Store, Kept
<1> QED BY <1>2, <1>3

LEMMA SenderStore == ASSUME ChatAssumption, Store, Shape, Sender PROVE Store'
<1>1. CASE SendReadsFirst
  <2>1. UNCHANGED <<handler, history, web>>
    BY <1>1 DEF SendReadsFirst, SenderOnly
  <2>2. CASE UNCHANGED <<row, conv, torn>>
    BY <2>1, <2>2, KeptQuiet DEF Store, RowsOK
  <2>3. CASE ReadAll /\ torn' = torn \ {"unread"}
    BY <2>1, <2>3, ReadsAllKeeps DEF Store
  <2> QED BY <1>1, <2>2, <2>3 DEF SendReadsFirst, Mend, store
<1>2. CASE SendGoesOut
  <2>1. UNCHANGED <<row, conv, torn, handler, history, web>>
    BY <1>2 DEF SendGoesOut, SenderOnly, store
  <2> QED BY <2>1, KeptQuiet DEF Store, RowsOK
<1> QED BY <1>1, <1>2, OutcomeStore DEF Sender

----------------------------------------------------------------------------
(* Every step *)

LEMMA ChatInit == ASSUME ChatAssumption, Init PROVE ChatInv
<1>1. /\ row = [m \in Msg |-> NoRow] /\ conv = NoConv
      /\ left = Budget /\ Shape
  BY DEF Init, Shape, TornOK, Phone, Idle, Wheres, ChatAssumption
<1>2. RowsOK /\ Stored(row) = {} /\ Unread(row) = {} /\ Unseen(row) = {}
  BY <1>1 DEF RowsOK, Stored, Unread, Unseen
<1>3. Newest(row, Stored(row)) = NoMsg
  BY <1>2 DEF Newest
<1>4. Awaits(row) = FALSE
  <2>1. {m \in Stored(row) : row[m].gone # "hidden"} = {}
    BY <1>2
  <2>2. Newest(row, {m \in Stored(row) : row[m].gone # "hidden"}) = NoMsg
    BY <2>1 DEF Newest
  <2>3. NoMsg \notin Inbound
    BY DEF ChatAssumption, Msg
  <2> QED BY <2>2, <2>3 DEF Awaits
<1>5. conv \in Conv
  <2>1. 0 \in 0..Cardinality(Mentions)
    <3>1. Mentions \in SUBSET Msg
      BY DEF ChatAssumption, Msg
    <3> QED BY <3>1, FS_Subset, FS_CardinalityType DEF ChatAssumption
  <2> QED BY <1>1, <2>1 DEF NoConv, Conv
<1>6. Kept
  BY <1>1, <1>2, <1>3, <1>4, FS_EmptySet
     DEF NoConv, Kept, HeadStored, UnreadAgrees, MentionsAgree, HeadIsNewest, AwaitingAgrees
<1> QED BY <1>1, <1>2, <1>5, <1>6 DEF ChatInv

LEMMA ChatNext == ASSUME ChatAssumption, ChatInv, [Next]_vars PROVE ChatInv'
<1> USE DEF ChatInv
<1>0. Store /\ Shape
  BY DEF Store
<1>1. CASE Handler
  BY <1>0, <1>1, HandlerShape, HandlerStore DEF Store
<1>2. CASE ApplyPatch
  BY <1>0, <1>2, OtherShape, PatchStore DEF Store
<1>3. CASE History
  BY <1>0, <1>3, HistoryShape, HistoryStore DEF Store
<1>4. CASE Reconcile
  BY <1>0, <1>4, OtherShape, ReconcileStore DEF Store
<1>5. CASE Connect \/ WebStarts
  <2>1. Shape'
    BY <1>5, OtherShape
  <2>2. UNCHANGED <<row, conv, torn, handler, history>> /\ (web.pc = "recount" => web' = web)
    BY <1>5 DEF Connect, WebStarts, WebOnly, At, store, ghosts
  <2> QED BY <1>0, <2>1, <2>2, KeptQuiet DEF RowsOK
<1>6. CASE Outside
  BY <1>0, <1>6, OutsideShape, OutsideStore DEF Store
<1>7. CASE Web
  BY <1>0, <1>7, WebShape, WebStore DEF Store
<1>8. CASE WebHide
  BY <1>0, <1>8, OtherShape, HideStore DEF Store
<1>9. CASE Prune
  BY <1>0, <1>9, OtherShape, PruneStore DEF Store
<1>10. CASE Sender
  BY <1>0, <1>10, SenderShape, SenderStore DEF Store
<1>11. CASE \E m \in Sent : SendStores(m)
  <2>1. Shape'
    BY <1>0, <1>11, OtherShape
  <2>2. Store'
    BY <1>0, <1>11, SendStoresStore
  <2> QED BY <2>1, <2>2 DEF Store
<1>12. CASE UNCHANGED vars
  <2>1. UNCHANGED <<row, conv, torn, handler, history, web, phone, wire, patches, left, online,
                    connect, sender>>
    BY <1>12 DEF vars, procs, ghosts
  <2>2. Shape'
    BY <2>1 DEF Shape, TornOK
  <2> QED BY <1>0, <2>1, <2>2, KeptQuiet DEF RowsOK
<1> QED BY <1>1, <1>2, <1>3, <1>4, <1>5, <1>6, <1>7, <1>8, <1>9, <1>10, <1>11, <1>12 DEF Next

(* The inductive invariant of the conversation. *)
THEOREM ChatInductive == ASSUME ChatAssumption PROVE Spec => []ChatInv
<1>1. Init => ChatInv
  BY ChatInit
<1>2. ChatInv /\ [Next]_vars => ChatInv'
  BY ChatNext
<1> QED BY <1>1, <1>2, PTL DEF Spec

(* What the invariant promises. *)
LEMMA ChatPromises == ASSUME ChatInv PROVE TypeOK /\ CountersAgree /\ HeadAgrees
<1>1. TypeOK
  BY DEF ChatInv, Shape, TypeOK, RowsOK, TornOK
<1>2. CountersAgree
  BY DEF ChatInv, Kept, UnreadAgrees, MentionsAgree, CountersAgree
<1>3. HeadAgrees
  BY DEF ChatInv, Kept, HeadIsNewest, AwaitingAgrees, HeadAgrees
<1> QED BY <1>1, <1>2, <1>3

(* The shape of the conversation, its rows and the handlers.               *)
THEOREM ChatTypes == ASSUME ChatAssumption PROVE Spec => []TypeOK
<1>1. ChatInv => TypeOK
  BY ChatPromises
<1> QED BY <1>1, ChatInductive, PTL

(* The unread and the mention badge are what the stored rows say, whatever *)
(* live messages, receipts, backfill and requests interleave, outside the  *)
(* steps the code leaves torn (RecomputeConversationUnread,                *)
(* RefreshMentionCount).                                                   *)
THEOREM CountersStayRight == ASSUME ChatAssumption PROVE Spec => []CountersAgree
<1>1. ChatInv => CountersAgree
  BY ChatPromises
<1> QED BY <1>1, ChatInductive, PTL

(* The head is the newest stored message, and the waiting badge is on      *)
(* exactly when the customer spoke last and is unread, in whatever order   *)
(* of local and WhatsApp's time rows were written (RefreshConversationHead). *)
THEOREM HeadStaysNewest == ASSUME ChatAssumption PROVE Spec => []HeadAgrees
<1>1. ChatInv => HeadAgrees
  BY ChatPromises
<1> QED BY <1>1, ChatInductive, PTL
=============================================================================
