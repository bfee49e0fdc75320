------------------------------ MODULE Contacts ------------------------------
(***************************************************************************)
(* One person in the address book of one number.  WhatsApp calls the       *)
(* person "N", by number, or "L", by LID, and may not say at first that    *)
(* the two are one.                                                        *)
(*                                                                         *)
(* row      contacts: the address, whether lid_jid is set, the number,     *)
(*          "0N" being one from before numbers were normalised             *)
(* made     rows inserted so far; an id is not used again                  *)
(* mapped   the LID's number is known (whatsmeow's map)                    *)
(* thread   conversations by chat_jid: the contact, and whether pn_jid is  *)
(*          filled in                                                      *)
(* target   the contact of a campaign recipient, {} as long as there is no  *)
(*          recipient, {None} when its contact was deleted                 *)
(* state    the contacts with a contact_label_state row, one row each      *)
(* job      what the session's handler, the sync and an operator are at;   *)
(*          alone until somebody else writes to the address book           *)
(* lost, deleted   a message not stored; an operator deleted a contact     *)
(*                                                                         *)
(* Names are left out.  Bounds: MaxRows inserts, MaxActs beginnings.       *)
(***************************************************************************)
EXTENDS Integers, FiniteSets

CONSTANTS MaxRows, MaxActs, None

ContactsAssumption ==
    /\ MaxRows \in Nat /\ MaxActs \in Nat
    /\ None \notin 1..MaxRows /\ None \notin {"N", "0N", "L"}

VARIABLES row, made, mapped, thread, target, state, job, lost, deleted, acts

vars == <<row, made, mapped, thread, target, state, job, lost, deleted, acts>>
links == <<thread, target, state>>
world == <<mapped, lost, deleted, acts>>

Id == 1..MaxRows
Address == {"N", "L"}
Actor == {"handler", "sync", "admin"}
NoRow == [jid |-> None, lid |-> FALSE, phone |-> None]
NoThread == [exists |-> FALSE, contact |-> None, pn |-> FALSE]
Idle == [at |-> "idle", alone |-> TRUE]

Lives(i) == row[i] # NoRow
Live == {i \in Id : Lives(i)}
WithPhone(p) == {i \in Live : row[i].phone = p}

\* k goes on as r says; the others are no longer alone if contacts changed.
Goes(k, r) ==
    job' = [j \in Actor |->
              IF j = k THEN r ELSE [job[j] EXCEPT !.alone = @ /\ row' = row]]
At(k, at) == [job[k] EXCEPT !.at = at]
Begins == acts < MaxActs /\ acts' = acts + 1

-----------------------------------------------------------------------------
(* UpsertContact *)

\* A LID whose number is not known says nothing of the number.
Caller(at, via) ==
    [at |-> "find", then |-> at, via |-> via, tries |-> 1, id |-> None, keep |-> None,
     phone |-> IF via = "N" \/ mapped THEN "N" ELSE None, alone |-> TRUE]

Matches(k) ==
    {i \in Live : \/ row[i].jid = job[k].via
                  \/ job[k].via = "L" /\ row[i].lid
                  \/ job[k].phone # None /\ row[i].phone = job[k].phone}
Candidates_any(k) == Matches(k)
Candidates(k) ==
    LET exact == {i \in Matches(k) : row[i].jid = job[k].via} IN
    IF exact # {} THEN exact ELSE Matches(k)

FindContact(k) ==
    /\ job[k].at = "find"
    /\ UNCHANGED row
    /\ IF Matches(k) = {} THEN Goes(k, At(k, "insert"))
       ELSE \E i \in Candidates(k) : Goes(k, [At(k, "enrich") EXCEPT !.id = i])
    /\ UNCHANGED <<made, links, world>>

Returns(k, id) == Goes(k, [At(k, job[k].then) EXCEPT !.id = id])

Enriched(k, i) ==
    [row[i] EXCEPT !.phone = IF @ = None THEN job[k].phone ELSE @,
                   !.lid = @ \/ job[k].via = "L"]
\* An update of a row that is gone changes nothing and is no error.
EnrichContact(k) ==
    LET i == job[k].id
        taken == Lives(i) /\ Enriched(k, i).phone # row[i].phone
                          /\ WithPhone(job[k].phone) # {} IN
    /\ job[k].at = "enrich"
    /\ IF Lives(i) /\ ~taken THEN row' = [row EXCEPT ![i] = Enriched(k, i)] ELSE UNCHANGED row
    /\ IF taken THEN Goes(k, At(k, "keep")) ELSE Returns(k, i)
    /\ UNCHANGED <<made, links, world>>

\* MergeByPhone: the row that holds the number is kept.
FindKeep(k) ==
    LET others == WithPhone(job[k].phone) \ {job[k].id} IN
    /\ job[k].at = "keep"
    /\ UNCHANGED row
    /\ IF others = {} THEN Returns(k, job[k].id)
       ELSE \E i \in others : Goes(k, [At(k, "merge") EXCEPT !.keep = i])
    /\ UNCHANGED <<made, links, world>>

Insert(new) ==
    /\ made < MaxRows
    /\ made' = made + 1
    /\ row' = [row EXCEPT ![made + 1] = new]
Refused(new) == \E i \in Live : row[i].jid = new.jid \/ (new.phone # None /\ row[i].phone = new.phone)

InsertContact(k) ==
    LET new == [jid |-> job[k].via, lid |-> job[k].via = "L", phone |-> job[k].phone] IN
    /\ job[k].at = "insert"
    /\ \/ ~Refused(new) /\ Insert(new) /\ Returns(k, made + 1)
       \/ /\ Refused(new) /\ UNCHANGED <<row, made>>
          /\ IF job[k].tries = 1 THEN Goes(k, [At(k, "find") EXCEPT !.tries = 2])
             ELSE Returns(k, None)
    /\ UNCHANGED <<links, world>>

-----------------------------------------------------------------------------
(* Merging: what points at d points at w afterwards. *)

PointsAt(d) == (\E a \in Address : thread[a].contact = d) \/ d \in target \/ d \in state
\* What pointed at d points at nobody, or is gone with it.
LetGo(d) ==
    /\ thread' = [a \in Address |-> IF thread[a].contact = d
                                    THEN [thread[a] EXCEPT !.contact = None] ELSE thread[a]]
    /\ target' = {IF t = d THEN None ELSE t : t \in target}
    /\ state' = state \ {d}

Move_not(d, w) == LetGo(d)

Move(d, w) ==
    /\ thread' = [a \in Address |-> IF thread[a].contact = d
                                    THEN [thread[a] EXCEPT !.contact = w] ELSE thread[a]]
    /\ target' = {IF t = d THEN w ELSE t : t \in target}
    /\ state' = IF d \in state THEN (state \ {d}) \cup {w} ELSE state

\* What w becomes when it takes d in: it keeps its own number if it has one.
Absorbs(w, d) ==
    IF Lives(w) /\ Lives(d)
    THEN [row[w] EXCEPT !.lid = @ \/ row[d].lid \/ row[d].jid = "L",
                        !.phone = IF @ = None THEN row[d].phone ELSE @]
    ELSE row[w]

\* merge_contact_rows(keep, drop). A kept row that is gone takes no references.
MergeContactRows(k) ==
    LET d == job[k].id w == job[k].keep IN
    /\ job[k].at = "merge"
    /\ IF ~Lives(w) /\ PointsAt(d)
       THEN UNCHANGED <<row, links>> /\ Returns(k, None)
       ELSE /\ Move(d, w)
            /\ row' = [row EXCEPT ![d] = NoRow, ![w] = Absorbs(w, d)]
            /\ Goes(k, [At(k, "enrich") EXCEPT !.id = w])
    /\ UNCHANGED <<made, world>>

-----------------------------------------------------------------------------
(* A message, and the directory sync *)

HandleMessage(via, fromMe) ==
    /\ job["handler"].at = "idle" /\ Begins
    /\ UNCHANGED row
    /\ Goes("handler", IF fromMe THEN [Caller("thread", via) EXCEPT !.at = "thread"]
                       ELSE Caller("thread", via))
    /\ UNCHANGED <<made, links, mapped, lost, deleted>>

\* findConversation: by the address, or by the number behind it.
ThreadOf(via, pn) ==
    IF thread[via].exists THEN via
    ELSE CASE pn /\ via = "L" /\ thread["N"].exists -> "N"
           [] pn /\ via = "N" /\ thread["L"].exists /\ thread["L"].pn -> "L"
           [] OTHER -> via

\* UpsertConversation, then InsertMessage: a contact that is gone is refused.
StoreMessage ==
    LET j == job["handler"] pn == j.phone # None a == ThreadOf(j.via, pn)
        old == thread[a] IN
    /\ j.at = "thread"
    /\ IF j.id # None /\ ~Lives(j.id)
       THEN lost' = TRUE /\ UNCHANGED thread
       ELSE /\ thread' = [thread EXCEPT ![a] =
                            [exists |-> TRUE, pn |-> old.pn \/ pn,
                             contact |-> IF j.id # None THEN j.id ELSE old.contact]]
            /\ UNCHANGED lost
    /\ UNCHANGED row /\ Goes("handler", Idle)
    /\ UNCHANGED <<made, target, state, mapped, deleted, acts>>

\* An entry by LID without a number is skipped.
SyncDirectory(via) ==
    /\ job["sync"].at = "idle" /\ Begins
    /\ via = "N" \/ mapped
    /\ UNCHANGED row
    /\ Goes("sync", Caller("link", via))
    /\ UNCHANGED <<made, links, mapped, lost, deleted>>

LinkConversationsToContacts ==
    /\ job["sync"].at = "link"
    /\ thread' = [a \in Address |->
                    LET named == {i \in Live : row[i].jid = a} IN
                    IF thread[a].exists /\ named # {}
                    THEN [thread[a] EXCEPT !.contact = CHOOSE i \in named : TRUE]
                    ELSE thread[a]]
    /\ UNCHANGED row /\ Goes("sync", Idle)
    /\ UNCHANGED <<made, target, state, world>>

-----------------------------------------------------------------------------
(* The operator *)

Canonical == [jid |-> "N", lid |-> FALSE, phone |-> "N"]
ImportContacts ==
    /\ job["admin"].at = "idle" /\ Begins
    /\ UNCHANGED row
    /\ IF WithPhone("N") # {} THEN UNCHANGED job
       ELSE Goes("admin", [Idle EXCEPT !.at = "import"])
    /\ UNCHANGED <<made, links, mapped, lost, deleted>>
ImportInserts ==
    /\ job["admin"].at = "import"
    /\ IF Refused(Canonical) THEN UNCHANGED <<row, made>> ELSE Insert(Canonical)
    /\ Goes("admin", Idle)
    /\ UNCHANGED <<links, world>>

Fold(at, listed, left) ==
    [at |-> at, alone |-> TRUE, listed |-> listed, left |-> left]
MergeDuplicateContacts ==
    LET listed == {i \in Live : row[i].phone # None} IN
    /\ job["admin"].at = "idle" /\ Begins
    /\ UNCHANGED row
    /\ Goes("admin", Fold("normalise", listed, {i \in listed : row[i].phone # "N"}))
    /\ UNCHANGED <<made, links, mapped, lost, deleted>>

\* A number is rewritten unless another row holds it already.
Normalise ==
    /\ job["admin"].at = "normalise"
    /\ \/ \E i \in job["admin"].left :
            /\ row' = IF Lives(i) /\ WithPhone("N") = {}
                      THEN [row EXCEPT ![i].phone = "N"] ELSE row
            /\ Goes("admin", [job["admin"] EXCEPT !.left = @ \ {i}])
       \/ /\ job["admin"].left = {} /\ UNCHANGED row
          /\ IF Cardinality(job["admin"].listed) < 2 THEN Goes("admin", Idle)
             ELSE \E w \in job["admin"].listed :
                    Goes("admin", [at |-> "fold", alone |-> job["admin"].alone, winner |-> w,
                                   left |-> job["admin"].listed \ {w}])
    /\ UNCHANGED <<made, links, world>>

MergeContactInto(l) ==
    LET j == job["admin"] w == j.winner IN
    /\ j.at = "fold" /\ l \in j.left
    /\ IF ~Lives(w) /\ PointsAt(l)
       THEN UNCHANGED <<row, links>> /\ Goes("admin", Idle)
       ELSE /\ Move(l, w)
            /\ row' = [row EXCEPT ![l] = NoRow,
                         ![w].lid = IF Lives(w) THEN @ \/ row[l].lid ELSE @]
            /\ Goes("admin", IF j.left = {l} THEN [Idle EXCEPT !.alone = j.alone]
                             ELSE [j EXCEPT !.left = @ \ {l}])
    /\ UNCHANGED <<made, world>>

DeleteContacts(i) ==
    /\ Lives(i) /\ Begins
    /\ row' = [row EXCEPT ![i] = NoRow]
    /\ LetGo(i)
    /\ deleted' = TRUE
    /\ job' = [j \in Actor |-> [job[j] EXCEPT !.alone = FALSE]]
    /\ UNCHANGED <<made, mapped, lost>>

-----------------------------------------------------------------------------
LearnMapping == ~mapped /\ mapped' = TRUE /\ UNCHANGED <<row, made, links, job, lost, deleted, acts>>
\* A campaign takes up the contact, a label is put on it.
RefersTo(i) ==
    /\ Lives(i) /\ Begins
    /\ \/ target = {} /\ target' = {i} /\ UNCHANGED state
       \/ i \notin state /\ state' = state \cup {i} /\ UNCHANGED target
    /\ UNCHANGED <<row, made, mapped, thread, job, lost, deleted>>

Init ==
    /\ \E old \in {<<>>, <<"0N">>, <<"0N", "N">>, <<"N", "0N">>} :
         /\ made = IF old = <<>> THEN 0 ELSE IF old = <<"0N">> THEN 1 ELSE 2
         /\ row = [i \in Id |-> IF i > made THEN NoRow
                                ELSE [jid |-> old[i], lid |-> FALSE, phone |-> old[i]]]
    /\ mapped \in BOOLEAN
    /\ thread = [a \in Address |-> NoThread] /\ target = {} /\ state = {}
    /\ job = [k \in Actor |-> Idle]
    /\ lost = FALSE /\ deleted = FALSE /\ acts = 0

Upsert(k) ==
    \/ FindContact(k) \/ EnrichContact(k) \/ FindKeep(k) \/ InsertContact(k)
    \/ MergeContactRows(k)
Next ==
    \/ \E k \in {"handler", "sync"} : Upsert(k)
    \/ \E via \in Address :
          SyncDirectory(via) \/ \E fromMe \in BOOLEAN : HandleMessage(via, fromMe)
    \/ StoreMessage \/ LinkConversationsToContacts
    \/ ImportContacts \/ ImportInserts
    \/ MergeDuplicateContacts \/ Normalise
    \/ \E i \in Id : MergeContactInto(i) \/ DeleteContacts(i) \/ RefersTo(i)
    \/ LearnMapping

Spec == Init /\ [][Next]_vars

-----------------------------------------------------------------------------
NobodyLeftBehind ==
    ~deleted' => /\ None \notin target'
                 /\ state # {} => state' # {}
                 /\ \A a \in Address : thread[a].contact # None => thread'[a].contact # None

(* "Every reference repointed": merging two rows of a person, by an event  *)
(* or by the operator, at any moment of the other's work, loses neither    *)
(* the campaign recipient nor the label history that hangs on them.        *)
HistoryFollowsThePerson == [][NobodyLeftBehind]_vars

Numbered == {i \in Live : row[i].phone \in {"N", None}}
Resolves(k) ==
    /\ job[k].at \in {"enrich", "insert", "keep"} /\ job'[k].at \in {"thread", "link"}
    /\ job[k].via = "L" /\ job[k].phone = "N" /\ job[k].alone
OneRowLeft == \A k \in {"handler", "sync"} : Resolves(k) => Cardinality(Numbered') <= 1

(* "Which is what stops the next sync from opening a second row": an event *)
(* that names the person by LID, with the number known, and that nobody    *)
(* interferes with, leaves one row at most for the person, however many    *)
(* there were (UpsertContact, mergeByPhone).                               *)
KnownPersonHasOneRow == [][OneRowLeft]_vars

(* "Every number is first rewritten into the one shape": once duplicates   *)
(* are merged, undisturbed, no row is left with a number nobody can use    *)
(* (MergeDuplicateContacts).                                               *)
MergeLeavesOneShape ==
    [][job["admin"].at \in {"normalise", "fold"} /\ job'["admin"].at = "idle" /\ job["admin"].alone
         => \A i \in Id : row'[i].phone # "0N"]_vars

(* "persistMessage stores one message": a message that arrives is stored,  *)
(* whatever happens to the person's rows meanwhile.                        *)
NoMessageIsLost == ~lost
=============================================================================
