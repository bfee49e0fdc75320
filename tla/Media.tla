------------------------------- MODULE Media --------------------------------
(***************************************************************************)
(* The files of the inbox: attachment rows, the table that says where each *)
(* content is stored, and the bucket.                                      *)
(*                                                                         *)
(* A file that arrives with sixty messages is stored once, under a key     *)
(* made of its content.  Who touches it, with no lock but the statement:   *)
(*   - fetchers: queueDownload's goroutines and the requests that open an  *)
(*     attachment, all of them running EnsureStored;                       *)
(*   - the janitor, which expires what is past its account's window;       *)
(*   - whoever deletes rows: revoke, hide, clear, delete, prune;           *)
(*   - requests that send a file, retried under one client token.          *)
(* The bucket is not the database: its steps are never in a transaction.   *)
(***************************************************************************)
EXTENDS Integers, FiniteSets

CONSTANTS
  In,        \* attachments of incoming messages
  Out,       \* outgoing file messages, one per client token
  File,      \* contents, which are also the by-hash keys
  Content,   \* the content of each incoming attachment
  Hashed,    \* the incoming attachments whose SHA-256 WhatsApp gave
  Story,     \* the incoming attachments of Status posts
  Fetcher,   \* goroutines and requests that may run EnsureStored
  Request,   \* requests that send a file
  Token,     \* the outgoing message each request is about
  Budgets,   \* how often each thing outside the program happens: one is chosen
  NoKey

MediaAssumption ==
  /\ Content \in [In -> File] /\ Token \in [Request -> Out]
  /\ Hashed \subseteq In /\ Story \subseteq In
  /\ In \cap Out = {} /\ (In \cup Out) \cap File = {}

VARIABLES
  att,      \* public.message_attachments and whatsapp_media_refs
  objects,  \* public.media_objects: the contents that have a row
  bucket,   \* the keys the store holds
  msg,      \* the rows of the outgoing messages
  fetch,    \* each fetcher in EnsureStored
  janitor,  \* sweepExpiredMedia
  deleter,  \* the request or handler that deletes rows
  req,      \* each request in SendMedia
  online,   \* Session.IsConnected
  old,      \* attachments whose message is past the retention window
  wire,     \* (history) the message ids WhatsApp was given for each token
  cut,      \* (history) keys a failure left behind, or a download put back in a sweep
  cleared,  \* (history) outgoing messages whose row was deleted
  left      \* what is left of the budget

rows == <<att, objects, msg>>
procs == <<fetch, janitor, deleter, req>>
world == <<online, old, wire, cut, cleared>>
vars == <<rows, bucket, procs, world, left>>

Att == In \cup Out
Key == File \cup Att
Statuses == {"pending", "uploading", "stored", "failed", "expired"}
NoAtt == [st |-> "none", path |-> NoKey, ref |-> FALSE]
NoMsg == [st |-> "none", id |-> NoKey]
Idle == [pc |-> "idle"]

(* hashStorageKey, or storageKey for a file without a hash *)
KeyOf(a) == IF a \in Hashed THEN Content[a] ELSE a
Exists(a) == att[a] # NoAtt
Stored(a) == att[a].st = "stored" /\ att[a].path # NoKey
Users(k) == {a \in Att : att[a].path = k}

(* UPDATE message_attachments WHERE id = a: no row, no change *)
SetStatus(a, s) == att' = [att EXCEPT ![a] = IF @ = NoAtt THEN @ ELSE [@ EXCEPT !.st = s]]
SetStored(a, k) ==
  att' = [att EXCEPT ![a] = IF @ = NoAtt THEN @ ELSE [@ EXCEPT !.st = "stored", !.path = k]]

Spend(k) == /\ left[k] > 0 /\ left.all > 0
            /\ left' = [left EXCEPT ![k] = @ - 1, !.all = @ - 1]

----------------------------------------------------------------------------
(* Incoming files *)

(***************************************************************************)
(* recordAttachment, for a live message and for history alike: the row is  *)
(* made once, the download material is written again unless it is stored.  *)
(***************************************************************************)
RecordAttachment(a) ==
  /\ Spend("records")
  /\ ~Stored(a)
  /\ att' = [att EXCEPT ![a] = IF @ = NoAtt THEN [st |-> "pending", path |-> NoKey, ref |-> TRUE]
                               ELSE [@ EXCEPT !.ref = TRUE]]
  /\ UNCHANGED <<objects, msg, bucket, procs, world>>

Ages(a) ==
  /\ Exists(a) /\ a \notin old
  /\ old' = old \cup {a}
  /\ UNCHANGED <<rows, bucket, procs, online, wire, cut, cleared, left>>

FetchStep(f, r) == fetch' = [fetch EXCEPT ![f] = r]
FetchOnly == UNCHANGED <<msg, janitor, deleter, req, world, left>>

(* EnsureStored begins: what is stored or expired needs nothing. *)
Locate(f, a) ==
  /\ fetch[f] = Idle /\ Exists(a) /\ ~Stored(a) /\ att[a].st # "expired"
  /\ Spend("opens")
  /\ FetchStep(f, [pc |-> "ref", a |-> a])
  /\ UNCHANGED <<rows, bucket, janitor, deleter, req, world>>

(* GetMediaRef *)
ReadRef(f) ==
  /\ fetch[f].pc = "ref"
  /\ FetchStep(f, IF att[fetch[f].a].ref THEN [fetch[f] EXCEPT !.pc = "claim"] ELSE Idle)
  /\ UNCHANGED <<att, objects, bucket>> /\ FetchOnly

(***************************************************************************)
(* ClaimStoredObject, the three times EnsureStored calls it: before asking *)
(* for a session, before downloading, and after registering.  The lookup   *)
(* and the update are one transaction.  A claim after registering that     *)
(* finds nothing leaves the row as it is.                                  *)
(***************************************************************************)
ClaimStoredObject(f) ==
  LET a == fetch[f].a IN
  /\ fetch[f].pc \in {"claim", "claim2", "claim3"}
  /\ IF a \in Hashed /\ Content[a] \in objects
     THEN SetStored(a, KeyOf(a)) /\ FetchStep(f, Idle)
     ELSE /\ FetchStep(f, CASE fetch[f].pc = "claim"  -> [fetch[f] EXCEPT !.pc = "begin"]
                            [] fetch[f].pc = "claim2" -> [fetch[f] EXCEPT !.pc = "fetch"]
                            [] fetch[f].pc = "claim3" -> Idle)
          /\ UNCHANGED att
  /\ UNCHANGED <<objects, bucket>> /\ FetchOnly

(* Without a session nothing is written; with one, the status is, whatever *)
(* it has become.                                                           *)
BeginDownload(f) ==
  /\ fetch[f].pc = "begin"
  /\ IF online
     THEN SetStatus(fetch[f].a, "uploading") /\ FetchStep(f, [fetch[f] EXCEPT !.pc = "claim2"])
     ELSE UNCHANGED att /\ FetchStep(f, Idle)
  /\ UNCHANGED <<objects, bucket>> /\ FetchOnly

(* WhatsApp gives the bytes, or the row is marked failed. *)
Download(f) ==
  /\ fetch[f].pc = "fetch"
  /\ \/ /\ FetchStep(f, [fetch[f] EXCEPT !.pc = "upload"]) /\ UNCHANGED <<att, left>>
     \/ /\ Spend("fails") /\ SetStatus(fetch[f].a, "failed") /\ FetchStep(f, Idle)
  /\ UNCHANGED <<objects, bucket, msg, janitor, deleter, req, world>>

(* The sweep may have removed the same file and be about to mark its rows.  *)
UploadBytes(f) ==
  LET k == KeyOf(fetch[f].a) IN
  /\ fetch[f].pc = "upload"
  /\ bucket' = bucket \cup {k}
  /\ FetchStep(f, [fetch[f] EXCEPT !.pc = IF fetch[f].a \in Hashed THEN "register" ELSE "mark"])
  /\ cut' = cut \cup (IF janitor.pc = "expire" THEN {k} \cap janitor.keys ELSE {})
  /\ UNCHANGED <<att, objects, msg, janitor, deleter, req, online, old, wire, cleared, left>>

(* Mutant: the insert is lost. *)
Registered_lost(a) == {}

Registered(a) == {Content[a]}

RegisterStoredObject(f) ==
  /\ fetch[f].pc = "register"
  /\ objects' = objects \cup Registered(fetch[f].a)
  /\ FetchStep(f, [fetch[f] EXCEPT !.pc = "claim3"])
  /\ UNCHANGED <<att, bucket>> /\ FetchOnly

MarkAttachmentStored(f) ==
  /\ fetch[f].pc = "mark"
  /\ SetStored(fetch[f].a, KeyOf(fetch[f].a)) /\ FetchStep(f, Idle)
  /\ UNCHANGED <<objects, bucket>> /\ FetchOnly

(* The three minutes are over, or the reader left: even the row that says   *)
(* so is not written, since the context that would write it has ended.      *)
Abandon(f) ==
  /\ fetch[f] # Idle /\ Spend("faults")
  /\ FetchStep(f, Idle)
  /\ cut' = cut \cup (IF fetch[f].pc \in {"register", "claim3", "mark"} THEN {KeyOf(fetch[f].a)} ELSE {})
  /\ UNCHANGED <<rows, bucket, janitor, deleter, req, online, old, wire, cleared>>

----------------------------------------------------------------------------
(* Letting files go *)

(* Mutant: an attachment of another message does not keep the file. *)
Free_shared(keys, ignore) == {k \in keys : TRUE}

(* Mutant: the rows about to expire keep their own file. *)
Free_self(keys, ignore) == {k \in keys : Users(k) = {}}

(* ReleaseStorageObjects: the keys no row outside ignore points at *)
Free(keys, ignore) == {k \in keys : Users(k) \subseteq ignore}

JanitorOnly == UNCHANGED <<msg, fetch, deleter, req, online, old, wire, cleared>>

(* AttachmentsPastRetention and ExpiredStatusAttachments *)
Sweepable == {a \in Att \cap old : Stored(a) \/ (a \in Story /\ att[a].path # NoKey)}

JanitorSelects ==
  /\ janitor = Idle /\ Sweepable # {}
  /\ janitor' = [pc |-> "release", ids |-> Sweepable, keys |-> {att[a].path : a \in Sweepable}]
  /\ UNCHANGED <<att, objects, bucket, cut, left>> /\ JanitorOnly

(* A database that does not answer skips the removal, not the settling. *)
JanitorReleases ==
  /\ janitor.pc = "release"
  /\ LET free == Free(janitor.keys, janitor.ids) IN
     \/ /\ objects' = objects \ free
        /\ janitor' = [janitor EXCEPT !.pc = "remove", !.keys = free]
        /\ UNCHANGED <<cut, left>>
     \/ /\ Spend("faults")
        /\ janitor' = [janitor EXCEPT !.pc = "expire"]
        /\ cut' = cut \cup janitor.keys
        /\ UNCHANGED objects
  /\ UNCHANGED <<att, bucket>> /\ JanitorOnly

(* removeStoredObjects: a store that refuses is only logged. *)
JanitorRemoves ==
  /\ janitor.pc = "remove"
  /\ janitor' = [janitor EXCEPT !.pc = "expire"]
  /\ \/ bucket' = bucket \ janitor.keys /\ UNCHANGED <<cut, left>>
     \/ Spend("faults") /\ cut' = cut \cup janitor.keys /\ UNCHANGED bucket
  /\ UNCHANGED <<att, objects>> /\ JanitorOnly

(* Mutant: a status the column does not know. *)
Expired_misspelt(r) == IF r = NoAtt THEN r ELSE [st |-> "removed", path |-> NoKey, ref |-> FALSE]

Expired(r) == IF r = NoAtt THEN r ELSE [st |-> "expired", path |-> NoKey, ref |-> FALSE]

MarkAttachmentsExpired ==
  /\ janitor.pc = "expire"
  /\ att' = [a \in Att |-> IF a \in janitor.ids THEN Expired(att[a]) ELSE att[a]]
  /\ janitor' = Idle
  /\ UNCHANGED <<objects, bucket, cut, left>> /\ JanitorOnly

DeleterOnly == UNCHANGED <<fetch, janitor, req, online, old, wire>>
Paths(S) == {att[a].path : a \in S} \ {NoKey}
WithoutRows(S) == /\ att' = [a \in Att |-> IF a \in S THEN NoAtt ELSE att[a]]
                  /\ msg' = [o \in Out |-> IF o \in S THEN NoMsg ELSE msg[o]]
                  /\ cleared' = cleared \cup (S \cap Out)

(* RevokeMessage, HideMessage, ClearConversationMessages, DeleteConversation: *)
(* the paths are read in the transaction that deletes the rows.               *)
DeleteRows(a) ==
  /\ deleter = Idle /\ Exists(a) /\ Spend("deletes")
  /\ WithoutRows({a})
  /\ deleter' = [pc |-> "release", keys |-> Paths({a})]
  /\ UNCHANGED <<objects, bucket, cut>> /\ DeleterOnly

(* SyncAccount's prune: StoragePathsOlderThan and PruneMessagesOlderThan *)
PruneLists ==
  /\ deleter = Idle /\ \E a \in old : Exists(a)
  /\ Spend("deletes")
  /\ deleter' = [pc |-> "prune", keys |-> Paths(old)]
  /\ UNCHANGED <<rows, bucket, cut, cleared>> /\ DeleterOnly

Prune ==
  /\ deleter.pc = "prune"
  /\ WithoutRows(old)
  /\ deleter' = [deleter EXCEPT !.pc = "release"]
  /\ UNCHANGED <<objects, bucket, cut, left>> /\ DeleterOnly

DeleterReleases ==
  /\ deleter.pc = "release"
  /\ objects' = objects \ Free(deleter.keys, {})
  /\ deleter' = [pc |-> "remove", keys |-> Free(deleter.keys, {})]
  /\ UNCHANGED <<att, msg, bucket, cut, cleared, left>> /\ DeleterOnly

DeleterRemoves ==
  /\ deleter.pc = "remove"
  /\ bucket' = bucket \ deleter.keys
  /\ deleter' = Idle
  /\ UNCHANGED <<rows, cut, cleared, left>> /\ DeleterOnly

----------------------------------------------------------------------------
(* Outgoing files: SendMedia *)

ReqStep(q, r) == req' = [req EXCEPT ![q] = r]
ReqOnly == UNCHANGED <<fetch, janitor, deleter, online, old, cut, cleared>>
Continue(r, attached) ==
  IF r.st \in {"pending", "failed"} THEN [pc |-> "store", attached |-> attached, id |-> r.id]
  ELSE Idle

(* claimOutgoing looks the token up. *)
SendStarts(q) ==
  LET o == Token[q] IN
  /\ req[q] = Idle /\ online /\ Spend("sends")
  /\ ReqStep(q, IF msg[o] = NoMsg THEN [pc |-> "insert"]
                ELSE IF Exists(o) THEN Continue(msg[o], TRUE) ELSE [pc |-> "attach"])
  /\ UNCHANGED <<rows, bucket, wire>> /\ ReqOnly

(* Mutant: no unique index on the token. *)
TokenTaken_never(o) == FALSE

(* uq_messages_client_token *)
TokenTaken(o) == msg[o] # NoMsg

(***************************************************************************)
(* InsertMessage under the client token: the loser of a race goes on with  *)
(* the winner's row, whose attachment may not be there yet.                *)
(***************************************************************************)
SendInserts(q) ==
  LET o == Token[q] IN
  /\ req[q].pc = "insert"
  /\ IF TokenTaken(o)
     THEN UNCHANGED msg /\ ReqStep(q, Continue(msg[o], Exists(o)))
     ELSE /\ msg' = [msg EXCEPT ![o] = [st |-> "pending", id |-> q]]
          /\ ReqStep(q, [pc |-> "attach"])
  /\ UNCHANGED <<att, objects, bucket, wire, left>> /\ ReqOnly

(* insertOutgoingAttachment: once per message; none for a row that has gone *)
SendAttaches(q) ==
  LET o == Token[q] IN
  /\ req[q].pc = "attach"
  /\ UNCHANGED msg
  /\ IF msg[o] = NoMsg THEN UNCHANGED att /\ ReqStep(q, Idle)
     ELSE /\ att' = IF Exists(o) THEN att
                    ELSE [att EXCEPT ![o] = [st |-> "uploading", path |-> NoKey, ref |-> FALSE]]
          /\ ReqStep(q, Continue(msg[o], TRUE))
  /\ UNCHANGED <<objects, bucket, wire, left>> /\ ReqOnly

(* Mutant: the message goes out before its file is kept. *)
AfterCheck_later(r, stored) == [r EXCEPT !.pc = "send"]

AfterCheck(r, stored) == [r EXCEPT !.pc = IF stored THEN "send" ELSE "upload"]

(* storeOutgoing: nothing to do for an attachment that is stored *)
SendChecksFile(q) ==
  /\ req[q].pc = "store"
  /\ ReqStep(q, AfterCheck(req[q], req[q].attached /\ att[Token[q]].st = "stored"))
  /\ UNCHANGED <<rows, bucket, wire, left>> /\ ReqOnly

SendUploads(q) ==
  /\ req[q].pc = "upload"
  /\ bucket' = bucket \cup {Token[q]}
  /\ ReqStep(q, [req[q] EXCEPT !.pc = IF req[q].attached THEN "mark" ELSE "send"])
  /\ UNCHANGED <<rows, wire, left>> /\ ReqOnly

SendMarks(q) ==
  /\ req[q].pc = "mark"
  /\ SetStored(Token[q], Token[q])
  /\ ReqStep(q, [req[q] EXCEPT !.pc = "send"])
  /\ UNCHANGED <<objects, msg, bucket, wire, left>> /\ ReqOnly

(* WhatsApp takes the message, or the send fails: the answer may be lost.  *)
SendGoesOut(q) ==
  /\ req[q].pc = "send"
  /\ \/ /\ wire' = [wire EXCEPT ![Token[q]] = @ \cup {req[q].id}]
        /\ ReqStep(q, [req[q] EXCEPT !.pc = "sent"]) /\ UNCHANGED left
     \/ /\ Spend("fails")
        /\ \/ UNCHANGED wire \/ wire' = [wire EXCEPT ![Token[q]] = @ \cup {req[q].id}]
        /\ ReqStep(q, [req[q] EXCEPT !.pc = "failed"])
  /\ UNCHANGED <<rows, bucket>> /\ ReqOnly

(* SetMessageOutcome, of SendMedia and of failOutgoing *)
SendOutcome(q) ==
  LET o == Token[q] IN
  /\ req[q].pc \in {"sent", "failed"}
  /\ msg' = [msg EXCEPT ![o] = IF @ = NoMsg THEN @ ELSE [@ EXCEPT !.st = req[q].pc]]
  /\ ReqStep(q, Idle)
  /\ UNCHANGED <<att, objects, bucket, wire, left>> /\ ReqOnly

----------------------------------------------------------------------------
ConnectionChanges ==
  /\ Spend("cuts") /\ online' = ~online
  /\ UNCHANGED <<rows, bucket, procs, old, wire, cut, cleared>>

(* The keys a process stopped now would leave behind. *)
InHand ==
  {KeyOf(fetch[f].a) : f \in {g \in Fetcher : fetch[g].pc \in {"register", "claim3", "mark"}}}
  \cup (IF janitor.pc = "remove" THEN janitor.keys ELSE {})
  \cup (IF deleter.pc \in {"release", "remove"} THEN deleter.keys ELSE {})

Crash ==
  /\ Spend("crashes")
  /\ fetch' = [f \in Fetcher |-> Idle] /\ req' = [q \in Request |-> Idle]
  /\ janitor' = Idle /\ deleter' = Idle
  /\ cut' = cut \cup InHand
  /\ UNCHANGED <<rows, bucket, online, old, wire, cleared>>

Init ==
  /\ att = [a \in Att |-> NoAtt] /\ msg = [o \in Out |-> NoMsg]
  /\ objects = {} /\ bucket = {}
  /\ fetch = [f \in Fetcher |-> Idle] /\ req = [q \in Request |-> Idle]
  /\ janitor = Idle /\ deleter = Idle
  /\ online = TRUE /\ old = {}
  /\ wire = [o \in Out |-> {}] /\ cut = {} /\ cleared = {}
  /\ left \in Budgets

Fetches(f) ==
  \/ ReadRef(f) \/ ClaimStoredObject(f) \/ BeginDownload(f) \/ Download(f)
  \/ UploadBytes(f) \/ RegisterStoredObject(f) \/ MarkAttachmentStored(f)

Sweeps == JanitorSelects \/ JanitorReleases \/ JanitorRemoves \/ MarkAttachmentsExpired

Sends(q) ==
  \/ SendInserts(q) \/ SendAttaches(q) \/ SendChecksFile(q) \/ SendUploads(q)
  \/ SendMarks(q) \/ SendGoesOut(q) \/ SendOutcome(q)

Deletes == Prune \/ DeleterReleases \/ DeleterRemoves

Next ==
  \/ \E a \in In : RecordAttachment(a)
  \/ \E a \in Att : Ages(a) \/ DeleteRows(a)
  \/ \E f \in Fetcher : Fetches(f) \/ Abandon(f) \/ \E a \in In : Locate(f, a)
  \/ Sweeps \/ Deletes \/ PruneLists
  \/ \E q \in Request : SendStarts(q) \/ Sends(q)
  \/ ConnectionChanges \/ Crash

(* The janitor's timer never stops for good, and a step once begun goes on. *)
Spec ==
  /\ Init /\ [][Next]_vars
  /\ WF_vars(Sweeps) /\ WF_vars(Deletes)
  /\ \A f \in Fetcher : WF_vars(Fetches(f))
  /\ \A q \in Request : WF_vars(Sends(q))

----------------------------------------------------------------------------
TypeOK ==
  /\ att \in [Att -> [st : Statuses \cup {"none"}, path : Key \cup {NoKey}, ref : BOOLEAN]]
  /\ \A a \in Att : att[a].path \in {NoKey, IF a \in In THEN KeyOf(a) ELSE a}
  /\ objects \subseteq File /\ bucket \subseteq Key /\ cut \subseteq Key
  /\ msg \in [Out -> [st : {"none", "pending", "sent", "failed"}, id : Request \cup {NoKey}]]
  /\ old \subseteq Att /\ wire \in [Out -> SUBSET Request] /\ online \in BOOLEAN

(***************************************************************************)
(* The lookup and the rows agree: a stored attachment inside the retention *)
(* window has its content registered, so the next message with the same    *)
(* file finds it and a release sees it.  The janitor and a claim take the  *)
(* same row lock for this, mediaobjects.go:33-39.                          *)
(***************************************************************************)
YoungIsRegistered ==
  \A a \in Hashed \ old : Stored(a) => Content[a] \in objects

(***************************************************************************)
(* No file is lost sight of: one that no attachment points at and that the *)
(* lookup does not know is about to be registered or removed, unless a     *)
(* failure cut its removal short.                                          *)
(***************************************************************************)
NoFileIsForgotten ==
  \A k \in bucket \cap File : Users(k) # {} \/ k \in objects \cup cut \cup InHand

(***************************************************************************)
(* One client token is one message: however often a file is sent again     *)
(* under it, and whichever request wins, WhatsApp is given one id, as long *)
(* as nobody deletes the row.                                              *)
(***************************************************************************)
OneMessagePerToken == \A o \in Out \ cleared : Cardinality(wire[o]) <= 1

(***************************************************************************)
(* What the customer was sent the inbox can show: the file was in the      *)
(* bucket before the message went out, and stays until it is due.          *)
(***************************************************************************)
SentHasItsFile == \A o \in Out \ (old \cup cleared) : wire[o] # {} => o \in bucket

Holders(k) == {a \in In : Content[a] = k}

Outlived(k) ==
  /\ \A a \in Holders(k) : Exists(a) /\ a \in old
  /\ \E a \in Holders(k) : Stored(a) /\ att[a].path = k

Gone(k) ==
  \/ k \notin bucket \/ k \in cut
  \/ \E a \in Holders(k) : ~Exists(a) \/ (att[a].path = k /\ ~Stored(a))

(***************************************************************************)
(* The window is kept: once every message with a stored file is past it,   *)
(* the file leaves the bucket.  Not when a failure cut its storing or its  *)
(* removal short; when a download that ends between the removal and        *)
(* MarkAttachmentsExpired puts it back, where no row names it then; when a *)
(* row went with its message (a prune lists the files before it deletes,   *)
(* and misses one stored in between); or when a download that failed or    *)
(* stopped wrote its status over one that had stored the file: the sweep   *)
(* asks for stored rows.                                                   *)
(***************************************************************************)
WindowIsKept == \A k \in File : Outlived(k) ~> Gone(k)

(***************************************************************************)
(* "What cannot happen is an attachment left pointing at an object that    *)
(* has been deleted", mediaobjects.go:38-39.                               *)
(***************************************************************************)
YoungHasItsFile == \A a \in Hashed \ old : Stored(a) => Content[a] \in bucket
=============================================================================
