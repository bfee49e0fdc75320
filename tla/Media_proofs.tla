----------------------------- MODULE Media_proofs -----------------------------
(***************************************************************************)
(* For any attachments, contents, fetchers and requests, and any crashes,  *)
(* faults and lost answers: a client token is one message, what was sent   *)
(* has its file, and bucket and registry agree.                            *)
(***************************************************************************)
EXTENDS Media, FiniteSetTheorems, TLAPS

AttRow == [st : Statuses \cup {"none"}, path : Key \cup {NoKey}, ref : BOOLEAN]
OwnKey(a) == IF a \in In THEN KeyOf(a) ELSE a

AttOK ==
    /\ att \in [Att -> AttRow]
    /\ \A a \in Att : att[a].path \in {NoKey, OwnKey(a)}

(* Only a file with a hash is registered; only one without is marked alone. *)
FetchPcs == {"ref", "claim", "claim2", "claim3", "begin", "fetch", "upload", "register", "mark"}
Fetching(r) ==
    /\ r = [pc |-> r.pc, a |-> r.a] /\ r.pc \in FetchPcs /\ r.a \in In
    /\ r.pc = "register" => r.a \in Hashed
    /\ r.pc = "mark" => r.a \notin Hashed
FetchOK ==
    /\ fetch = [f \in Fetcher |-> fetch[f]]
    /\ \A f \in Fetcher : fetch[f] = Idle \/ Fetching(fetch[f])

(* The janitor lets go of what is past the window, the deleter of that and  *)
(* of what lost its row. A file of an outgoing message is nobody else's.    *)
JanitorOK ==
    janitor = Idle \/
        /\ janitor = [pc |-> janitor.pc, ids |-> janitor.ids, keys |-> janitor.keys]
        /\ janitor.pc \in {"release", "remove", "expire"}
        /\ janitor.ids \subseteq old /\ janitor.keys \cap Out \subseteq old
DeleterOK ==
    /\ old \subseteq Att
    /\ deleter = Idle \/
          /\ deleter = [pc |-> deleter.pc, keys |-> deleter.keys]
          /\ deleter.pc \in {"prune", "release", "remove"}
          /\ deleter.keys \cap Out \subseteq old \cup cleared

(* What goes to WhatsApp under a token goes under the id of its row.        *)
MsgRow == [st : {"none", "pending", "sent", "failed"}, id : Request \cup {NoKey}]
WireIds ==
    /\ msg \in [Out -> MsgRow]
    /\ wire \in [Out -> SUBSET (Request \cup {NoKey})]
    /\ \A o \in Out \ cleared : /\ wire[o] \subseteq {msg[o].id}
                                /\ msg[o] = NoMsg => wire[o] = {}

Carrying == {"store", "upload", "mark", "send", "sent", "failed"}
Working(r) ==
    \/ r = Idle \/ r = [pc |-> "insert"] \/ r = [pc |-> "attach"]
    \/ /\ r = [pc |-> r.pc, attached |-> r.attached, id |-> r.id]
       /\ r.pc \in Carrying /\ r.attached \in BOOLEAN /\ r.id \in Request \cup {NoKey}
ReqOK ==
    /\ req = [q \in Request |-> req[q]]
    /\ \A q \in Request :
           /\ Working(req[q])
           /\ req[q].pc \in {"store", "upload", "mark", "send"} /\ Token[q] \notin cleared =>
                  msg[Token[q]] # NoMsg /\ req[q].id = msg[Token[q]].id

(* The file is in the bucket before anything says that it is.               *)
Kept == Out \ (old \cup cleared)
FileFirst ==
    /\ \A o \in Kept : att[o].st = "stored" => o \in bucket
    /\ \A q \in Request : req[q].pc \in {"mark", "send"} /\ Token[q] \in Kept => Token[q] \in bucket

(* A file in the bucket is registered, or about to be registered or removed. *)
Registering(k) == \E f \in Fetcher : fetch[f].pc = "register" /\ KeyOf(fetch[f].a) = k
Letting(k) ==
    \/ janitor.pc = "remove" /\ k \in janitor.keys
    \/ deleter.pc = "remove" /\ k \in deleter.keys
Traced == \A k \in bucket \cap File : k \in objects \cup cut \/ Registering(k) \/ Letting(k)

MediaInv ==
    /\ AttOK /\ FetchOK /\ JanitorOK /\ DeleterOK /\ WireIds /\ ReqOK
    /\ FileFirst /\ SentHasItsFile /\ YoungIsRegistered /\ Traced

-----------------------------------------------------------------------------
(* Keys and rows *)

LEMMA Keys ==
  ASSUME MediaAssumption, NEW a \in Att
  PROVE  /\ OwnKey(a) \in Key
         /\ OwnKey(a) \in Out => a = OwnKey(a) /\ a \in Out
         /\ a \in Out => a \notin In /\ a \notin Hashed /\ a \notin File
         /\ a \in In => OwnKey(a) = KeyOf(a)
         /\ a \in Hashed => a \in In /\ KeyOf(a) = Content[a] /\ KeyOf(a) \in File
         /\ a \in In /\ a \notin Hashed => KeyOf(a) \notin File
BY DEF MediaAssumption, OwnKey, KeyOf, Key, Att

(* An update leaves every row but one, and that one's path its own.         *)
Touches(a, r) ==
    /\ a \in Att /\ r \in AttRow /\ r.path \in {NoKey, OwnKey(a)}
    /\ att' = [att EXCEPT ![a] = r]

LEMMA StatusTouches ==
  ASSUME AttOK, NEW a \in Att, NEW s \in Statuses, SetStatus(a, s)
  PROVE  \E r : /\ Touches(a, r) /\ r.path = att[a].path
                /\ r.st = "stored" => s = "stored" \/ att[a].st = "stored"
<1>1. att[a] \in AttRow /\ att[a].path \in {NoKey, OwnKey(a)}
  BY DEF AttOK
<1>2. CASE att[a] = NoAtt
  <2>1. att' = [att EXCEPT ![a] = att[a]]
    BY <1>2 DEF SetStatus
  <2>2. Touches(a, att[a])
    BY <1>1, <2>1 DEF Touches
  <2> QED BY <2>2
<1>3. CASE att[a] # NoAtt
  <2> DEFINE r == [att[a] EXCEPT !.st = s]
  <2>1. att' = [att EXCEPT ![a] = r]
    BY <1>3 DEF SetStatus
  <2>2. r \in AttRow /\ r.path = att[a].path /\ r.st = s
    BY <1>1 DEF AttRow
  <2> HIDE DEF r
  <2>3. Touches(a, r)
    BY <1>1, <2>1, <2>2 DEF Touches
  <2> QED BY <2>2, <2>3
<1> QED BY <1>2, <1>3

LEMMA StoredTouches ==
  ASSUME MediaAssumption, AttOK, NEW a \in Att, NEW k, k = OwnKey(a), SetStored(a, k)
  PROVE  \E r : Touches(a, r)
<1>1. att[a] \in AttRow /\ att[a].path \in {NoKey, OwnKey(a)} /\ k \in Key
  BY Keys DEF AttOK
<1>2. CASE att[a] = NoAtt
  <2>1. att' = [att EXCEPT ![a] = att[a]]
    BY <1>2 DEF SetStored
  <2>2. Touches(a, att[a])
    BY <1>1, <2>1 DEF Touches
  <2> QED BY <2>2
<1>3. CASE att[a] # NoAtt
  <2> DEFINE r == [att[a] EXCEPT !.st = "stored", !.path = k]
  <2>1. att' = [att EXCEPT ![a] = r]
    BY <1>3 DEF SetStored
  <2>2. r \in AttRow /\ r.path = k
    BY <1>1 DEF AttRow, Statuses
  <2> HIDE DEF r
  <2>3. Touches(a, r)
    BY <1>1, <2>1, <2>2 DEF Touches
  <2> QED BY <2>3
<1> QED BY <1>2, <1>3

LEMMA TouchedRows ==
  ASSUME AttOK, NEW a, NEW r, Touches(a, r)
  PROVE  AttOK' /\ att'[a] = r /\ \A b \in Att \ {a} : att'[b] = att[b]
BY DEF AttOK, Touches

(* The four that a step may leave alone, by what they read.                 *)
LEMMA OthersKept ==
  ASSUME MediaInv, UNCHANGED <<msg, janitor, deleter, req, old, wire, cleared>>
  PROVE  JanitorOK' /\ DeleterOK' /\ WireIds' /\ ReqOK'
BY DEF MediaInv, JanitorOK, DeleterOK, WireIds, ReqOK

-----------------------------------------------------------------------------
(* Incoming files *)

LEMMA PcOf ==
  ASSUME NEW r, Fetching(r), NEW pc
  PROVE  [r EXCEPT !.pc = pc] = [pc |-> pc, a |-> r.a] /\ r # Idle /\ r.pc # "idle"
<1>1. r = [pc |-> r.pc, a |-> r.a] /\ r.pc # "idle"
  BY DEF Fetching, FetchPcs
<1>2. [[pc |-> r.pc, a |-> r.a] EXCEPT !.pc = pc] = [pc |-> pc, a |-> r.a]
  OBVIOUS
<1> QED BY <1>1, <1>2 DEF Idle

(* A fetcher's step: one row of an incoming file, one more object and file. *)
FetcherMoves(f, r) == f \in Fetcher /\ fetch' = [fetch EXCEPT ![f] = r] /\ (r = Idle \/ Fetching(r))
OneIncoming(a) ==
    a \in In /\ \/ att' = att
                \/ \E r : Touches(a, r) /\ (a \in Hashed \ old /\ r.st = "stored" /\ r.path # NoKey =>
                                                Stored(a) \/ Content[a] \in objects)

LEMMA FetcherKeeps ==
  ASSUME MediaAssumption, MediaInv, NEW f, NEW r, FetcherMoves(f, r), NEW a, OneIncoming(a),
         objects \subseteq objects', bucket \subseteq bucket', cut \subseteq cut',
         UNCHANGED <<msg, janitor, deleter, req, old, wire, cleared>>,
         \A k \in (bucket' \ bucket) \cap File : r.pc = "register" /\ KeyOf(r.a) = k,
         fetch[f].pc = "register" =>
            KeyOf(fetch[f].a) \in objects' \cup cut'
  PROVE  MediaInv'
<1>1. JanitorOK' /\ DeleterOK' /\ WireIds' /\ ReqOK'
  BY OthersKept
<1>2. AttOK' /\ \A b \in Att \ {a} : att'[b] = att[b]
  BY TouchedRows DEF OneIncoming, MediaInv, AttOK
<1>3. fetch' = [g \in Fetcher |-> fetch'[g]] /\ fetch'[f] = r /\ \A g \in Fetcher \ {f} : fetch'[g] = fetch[g]
  BY DEF FetcherMoves, MediaInv, FetchOK
<1>4. FetchOK'
  BY <1>3 DEF FetchOK, MediaInv, FetcherMoves
<1>5. FileFirst' /\ SentHasItsFile'
  <2>1. \A o \in Out : att'[o] = att[o] /\ o \in Att
    BY <1>2 DEF OneIncoming, MediaAssumption, Att
  <2> QED BY <2>1 DEF FileFirst, SentHasItsFile, Kept, MediaInv
<1>6. YoungIsRegistered'
  <2> SUFFICES ASSUME NEW b \in Hashed \ old, Stored(b)' PROVE Content[b] \in objects'
    BY DEF YoungIsRegistered
  <2>1. b \in Att
    BY DEF MediaAssumption, Att
  <2>2. Stored(b) \/ Content[b] \in objects
    <3>1. CASE b = a
      BY <2>1, <3>1, TouchedRows DEF OneIncoming, Stored, MediaInv
    <3>2. CASE b # a
      BY <1>2, <2>1, <3>2 DEF Stored
    <3> QED BY <3>1, <3>2
  <2> QED BY <2>2 DEF MediaInv, YoungIsRegistered
<1>7. Traced'
  <2> SUFFICES ASSUME NEW k \in bucket' \cap File
               PROVE  k \in objects' \cup cut' \/ Registering(k)' \/ Letting(k)'
    BY DEF Traced
  <2>1. CASE k \notin bucket
    <3>1. fetch'[f].pc = "register" /\ KeyOf(fetch'[f].a) = k /\ f \in Fetcher
      BY <1>3, <2>1 DEF FetcherMoves
    <3> QED BY <3>1 DEF Registering, KeyOf
  <2>2. CASE k \in bucket
    <3>1. k \in objects \cup cut \/ Registering(k) \/ Letting(k)
      BY <2>2 DEF MediaInv, Traced
    <3>2. CASE Registering(k)
      <4>1. PICK g \in Fetcher : fetch[g].pc = "register" /\ KeyOf(fetch[g].a) = k
        BY <3>2 DEF Registering
      <4>2. CASE g = f
        BY <4>1, <4>2
      <4>3. CASE g # f
        <5>1. fetch'[g].pc = "register" /\ KeyOf(fetch'[g].a) = k
          BY <1>3, <4>1, <4>3
        <5> QED BY <5>1 DEF Registering, KeyOf
      <4> QED BY <4>2, <4>3
    <3>3. Letting(k) => Letting(k)'
      BY DEF Letting
    <3> QED BY <3>1, <3>2, <3>3
  <2> QED BY <2>1, <2>2
<1> QED BY <1>1, <1>2, <1>4, <1>5, <1>6, <1>7 DEF MediaInv

LEMMA FetchState ==
  ASSUME MediaInv, NEW f \in Fetcher, fetch[f].pc # "idle"
  PROVE  Fetching(fetch[f]) /\ fetch[f].a \in In
BY DEF MediaInv, FetchOK, Idle, Fetching

LEMMA FetcherTo ==
  ASSUME MediaAssumption, MediaInv, NEW f \in Fetcher, fetch[f].pc # "idle", NEW pc \in FetchPcs,
         pc = "register" => fetch[f].a \in Hashed, pc = "mark" => fetch[f].a \notin Hashed,
         FetchStep(f, [fetch[f] EXCEPT !.pc = pc])
  PROVE  FetcherMoves(f, [pc |-> pc, a |-> fetch[f].a])
<1>1. Fetching(fetch[f]) /\ fetch[f].a \in In
  BY FetchState
<1>2. [fetch[f] EXCEPT !.pc = pc] = [pc |-> pc, a |-> fetch[f].a]
  BY <1>1, PcOf
<1>3. Fetching([pc |-> pc, a |-> fetch[f].a])
  BY <1>1 DEF Fetching
<1> QED BY <1>2, <1>3 DEF FetcherMoves, FetchStep

LEMMA FetcherHome ==
  ASSUME NEW f \in Fetcher, FetchStep(f, Idle) PROVE FetcherMoves(f, Idle)
BY DEF FetcherMoves, FetchStep

LEMMA StatusIncoming ==
  ASSUME MediaInv, NEW a \in In, NEW s \in Statuses \ {"stored"}, SetStatus(a, s)
  PROVE  OneIncoming(a)
<1>1. a \in Att /\ AttOK
  BY DEF Att, MediaInv
<1>2. PICK r : /\ Touches(a, r) /\ r.path = att[a].path
               /\ r.st = "stored" => s = "stored" \/ att[a].st = "stored"
  BY <1>1, StatusTouches
<1> QED BY <1>2 DEF OneIncoming, Stored

LEMMA StoredIncoming ==
  ASSUME MediaAssumption, MediaInv, NEW a \in In, SetStored(a, KeyOf(a)),
         a \in Hashed => Content[a] \in objects
  PROVE  OneIncoming(a)
<1>1. a \in Att /\ AttOK /\ KeyOf(a) = OwnKey(a)
  BY DEF Att, MediaInv, OwnKey
<1>2. PICK r : Touches(a, r)
  BY <1>1, StoredTouches
<1> QED BY <1>2 DEF OneIncoming

LEMMA FetchSteps ==
  ASSUME MediaAssumption, MediaInv, NEW f \in Fetcher, Fetches(f)
  PROVE  MediaInv'
<1> DEFINE a == fetch[f].a
<1>0. Fetching(fetch[f]) /\ a \in In /\ a \in Att /\ fetch[f].pc # "idle"
  <2>1. fetch[f].pc # "idle"
    BY DEF Fetches, ReadRef, ClaimStoredObject, BeginDownload, Download, UploadBytes,
        RegisterStoredObject, MarkAttachmentStored
  <2> QED BY <2>1, FetchState DEF Att
<1>1. UNCHANGED <<msg, janitor, deleter, req, old, wire, cleared>>
  BY DEF Fetches, ReadRef, ClaimStoredObject, BeginDownload, Download, UploadBytes,
      RegisterStoredObject, MarkAttachmentStored, FetchOnly, world
<1>2. ASSUME att' = att PROVE OneIncoming(a)
  BY <1>0, <1>2 DEF OneIncoming
<1>3. CASE ReadRef(f)
  <2>1. FetchStep(f, [fetch[f] EXCEPT !.pc = "claim"]) \/ FetchStep(f, Idle)
    BY <1>3 DEF ReadRef
  <2>2. \E r : FetcherMoves(f, r)
    BY <1>0, <2>1, FetcherTo, FetcherHome DEF FetchPcs
  <2>3. UNCHANGED <<att, objects, bucket, cut>> /\ fetch[f].pc # "register"
    BY <1>3 DEF ReadRef, FetchOnly, world
  <2> QED BY <1>1, <1>2, <2>2, <2>3, FetcherKeeps
<1>4. CASE ClaimStoredObject(f)
  <2>0. UNCHANGED <<objects, bucket, cut>> /\ fetch[f].pc \in {"claim", "claim2", "claim3"}
    BY <1>4 DEF ClaimStoredObject, FetchOnly, world
  <2>1. CASE a \in Hashed /\ Content[a] \in objects
    <3>1. SetStored(a, KeyOf(a)) /\ FetchStep(f, Idle)
      BY <1>4, <2>1 DEF ClaimStoredObject
    <3>2. OneIncoming(a)
      BY <1>0, <2>1, <3>1, StoredIncoming
    <3> QED BY <1>1, <2>0, <3>1, <3>2, FetcherHome, FetcherKeeps
  <2>2. CASE ~(a \in Hashed /\ Content[a] \in objects)
    <3>1. /\ att' = att
          /\ \/ FetchStep(f, [fetch[f] EXCEPT !.pc = "begin"])
             \/ FetchStep(f, [fetch[f] EXCEPT !.pc = "fetch"])
             \/ FetchStep(f, Idle)
      BY <1>4, <2>0, <2>2 DEF ClaimStoredObject
    <3>2. \E r : FetcherMoves(f, r)
      BY <1>0, <3>1, FetcherTo, FetcherHome DEF FetchPcs
    <3> QED BY <1>1, <1>2, <2>0, <3>1, <3>2, FetcherKeeps
  <2> QED BY <2>1, <2>2
<1>5. CASE BeginDownload(f)
  <2>1. \/ SetStatus(a, "uploading") /\ FetchStep(f, [fetch[f] EXCEPT !.pc = "claim2"])
        \/ att' = att /\ FetchStep(f, Idle)
    BY <1>5 DEF BeginDownload
  <2>2. OneIncoming(a) /\ \E r : FetcherMoves(f, r)
    BY <1>0, <1>2, <2>1, StatusIncoming, FetcherTo, FetcherHome DEF FetchPcs, Statuses
  <2>3. UNCHANGED <<objects, bucket, cut>> /\ fetch[f].pc # "register"
    BY <1>5 DEF BeginDownload, FetchOnly, world
  <2> QED BY <1>1, <2>2, <2>3, FetcherKeeps
<1>6. CASE Download(f)
  <2>1. \/ att' = att /\ FetchStep(f, [fetch[f] EXCEPT !.pc = "upload"])
        \/ SetStatus(a, "failed") /\ FetchStep(f, Idle)
    BY <1>6 DEF Download
  <2>2. OneIncoming(a) /\ \E r : FetcherMoves(f, r)
    BY <1>0, <1>2, <2>1, StatusIncoming, FetcherTo, FetcherHome DEF FetchPcs, Statuses
  <2>3. UNCHANGED <<objects, bucket, cut>> /\ fetch[f].pc # "register"
    BY <1>6 DEF Download, world
  <2> QED BY <1>1, <2>2, <2>3, FetcherKeeps
<1>7. CASE UploadBytes(f)
  <2>1. /\ UNCHANGED <<att, objects>> /\ bucket' = bucket \cup {KeyOf(a)} /\ cut \subseteq cut'
        /\ fetch[f].pc = "upload"
        /\ FetchStep(f, [fetch[f] EXCEPT !.pc = IF a \in Hashed THEN "register" ELSE "mark"])
    BY <1>7 DEF UploadBytes
  <2>2. CASE a \in Hashed
    <3>1. FetcherMoves(f, [pc |-> "register", a |-> a])
      BY <1>0, <2>1, <2>2, FetcherTo DEF FetchPcs
    <3>2. \A k \in (bucket' \ bucket) \cap File : KeyOf(a) = k
      BY <2>1
    <3> QED BY <1>1, <1>2, <2>1, <3>1, <3>2, FetcherKeeps
  <2>3. CASE a \notin Hashed
    <3>1. FetcherMoves(f, [pc |-> "mark", a |-> a])
      BY <1>0, <2>1, <2>3, FetcherTo DEF FetchPcs
    <3>2. KeyOf(a) \notin File
      BY <1>0, <2>3, Keys
    <3>3. (bucket' \ bucket) \cap File = {}
      BY <2>1, <3>2
    <3> QED BY <1>1, <1>2, <2>1, <3>1, <3>3, FetcherKeeps
  <2> QED BY <2>2, <2>3
<1>8. CASE RegisterStoredObject(f)
  <2>1. /\ UNCHANGED <<att, bucket, cut>> /\ objects' = objects \cup {Content[a]}
        /\ fetch[f].pc = "register" /\ FetchStep(f, [fetch[f] EXCEPT !.pc = "claim3"])
    BY <1>8 DEF RegisterStoredObject, Registered, FetchOnly, world
  <2>2. KeyOf(a) = Content[a]
    BY <1>0, <2>1, Keys DEF Fetching
  <2>3. FetcherMoves(f, [pc |-> "claim3", a |-> a])
    BY <1>0, <2>1, FetcherTo DEF FetchPcs
  <2> QED BY <1>1, <1>2, <2>1, <2>2, <2>3, FetcherKeeps
<1>9. CASE MarkAttachmentStored(f)
  <2>1. /\ UNCHANGED <<objects, bucket, cut>> /\ fetch[f].pc = "mark"
        /\ SetStored(a, KeyOf(a)) /\ FetchStep(f, Idle)
    BY <1>9 DEF MarkAttachmentStored, FetchOnly, world
  <2>2. OneIncoming(a)
    BY <1>0, <2>1, StoredIncoming DEF Fetching
  <2> QED BY <1>1, <2>1, <2>2, FetcherHome, FetcherKeeps
<1> QED BY <1>3, <1>4, <1>5, <1>6, <1>7, <1>8, <1>9 DEF Fetches

LEMMA FetchBounds ==
  ASSUME MediaAssumption, MediaInv, NEW f \in Fetcher,
         Abandon(f) \/ \E a \in In : Locate(f, a)
  PROVE  MediaInv'
<1>1. UNCHANGED <<att, objects, bucket, msg, janitor, deleter, req, old, wire, cleared>>
  BY DEF Abandon, Locate, rows, world
<1>2. CASE Abandon(f)
  <2>1. Fetching(fetch[f]) /\ fetch[f].a \in In
    BY <1>2, FetchState DEF Abandon, MediaInv, FetchOK, Fetching
  <2>2. OneIncoming(fetch[f].a) /\ FetcherMoves(f, Idle)
    BY <1>1, <1>2, <2>1, FetcherHome DEF OneIncoming, Abandon
  <2>3. cut \subseteq cut' /\ (fetch[f].pc = "register" => KeyOf(fetch[f].a) \in objects' \cup cut')
    BY <1>2 DEF Abandon
  <2> QED BY <1>1, <2>2, <2>3, FetcherKeeps
<1>3. ASSUME NEW a \in In, Locate(f, a) PROVE MediaInv'
  <2>1. FetchStep(f, [pc |-> "ref", a |-> a]) /\ fetch[f] = Idle /\ cut' = cut
    BY <1>3 DEF Locate, world
  <2>2. FetcherMoves(f, [pc |-> "ref", a |-> a]) /\ OneIncoming(a) /\ fetch[f].pc # "register"
    BY <1>1, <2>1 DEF FetcherMoves, FetchStep, Fetching, FetchPcs, OneIncoming, Idle
  <2> QED BY <1>1, <2>1, <2>2, FetcherKeeps
<1> QED BY <1>2, <1>3

LEMMA RecordStep ==
  ASSUME MediaAssumption, MediaInv, NEW a \in In, RecordAttachment(a)
  PROVE  MediaInv'
<1>1. UNCHANGED <<objects, msg, bucket, fetch, janitor, deleter, req, old, wire, cut, cleared>>
  BY DEF RecordAttachment, procs, world
<1> DEFINE r == IF att[a] = NoAtt THEN [st |-> "pending", path |-> NoKey, ref |-> TRUE]
                ELSE [att[a] EXCEPT !.ref = TRUE]
<1>2. att' = [att EXCEPT ![a] = r]
  BY DEF RecordAttachment
<1>3. a \in Att /\ att[a] \in AttRow /\ att[a].path \in {NoKey, OwnKey(a)}
  BY DEF MediaInv, AttOK, Att
<1>4. r \in AttRow /\ r.path \in {NoKey, OwnKey(a)} /\ (r.st = "stored" => att[a].st = "stored" /\ r.path = att[a].path)
  BY <1>3 DEF AttRow, Statuses
<1> HIDE DEF r
<1>5. Touches(a, r)
  BY <1>2, <1>3, <1>4 DEF Touches
<1>6. AttOK' /\ att'[a] = r /\ \A b \in Att \ {a} : att'[b] = att[b]
  BY <1>5, TouchedRows DEF MediaInv
<1>7. FetchOK' /\ JanitorOK' /\ DeleterOK' /\ WireIds' /\ ReqOK'
  BY <1>1, OthersKept DEF MediaInv, FetchOK
<1>8. \A o \in Out : att'[o] = att[o]
  BY <1>6 DEF MediaAssumption, Att
<1>9. FileFirst' /\ SentHasItsFile'
  BY <1>1, <1>8 DEF MediaInv, FileFirst, SentHasItsFile, Kept
<1>10. YoungIsRegistered'
  BY <1>1, <1>4, <1>6 DEF MediaInv, YoungIsRegistered, Stored, MediaAssumption, Att
<1>11. Traced'
  BY <1>1 DEF MediaInv, Traced, Registering, Letting, KeyOf
<1> QED BY <1>6, <1>7, <1>9, <1>10, <1>11 DEF MediaInv

-----------------------------------------------------------------------------
(* Letting files go *)

(* Rows that go, or lose their file, put nothing in the bucket's place.     *)
RowsGo(S) ==
    /\ att' \in [Att -> AttRow]
    /\ \A a \in Att \ S : att'[a] = att[a]
    /\ \A a \in S : att'[a].path = NoKey /\ att'[a].st # "stored"

LEMMA GoneRows ==
  ASSUME MediaInv, NEW S \in SUBSET Att, RowsGo(S)
  PROVE  /\ AttOK'
         /\ \A a \in Att : Stored(a)' => Stored(a) /\ att'[a] = att[a]
         /\ \A a \in Att : att'[a].st = "stored" => att[a].st = "stored"
BY DEF MediaInv, AttOK, RowsGo, Stored

LEMMA SweepStep == ASSUME MediaAssumption, MediaInv, Sweeps PROVE MediaInv'
<1>1. UNCHANGED <<msg, fetch, deleter, req, old, wire, cleared>> /\ cut \subseteq cut'
  BY DEF Sweeps, JanitorSelects, JanitorReleases, JanitorRemoves, MarkAttachmentsExpired, JanitorOnly
<1>2. FetchOK' /\ DeleterOK' /\ WireIds' /\ ReqOK'
  BY <1>1 DEF MediaInv, FetchOK, DeleterOK, WireIds, ReqOK
<1>3. CASE JanitorSelects
  <2>1. /\ janitor' = [pc |-> "release", ids |-> Sweepable, keys |-> {att[a].path : a \in Sweepable}]
        /\ UNCHANGED <<att, objects, bucket, cut>> /\ janitor = Idle
    BY <1>3 DEF JanitorSelects
  <2>2. Sweepable \subseteq old /\ Sweepable \subseteq Att /\ \A a \in Sweepable : att[a].path = OwnKey(a)
    BY DEF Sweepable, Stored, MediaInv, AttOK
  <2>3. {att[a].path : a \in Sweepable} \cap Out \subseteq old
    BY <2>2, Keys
  <2>4. JanitorOK'
    BY <1>1, <2>1, <2>2, <2>3 DEF JanitorOK
  <2>5. AttOK' /\ FileFirst' /\ SentHasItsFile' /\ YoungIsRegistered'
    BY <1>1, <2>1 DEF MediaInv, AttOK, FileFirst, SentHasItsFile, YoungIsRegistered, Kept, Stored
  <2>6. Traced'
    BY <1>1, <2>1 DEF MediaInv, Traced, Registering, Letting, KeyOf, Idle
  <2> QED BY <1>2, <2>4, <2>5, <2>6 DEF MediaInv
<1>4. CASE JanitorReleases
  <2> DEFINE free == Free(janitor.keys, janitor.ids)
  <2>0. /\ janitor.pc = "release" /\ UNCHANGED <<att, bucket>>
        /\ janitor = [pc |-> janitor.pc, ids |-> janitor.ids, keys |-> janitor.keys]
        /\ janitor.ids \subseteq old /\ janitor.keys \cap Out \subseteq old
    BY <1>4 DEF JanitorReleases, MediaInv, JanitorOK, Idle
  <2>1. AttOK' /\ FileFirst' /\ SentHasItsFile'
    BY <1>1, <2>0 DEF MediaInv, AttOK, FileFirst, SentHasItsFile, Kept
  <2>2. CASE objects' = objects \ free /\ janitor' = [janitor EXCEPT !.pc = "remove", !.keys = free]
    <3>1. janitor' = [pc |-> "remove", ids |-> janitor.ids, keys |-> free]
      BY <2>0, <2>2
    <3>2. free \subseteq janitor.keys
      BY DEF Free
    <3>3. JanitorOK'
      BY <1>1, <2>0, <3>1, <3>2 DEF JanitorOK
    <3>4. YoungIsRegistered'
      <4> SUFFICES ASSUME NEW a \in Hashed \ old, Stored(a) PROVE Content[a] \in objects'
        BY <1>1, <2>0 DEF YoungIsRegistered, Stored
      <4>1. a \in Att /\ Content[a] \in objects /\ att[a].path = Content[a]
        BY Keys DEF MediaInv, YoungIsRegistered, AttOK, Stored, MediaAssumption, Att
      <4>2. Content[a] \notin free
        BY <2>0, <4>1 DEF Free, Users
      <4> QED BY <2>2, <4>1, <4>2
    <3>5. Traced'
      <4> HIDE DEF free
      <4> QED BY <1>1, <2>0, <2>2, <3>1 DEF MediaInv, Traced, Registering, Letting, KeyOf
    <3> QED BY <1>2, <2>1, <3>3, <3>4, <3>5 DEF MediaInv
  <2>3. CASE objects' = objects /\ janitor' = [janitor EXCEPT !.pc = "expire"]
    <3>1. janitor' = [pc |-> "expire", ids |-> janitor.ids, keys |-> janitor.keys]
      BY <2>0, <2>3
    <3>2. JanitorOK'
      BY <1>1, <2>0, <3>1 DEF JanitorOK
    <3>3. YoungIsRegistered' /\ Traced'
      BY <1>1, <2>0, <2>3, <3>1 DEF MediaInv, YoungIsRegistered, Stored, Traced, Registering, Letting, KeyOf
    <3> QED BY <1>2, <2>1, <3>2, <3>3 DEF MediaInv
  <2> QED BY <1>4, <2>2, <2>3 DEF JanitorReleases
<1>5. CASE JanitorRemoves
  <2>0. /\ janitor.pc = "remove" /\ UNCHANGED <<att, objects>>
        /\ janitor = [pc |-> janitor.pc, ids |-> janitor.ids, keys |-> janitor.keys]
        /\ janitor.ids \subseteq old /\ janitor.keys \cap Out \subseteq old
        /\ janitor' = [janitor EXCEPT !.pc = "expire"]
        /\ \/ bucket' = bucket \ janitor.keys
           \/ cut' = cut \cup janitor.keys /\ bucket' = bucket
    BY <1>5 DEF JanitorRemoves, MediaInv, JanitorOK, Idle
  <2>1. janitor' = [pc |-> "expire", ids |-> janitor.ids, keys |-> janitor.keys]
    BY <2>0
  <2>2. AttOK' /\ YoungIsRegistered' /\ JanitorOK'
    BY <1>1, <2>0, <2>1 DEF MediaInv, AttOK, YoungIsRegistered, Stored, JanitorOK
  <2>3. bucket' \subseteq bucket /\ \A o \in Kept : o \in bucket => o \in bucket'
    BY <2>0 DEF Kept
  <2>4. FileFirst' /\ SentHasItsFile'
    BY <1>1, <2>0, <2>3 DEF MediaInv, FileFirst, SentHasItsFile, Kept
  <2>5. Traced'
    BY <1>1, <2>0, <2>1 DEF MediaInv, Traced, Registering, Letting, KeyOf
  <2> QED BY <1>2, <2>2, <2>4, <2>5 DEF MediaInv
<1>6. CASE MarkAttachmentsExpired
  <2>0. /\ att' = [a \in Att |-> IF a \in janitor.ids THEN Expired(att[a]) ELSE att[a]]
        /\ janitor' = Idle /\ UNCHANGED <<objects, bucket, cut>> /\ janitor.pc = "expire"
    BY <1>6 DEF MarkAttachmentsExpired
  <2> DEFINE S == janitor.ids \cap Att
  <2>1. \A a \in Att : att[a] \in AttRow
    BY DEF MediaInv, AttOK
  <2>2. \A a \in Att : /\ Expired(att[a]) \in AttRow
                       /\ Expired(att[a]).path = NoKey /\ Expired(att[a]).st # "stored"
    BY <2>1 DEF Expired, AttRow, Statuses, NoAtt
  <2>3. RowsGo(S)
    BY <2>0, <2>1, <2>2 DEF RowsGo
  <2>4. /\ AttOK'
        /\ \A a \in Att : Stored(a)' => Stored(a)
        /\ \A a \in Att : att'[a].st = "stored" => att[a].st = "stored"
    BY <2>3, GoneRows
  <2>5. FileFirst' /\ SentHasItsFile' /\ YoungIsRegistered'
    BY <1>1, <2>0, <2>4 DEF MediaInv, FileFirst, SentHasItsFile, YoungIsRegistered, Kept, Att,
        MediaAssumption
  <2>6. JanitorOK' /\ Traced'
    BY <1>1, <2>0 DEF MediaInv, JanitorOK, Traced, Registering, Letting, KeyOf, Idle
  <2> QED BY <1>2, <2>4, <2>5, <2>6 DEF MediaInv
<1> QED BY <1>3, <1>4, <1>5, <1>6 DEF Sweeps

(* Deleting a row deletes the message's too, and remembers that it did.     *)
LEMMA RowsDeleted ==
  ASSUME MediaAssumption, MediaInv, NEW S \in SUBSET Att, WithoutRows(S),
         UNCHANGED <<fetch, janitor, req, old, wire, objects, bucket, cut>>, deleter.pc # "remove"
  PROVE  /\ AttOK' /\ FetchOK' /\ JanitorOK' /\ WireIds' /\ ReqOK'
         /\ FileFirst' /\ SentHasItsFile' /\ YoungIsRegistered' /\ Traced'
<1>1. \A a \in Att : att[a] \in AttRow /\ NoAtt \in AttRow
  BY DEF MediaInv, AttOK, AttRow, NoAtt
<1>2. att' = [a \in Att |-> IF a \in S THEN NoAtt ELSE att[a]]
  BY DEF WithoutRows
<1>3. RowsGo(S)
  BY <1>1, <1>2 DEF RowsGo, NoAtt
<1>4. /\ AttOK' /\ \A a \in Att : Stored(a)' => Stored(a)
      /\ \A a \in Att : att'[a].st = "stored" => att[a].st = "stored"
  BY <1>3, GoneRows
<1>5. /\ msg' = [o \in Out |-> IF o \in S THEN NoMsg ELSE msg[o]]
      /\ cleared' = cleared \cup (S \cap Out)
  BY DEF WithoutRows
<1>6. \A o \in Out \ cleared' : msg'[o] = msg[o] /\ o \notin cleared
  BY <1>5
<1>7. WireIds'
  <2>1. NoMsg \in MsgRow
    BY DEF NoMsg, MsgRow
  <2> QED BY <1>5, <1>6, <2>1 DEF MediaInv, WireIds
<1>8. ReqOK'
  <2>1. \A q \in Request : Token[q] \in Out
    BY DEF MediaAssumption
  <2> QED BY <1>6, <2>1 DEF MediaInv, ReqOK
<1>9. FileFirst' /\ SentHasItsFile' /\ YoungIsRegistered'
  BY <1>4, <1>5 DEF MediaInv, FileFirst, SentHasItsFile, YoungIsRegistered, Kept, Att, MediaAssumption
<1>10. FetchOK' /\ JanitorOK'
  BY DEF MediaInv, FetchOK, JanitorOK
<1>11. Traced'
  BY DEF MediaInv, Traced, Registering, Letting, KeyOf
<1> QED BY <1>4, <1>7, <1>8, <1>9, <1>10, <1>11

LEMMA DeleteSteps ==
  ASSUME MediaAssumption, MediaInv, PruneLists \/ Deletes \/ \E a \in Att : DeleteRows(a)
  PROVE  MediaInv'
<1>0. UNCHANGED <<fetch, janitor, req, old, wire, cut>>
  BY DEF PruneLists, Deletes, DeleteRows, Prune, DeleterReleases, DeleterRemoves, DeleterOnly
<1>1. ASSUME NEW a \in Att, DeleteRows(a) PROVE MediaInv'
  <2>1. /\ deleter = Idle /\ WithoutRows({a}) /\ UNCHANGED <<objects, bucket>>
        /\ deleter' = [pc |-> "release", keys |-> Paths({a})]
    BY <1>1 DEF DeleteRows
  <2>2. deleter.pc # "remove"
    BY <2>1 DEF Idle
  <2>3. Paths({a}) \cap Out \subseteq {a} \cap Out
    BY Keys DEF Paths, MediaInv, AttOK
  <2>4. cleared' = cleared \cup ({a} \cap Out)
    BY <2>1 DEF WithoutRows
  <2>5. DeleterOK'
    BY <1>0, <2>1, <2>3, <2>4 DEF MediaInv, DeleterOK
  <2> QED BY <1>0, <2>1, <2>2, <2>5, RowsDeleted DEF MediaInv
<1>2. CASE PruneLists
  <2>1. /\ deleter = Idle /\ deleter' = [pc |-> "prune", keys |-> Paths(old)]
        /\ UNCHANGED <<att, objects, msg, bucket, cleared>>
    BY <1>2 DEF PruneLists, rows
  <2>2. Paths(old) \cap Out \subseteq old
    BY Keys DEF Paths, MediaInv, AttOK, DeleterOK
  <2>3. DeleterOK'
    BY <1>0, <2>1, <2>2 DEF MediaInv, DeleterOK
  <2>4. AttOK' /\ FetchOK' /\ JanitorOK' /\ WireIds' /\ ReqOK'
    BY <1>0, <2>1 DEF MediaInv, AttOK, FetchOK, JanitorOK, WireIds, ReqOK
  <2>5. FileFirst' /\ SentHasItsFile' /\ YoungIsRegistered'
    BY <1>0, <2>1 DEF MediaInv, FileFirst, SentHasItsFile, YoungIsRegistered, Kept, Stored
  <2>6. Traced'
    BY <1>0, <2>1 DEF MediaInv, Traced, Registering, Letting, KeyOf, Idle
  <2> QED BY <2>3, <2>4, <2>5, <2>6 DEF MediaInv
<1>3. CASE Prune
  <2>0. /\ deleter.pc = "prune" /\ WithoutRows(old) /\ UNCHANGED <<objects, bucket>>
        /\ deleter = [pc |-> deleter.pc, keys |-> deleter.keys]
        /\ deleter.keys \cap Out \subseteq old \cup cleared /\ old \subseteq Att
        /\ deleter' = [deleter EXCEPT !.pc = "release"]
    BY <1>3 DEF Prune, MediaInv, DeleterOK, Idle
  <2>1. deleter' = [pc |-> "release", keys |-> deleter.keys] /\ cleared \subseteq cleared'
    BY <2>0 DEF WithoutRows
  <2>2. DeleterOK'
    BY <1>0, <2>0, <2>1 DEF DeleterOK
  <2> QED BY <1>0, <2>0, <2>2, RowsDeleted DEF MediaInv
<1>4. CASE DeleterReleases
  <2> DEFINE free == Free(deleter.keys, {})
  <2>0. /\ deleter.pc = "release" /\ UNCHANGED <<att, msg, bucket, cleared>>
        /\ deleter.keys \cap Out \subseteq old \cup cleared /\ old \subseteq Att
        /\ objects' = objects \ free /\ deleter' = [pc |-> "remove", keys |-> free]
    BY <1>4 DEF DeleterReleases, MediaInv, DeleterOK, Idle
  <2>1. free \subseteq deleter.keys
    BY DEF Free
  <2>2. DeleterOK'
    BY <1>0, <2>0, <2>1 DEF DeleterOK
  <2>3. AttOK' /\ FetchOK' /\ JanitorOK' /\ WireIds' /\ ReqOK' /\ FileFirst' /\ SentHasItsFile'
    BY <1>0, <2>0 DEF MediaInv, AttOK, FetchOK, JanitorOK, WireIds, ReqOK, FileFirst, SentHasItsFile, Kept
  <2>4. YoungIsRegistered'
    <3> SUFFICES ASSUME NEW a \in Hashed \ old, Stored(a) PROVE Content[a] \in objects'
      BY <1>0, <2>0 DEF YoungIsRegistered, Stored
    <3>1. a \in Att /\ Content[a] \in objects /\ att[a].path = Content[a]
      BY Keys DEF MediaInv, YoungIsRegistered, AttOK, Stored, MediaAssumption, Att
    <3>2. Content[a] \notin free
      BY <3>1 DEF Free, Users
    <3> QED BY <2>0, <3>1, <3>2
  <2>5. Traced'
    <3> HIDE DEF free
    <3> QED BY <1>0, <2>0 DEF MediaInv, Traced, Registering, Letting, KeyOf
  <2> QED BY <2>2, <2>3, <2>4, <2>5 DEF MediaInv
<1>5. CASE DeleterRemoves
  <2>0. /\ deleter.pc = "remove" /\ UNCHANGED <<att, objects, msg, cleared>>
        /\ deleter.keys \cap Out \subseteq old \cup cleared /\ old \subseteq Att
        /\ bucket' = bucket \ deleter.keys /\ deleter' = Idle
    BY <1>5 DEF DeleterRemoves, MediaInv, DeleterOK, Idle, rows
  <2>1. AttOK' /\ FetchOK' /\ JanitorOK' /\ DeleterOK' /\ WireIds' /\ ReqOK'
    BY <1>0, <2>0 DEF MediaInv, AttOK, FetchOK, JanitorOK, DeleterOK, WireIds, ReqOK
  <2>2. \A o \in Kept : o \in bucket => o \in bucket'
    BY <2>0 DEF Kept
  <2>3. FileFirst' /\ SentHasItsFile' /\ YoungIsRegistered'
    BY <1>0, <2>0, <2>2 DEF MediaInv, FileFirst, SentHasItsFile, YoungIsRegistered, Kept, Stored
  <2>4. Traced'
    BY <1>0, <2>0 DEF MediaInv, Traced, Registering, Letting, KeyOf, Idle
  <2> QED BY <2>1, <2>3, <2>4 DEF MediaInv
<1> QED BY <1>1, <1>2, <1>3, <1>4, <1>5 DEF Deletes

-----------------------------------------------------------------------------
(* Outgoing files *)

(* A request's step: its own row, its own file, and the id of that row.     *)
RequestTo(q, r) ==
    /\ req' = [req EXCEPT ![q] = r] /\ Working(r)
    /\ r.pc \in {"store", "upload", "mark", "send"} /\ Token[q] \notin cleared =>
           msg'[Token[q]] # NoMsg /\ r.id = msg'[Token[q]].id
    /\ r.pc \in {"mark", "send"} /\ Token[q] \in Kept => Token[q] \in bucket'
OneOutgoing(o) ==
    \/ att' = att
    \/ \E r : Touches(o, r) /\ (r.st = "stored" /\ o \in Kept => att[o].st = "stored" \/ o \in bucket)
RowsKeepTheirId ==
    /\ msg' \in [Out -> MsgRow]
    /\ \A o \in Out : msg[o] # NoMsg => msg'[o] # NoMsg /\ msg'[o].id = msg[o].id
WireTakes(q) ==
    /\ wire' \in [Out -> SUBSET (Request \cup {NoKey})]
    /\ \A o \in Out : \/ wire'[o] = wire[o]
                      \/ /\ o = Token[q] /\ req[q].pc = "send"
                         /\ wire'[o] = wire[o] \cup {req[q].id}

LEMMA RequestKeeps ==
  ASSUME MediaAssumption, MediaInv, NEW q \in Request, NEW r, RequestTo(q, r), OneOutgoing(Token[q]),
         RowsKeepTheirId, WireTakes(q), UNCHANGED objects, ReqOnly,
         bucket' = bucket \/ bucket' = bucket \cup {Token[q]}
  PROVE  MediaInv'
<1> DEFINE o == Token[q]
<1>1. o \in Out /\ o \in Att /\ o \notin In /\ o \notin Hashed /\ o \notin File /\ OwnKey(o) = o
  BY DEF MediaAssumption, Att, OwnKey
<1>2. UNCHANGED <<fetch, janitor, deleter, old, cut, cleared>>
  BY DEF ReqOnly
<1>3. AttOK' /\ \A b \in Att \ {o} : att'[b] = att[b]
  BY TouchedRows DEF OneOutgoing, MediaInv, AttOK
<1>4. FetchOK' /\ JanitorOK' /\ DeleterOK'
  BY <1>2 DEF MediaInv, FetchOK, JanitorOK, DeleterOK
<1>5. /\ req' = [p \in Request |-> req'[p]] /\ req'[q] = r
      /\ \A p \in Request \ {q} : req'[p] = req[p]
  BY DEF RequestTo, MediaInv, ReqOK
<1>6. \A p \in Request : Token[p] \in Out
  BY DEF MediaAssumption
<1>7. ReqOK'
  <2>1. \A p \in Request \ {q} :
            /\ Working(req'[p])
            /\ req'[p].pc \in {"store", "upload", "mark", "send"} /\ Token[p] \notin cleared' =>
                  msg'[Token[p]] # NoMsg /\ req'[p].id = msg'[Token[p]].id
    BY <1>2, <1>5, <1>6 DEF MediaInv, ReqOK, RowsKeepTheirId
  <2>2. /\ Working(req'[q])
        /\ req'[q].pc \in {"store", "upload", "mark", "send"} /\ Token[q] \notin cleared' =>
              msg'[Token[q]] # NoMsg /\ req'[q].id = msg'[Token[q]].id
    BY <1>2, <1>5 DEF RequestTo
  <2>3. \A p \in Request :
            /\ Working(req'[p])
            /\ req'[p].pc \in {"store", "upload", "mark", "send"} /\ Token[p] \notin cleared' =>
                  msg'[Token[p]] # NoMsg /\ req'[p].id = msg'[Token[p]].id
    BY <2>1, <2>2
  <2> QED BY <1>5, <2>3 DEF ReqOK
<1>8. WireIds'
  <2> SUFFICES ASSUME NEW p \in Out \ cleared
               PROVE  wire'[p] \subseteq {msg'[p].id} /\ (msg'[p] = NoMsg => wire'[p] = {})
    BY <1>2 DEF WireIds, RowsKeepTheirId, WireTakes
  <2>1. wire[p] \subseteq {msg[p].id} /\ (msg[p] = NoMsg => wire[p] = {})
    BY DEF MediaInv, WireIds
  <2>2. wire[p] \subseteq {msg'[p].id} /\ (msg'[p] = NoMsg => wire[p] = {})
    BY <2>1 DEF RowsKeepTheirId
  <2>3. CASE wire'[p] = wire[p]
    BY <2>2, <2>3
  <2>4. CASE p = o /\ req[q].pc = "send" /\ wire'[p] = wire[p] \cup {req[q].id}
    <3>1. msg[p] # NoMsg /\ req[q].id = msg[p].id
      BY <2>4 DEF MediaInv, ReqOK
    <3> QED BY <2>2, <2>4, <3>1 DEF RowsKeepTheirId
  <2> QED BY <2>3, <2>4 DEF WireTakes
<1>9. Kept' = Kept /\ bucket \subseteq bucket'
  BY <1>2 DEF Kept
<1>10. FileFirst'
  <2>1. \A p \in Kept : att'[p].st = "stored" => p \in bucket'
    <3> SUFFICES ASSUME NEW p \in Kept, att'[p].st = "stored" PROVE p \in bucket'
      OBVIOUS
    <3>1. p \in Att /\ p \in Out
      BY DEF Kept, Att
    <3>2. att[p].st = "stored" => p \in bucket
      BY DEF MediaInv, FileFirst
    <3>3. CASE p # o
      BY <1>3, <1>9, <3>1, <3>2, <3>3
    <3>4. CASE p = o
      <4>1. att[p].st = "stored" \/ p \in bucket
        BY <3>1, <3>4, TouchedRows DEF OneOutgoing, MediaInv
      <4> QED BY <1>9, <3>2, <4>1
    <3> QED BY <3>3, <3>4
  <2>2. \A p \in Request \ {q} : req'[p].pc \in {"mark", "send"} /\ Token[p] \in Kept => Token[p] \in bucket'
    BY <1>5, <1>9 DEF MediaInv, FileFirst
  <2>3. req'[q].pc \in {"mark", "send"} /\ Token[q] \in Kept => Token[q] \in bucket'
    BY <1>5 DEF RequestTo
  <2> QED BY <1>9, <2>1, <2>2, <2>3 DEF FileFirst
<1>11. SentHasItsFile'
  <2> SUFFICES ASSUME NEW p \in Kept, wire'[p] # {} PROVE p \in bucket'
    BY <1>2 DEF SentHasItsFile, Kept
  <2>1. wire[p] # {} => p \in bucket
    BY DEF MediaInv, SentHasItsFile, Kept
  <2>2. req[q].pc = "send" /\ p = o => p \in bucket
    BY DEF MediaInv, FileFirst
  <2> QED BY <1>9, <2>1, <2>2 DEF WireTakes, Kept
<1>12. YoungIsRegistered'
  BY <1>1, <1>2, <1>3 DEF MediaInv, YoungIsRegistered, Stored, MediaAssumption, Att
<1>13. Traced'
  BY <1>1, <1>2 DEF MediaInv, Traced, Registering, Letting, KeyOf
<1> QED BY <1>3, <1>4, <1>7, <1>8, <1>10, <1>11, <1>12, <1>13 DEF MediaInv

LEMMA ContinueTo ==
  ASSUME MediaInv, NEW o \in Out, NEW b \in BOOLEAN, msg[o] # NoMsg
  PROVE  LET r == Continue(msg[o], b) IN
           /\ Working(r) /\ r.pc \notin {"mark", "send"}
           /\ r.pc \in {"store", "upload", "mark", "send"} => r.id = msg[o].id
<1>1. msg[o] \in MsgRow
  BY DEF MediaInv, WireIds
<1>2. CASE msg[o].st \in {"pending", "failed"}
  <2>1. Continue(msg[o], b) = [pc |-> "store", attached |-> b, id |-> msg[o].id]
    BY <1>2 DEF Continue
  <2>2. Working([pc |-> "store", attached |-> b, id |-> msg[o].id])
    BY <1>1 DEF Working, Carrying, MsgRow
  <2> QED BY <2>1, <2>2
<1>3. CASE msg[o].st \notin {"pending", "failed"}
  BY <1>3 DEF Continue, Working, Idle
<1> QED BY <1>2, <1>3

LEMMA CarryOn ==
  ASSUME MediaInv, NEW q \in Request, req[q].pc \in Carrying, NEW pc \in Carrying
  PROVE  LET r == [req[q] EXCEPT !.pc = pc] IN
           /\ r = [pc |-> pc, attached |-> req[q].attached, id |-> req[q].id]
           /\ Working(r) /\ r.pc = pc /\ r.id = req[q].id /\ req[q].attached \in BOOLEAN
<1>1. Working(req[q]) /\ req[q] # Idle /\ req[q] # [pc |-> "insert"] /\ req[q] # [pc |-> "attach"]
  BY DEF MediaInv, ReqOK, Carrying, Idle
<1>2. /\ req[q] = [pc |-> req[q].pc, attached |-> req[q].attached, id |-> req[q].id]
      /\ req[q].attached \in BOOLEAN /\ req[q].id \in Request \cup {NoKey}
  BY <1>1 DEF Working
<1>3. [req[q] EXCEPT !.pc = pc] = [pc |-> pc, attached |-> req[q].attached, id |-> req[q].id]
  BY <1>2
<1>4. Working([pc |-> pc, attached |-> req[q].attached, id |-> req[q].id])
  BY <1>2 DEF Working
<1> QED BY <1>2, <1>3, <1>4

(* What a request that carries its row goes on with knows the row's id.     *)
LEMMA CarryTo ==
  ASSUME MediaInv, NEW q \in Request, req[q].pc \in {"store", "upload", "mark", "send"}, NEW pc \in Carrying,
         ReqStep(q, [req[q] EXCEPT !.pc = pc]), msg' = msg,
         pc \in {"mark", "send"} /\ Token[q] \in Kept => Token[q] \in bucket'
  PROVE  RequestTo(q, [req[q] EXCEPT !.pc = pc])
<1> DEFINE r == [req[q] EXCEPT !.pc = pc]
<1>0. req[q].pc \in Carrying
  BY DEF Carrying
<1>1. Working(r) /\ r.pc = pc /\ r.id = req[q].id
  BY <1>0, CarryOn
<1>2. Token[q] \notin cleared => msg[Token[q]] # NoMsg /\ req[q].id = msg[Token[q]].id
  BY DEF MediaInv, ReqOK
<1> QED BY <1>1, <1>2 DEF RequestTo, ReqStep

LEMMA SameRows ==
  ASSUME MediaInv, msg' = msg PROVE RowsKeepTheirId
BY DEF MediaInv, WireIds, RowsKeepTheirId

LEMMA SameWire ==
  ASSUME MediaInv, wire' = wire, NEW q PROVE WireTakes(q)
BY DEF MediaInv, WireIds, WireTakes

LEMMA SendBegins == ASSUME MediaAssumption, MediaInv, NEW q \in Request, SendStarts(q) PROVE MediaInv'
<1> DEFINE o == Token[q]
           r == IF msg[o] = NoMsg THEN [pc |-> "insert"]
                ELSE IF Exists(o) THEN Continue(msg[o], TRUE) ELSE [pc |-> "attach"]
<1>1. ReqStep(q, r) /\ UNCHANGED <<att, objects, msg, bucket, wire>> /\ ReqOnly /\ o \in Out
  BY DEF SendStarts, rows, MediaAssumption
<1>2. /\ Working(r) /\ r.pc \notin {"mark", "send"}
      /\ r.pc \in {"store", "upload", "mark", "send"} => msg[o] # NoMsg /\ r.id = msg[o].id
  <2>1. CASE msg[o] # NoMsg /\ Exists(o)
    BY <1>1, <2>1, ContinueTo
  <2>2. CASE ~(msg[o] # NoMsg /\ Exists(o))
    BY <2>2 DEF Working
  <2> QED BY <2>1, <2>2
<1> HIDE DEF r
<1>3. RequestTo(q, r)
  BY <1>1, <1>2 DEF RequestTo, ReqStep
<1> QED BY <1>1, <1>3, RequestKeeps, SameRows, SameWire DEF OneOutgoing

LEMMA SendSteps == ASSUME MediaAssumption, MediaInv, NEW q \in Request, Sends(q) PROVE MediaInv'
<1> DEFINE o == Token[q]
<1>0. o \in Out /\ o \in Att /\ OwnKey(o) = o /\ ReqOnly /\ objects' = objects
  BY DEF Sends, SendInserts, SendAttaches, SendChecksFile, SendUploads, SendMarks, SendGoesOut,
      SendOutcome, rows, MediaAssumption, Att, OwnKey
<1>1. CASE SendInserts(q)
  <2>1. UNCHANGED <<att, bucket, wire>>
    BY <1>1 DEF SendInserts
  <2>2. CASE msg[o] # NoMsg
    <3> DEFINE r == Continue(msg[o], Exists(o))
    <3>1. msg' = msg /\ ReqStep(q, r)
      BY <1>1, <2>2 DEF SendInserts, TokenTaken
    <3>2. Exists(o) \in BOOLEAN
      BY DEF Exists
    <3>3. /\ Working(r) /\ r.pc \notin {"mark", "send"}
          /\ r.pc \in {"store", "upload", "mark", "send"} => r.id = msg[o].id
      BY <1>0, <2>2, <3>2, ContinueTo
    <3> HIDE DEF r
    <3>4. RequestTo(q, r)
      BY <2>2, <3>1, <3>3 DEF RequestTo, ReqStep
    <3> QED BY <1>0, <2>1, <3>1, <3>4, RequestKeeps, SameRows, SameWire DEF OneOutgoing
  <2>3. CASE msg[o] = NoMsg
    <3>1. /\ msg' = [msg EXCEPT ![o] = [st |-> "pending", id |-> q]]
          /\ ReqStep(q, [pc |-> "attach"])
      BY <1>1, <2>3 DEF SendInserts, TokenTaken
    <3>2. RowsKeepTheirId
      BY <1>0, <2>3, <3>1 DEF RowsKeepTheirId, MediaInv, WireIds, MsgRow
    <3>3. RequestTo(q, [pc |-> "attach"])
      BY <3>1 DEF RequestTo, ReqStep, Working
    <3> QED BY <1>0, <2>1, <3>2, <3>3, RequestKeeps, SameWire DEF OneOutgoing
  <2> QED BY <2>2, <2>3
<1>2. CASE SendAttaches(q)
  <2>1. UNCHANGED <<msg, bucket, wire>>
    BY <1>2 DEF SendAttaches
  <2>2. CASE msg[o] = NoMsg
    <3>1. att' = att /\ ReqStep(q, Idle)
      BY <1>2, <2>2 DEF SendAttaches
    <3>2. RequestTo(q, Idle)
      BY <3>1 DEF RequestTo, ReqStep, Working, Idle
    <3> QED BY <1>0, <2>1, <3>1, <3>2, RequestKeeps, SameRows, SameWire DEF OneOutgoing
  <2>3. CASE msg[o] # NoMsg
    <3> DEFINE r == Continue(msg[o], TRUE)
               row == [st |-> "uploading", path |-> NoKey, ref |-> FALSE]
    <3>1. ReqStep(q, r) /\ (att' = att \/ att' = [att EXCEPT ![o] = row])
      BY <1>2, <2>3 DEF SendAttaches
    <3>2. /\ Working(r) /\ r.pc \notin {"mark", "send"}
          /\ r.pc \in {"store", "upload", "mark", "send"} => r.id = msg[o].id
      BY <1>0, <2>3, ContinueTo
    <3>3. row \in AttRow /\ row.path = NoKey /\ row.st # "stored"
      BY DEF AttRow, Statuses
    <3> HIDE DEF r, row
    <3>4. OneOutgoing(o)
      BY <1>0, <3>1, <3>3 DEF OneOutgoing, Touches
    <3>5. RequestTo(q, r)
      BY <2>1, <2>3, <3>1, <3>2 DEF RequestTo, ReqStep
    <3> QED BY <1>0, <2>1, <3>4, <3>5, RequestKeeps, SameRows, SameWire
  <2> QED BY <2>2, <2>3
<1>3. CASE SendChecksFile(q)
  <2>1. /\ UNCHANGED <<att, msg, bucket, wire>> /\ req[q].pc = "store"
        /\ ReqStep(q, AfterCheck(req[q], req[q].attached /\ att[o].st = "stored"))
    BY <1>3 DEF SendChecksFile, rows
  <2>2. CASE req[q].attached /\ att[o].st = "stored"
    <3>1. ReqStep(q, [req[q] EXCEPT !.pc = "send"])
      BY <2>1, <2>2 DEF AfterCheck
    <3>2. o \in Kept => o \in bucket'
      BY <2>1, <2>2 DEF MediaInv, FileFirst
    <3>3. RequestTo(q, [req[q] EXCEPT !.pc = "send"])
      BY <2>1, <3>1, <3>2, CarryTo DEF Carrying
    <3> QED BY <1>0, <2>1, <3>3, RequestKeeps, SameRows, SameWire DEF OneOutgoing
  <2>3. CASE ~(req[q].attached /\ att[o].st = "stored")
    <3>1. ReqStep(q, [req[q] EXCEPT !.pc = "upload"])
      BY <2>1, <2>3 DEF AfterCheck
    <3>2. RequestTo(q, [req[q] EXCEPT !.pc = "upload"])
      BY <2>1, <3>1, CarryTo DEF Carrying
    <3> QED BY <1>0, <2>1, <3>2, RequestKeeps, SameRows, SameWire DEF OneOutgoing
  <2> QED BY <2>2, <2>3
<1>4. CASE SendUploads(q)
  <2>1. /\ UNCHANGED <<att, msg, wire>> /\ req[q].pc = "upload" /\ bucket' = bucket \cup {o}
        /\ \/ ReqStep(q, [req[q] EXCEPT !.pc = "mark"])
           \/ ReqStep(q, [req[q] EXCEPT !.pc = "send"])
    BY <1>4 DEF SendUploads, rows
  <2>2. o \in bucket'
    BY <2>1
  <2>3. \E r : RequestTo(q, r)
    <3>1. CASE ReqStep(q, [req[q] EXCEPT !.pc = "mark"])
      <4>1. RequestTo(q, [req[q] EXCEPT !.pc = "mark"])
        BY <2>1, <2>2, <3>1, CarryTo DEF Carrying
      <4> QED BY <4>1
    <3>2. CASE ReqStep(q, [req[q] EXCEPT !.pc = "send"])
      <4>1. RequestTo(q, [req[q] EXCEPT !.pc = "send"])
        BY <2>1, <2>2, <3>2, CarryTo DEF Carrying
      <4> QED BY <4>1
    <3> QED BY <2>1, <3>1, <3>2
  <2> QED BY <1>0, <2>1, <2>3, RequestKeeps, SameRows, SameWire DEF OneOutgoing
<1>5. CASE SendMarks(q)
  <2>1. /\ UNCHANGED <<msg, bucket, wire>> /\ req[q].pc = "mark" /\ SetStored(o, o)
        /\ ReqStep(q, [req[q] EXCEPT !.pc = "send"])
    BY <1>5 DEF SendMarks
  <2>2. o \in Kept => o \in bucket
    BY <2>1 DEF MediaInv, FileFirst
  <2>3. OneOutgoing(o)
    <3>1. AttOK
      BY DEF MediaInv
    <3>2. \E r : Touches(o, r)
      BY <1>0, <2>1, <3>1, StoredTouches
    <3> QED BY <2>2, <3>2 DEF OneOutgoing
  <2>4. RequestTo(q, [req[q] EXCEPT !.pc = "send"])
    BY <2>1, <2>2, CarryTo DEF Carrying
  <2> QED BY <1>0, <2>1, <2>3, <2>4, RequestKeeps, SameRows, SameWire
<1>6. CASE SendGoesOut(q)
  <2>1. /\ UNCHANGED <<att, msg, bucket>> /\ req[q].pc = "send"
        /\ wire' = wire \/ wire' = [wire EXCEPT ![o] = @ \cup {req[q].id}]
        /\ ReqStep(q, [req[q] EXCEPT !.pc = "sent"]) \/ ReqStep(q, [req[q] EXCEPT !.pc = "failed"])
    BY <1>6 DEF SendGoesOut, rows
  <2>2. req[q].id \in Request \cup {NoKey}
    BY <2>1 DEF MediaInv, ReqOK, Working, Idle
  <2>3. WireTakes(q)
    BY <1>0, <2>1, <2>2 DEF MediaInv, WireIds, WireTakes
  <2>4. \E r : RequestTo(q, r)
    <3>1. CASE ReqStep(q, [req[q] EXCEPT !.pc = "sent"])
      <4>1. RequestTo(q, [req[q] EXCEPT !.pc = "sent"])
        BY <2>1, <3>1, CarryTo DEF Carrying
      <4> QED BY <4>1
    <3>2. CASE ReqStep(q, [req[q] EXCEPT !.pc = "failed"])
      <4>1. RequestTo(q, [req[q] EXCEPT !.pc = "failed"])
        BY <2>1, <3>2, CarryTo DEF Carrying
      <4> QED BY <4>1
    <3> QED BY <2>1, <3>1, <3>2
  <2> QED BY <1>0, <2>1, <2>3, <2>4, RequestKeeps, SameRows DEF OneOutgoing
<1>7. CASE SendOutcome(q)
  <2>1. /\ UNCHANGED <<att, bucket, wire>> /\ req[q].pc \in {"sent", "failed"} /\ ReqStep(q, Idle)
        /\ msg' = [msg EXCEPT ![o] = IF @ = NoMsg THEN @ ELSE [@ EXCEPT !.st = req[q].pc]]
    BY <1>7 DEF SendOutcome
  <2>2. RowsKeepTheirId
    <3> DEFINE row == IF msg[o] = NoMsg THEN msg[o] ELSE [msg[o] EXCEPT !.st = req[q].pc]
    <3>1. msg \in [Out -> MsgRow] /\ msg' = [msg EXCEPT ![o] = row]
      BY <2>1 DEF MediaInv, WireIds
    <3>2. row \in MsgRow /\ row.id = msg[o].id /\ (msg[o] # NoMsg => row # NoMsg)
      <4>1. msg[o] \in MsgRow
        BY <1>0, <3>1
      <4>2. CASE msg[o] = NoMsg
        BY <4>1, <4>2
      <4>3. CASE msg[o] # NoMsg
        <5>1. row = [msg[o] EXCEPT !.st = req[q].pc]
          BY <4>3
        <5> QED BY <2>1, <4>1, <5>1 DEF MsgRow, NoMsg
      <4> QED BY <4>2, <4>3
    <3> HIDE DEF row
    <3> QED BY <1>0, <3>1, <3>2 DEF RowsKeepTheirId
  <2>3. RequestTo(q, Idle)
    BY <2>1 DEF RequestTo, ReqStep, Working, Idle
  <2> QED BY <1>0, <2>1, <2>2, <2>3, RequestKeeps, SameWire DEF OneOutgoing
<1> QED BY <1>1, <1>2, <1>3, <1>4, <1>5, <1>6, <1>7 DEF Sends

-----------------------------------------------------------------------------
LEMMA AgesStep == ASSUME MediaAssumption, MediaInv, NEW a \in Att, Ages(a) PROVE MediaInv'
<1>1. /\ old' = old \cup {a}
      /\ UNCHANGED <<att, objects, msg, bucket, fetch, janitor, deleter, req, wire, cut, cleared>>
  BY DEF Ages, rows, procs
<1>2. AttOK' /\ FetchOK' /\ WireIds' /\ ReqOK'
  BY <1>1 DEF MediaInv, AttOK, FetchOK, WireIds, ReqOK
<1>3. JanitorOK' /\ DeleterOK'
  BY <1>1 DEF MediaInv, JanitorOK, DeleterOK
<1>4. FileFirst' /\ SentHasItsFile' /\ YoungIsRegistered'
  BY <1>1 DEF MediaInv, FileFirst, SentHasItsFile, YoungIsRegistered, Kept, Stored
<1>5. Traced'
  BY <1>1 DEF MediaInv, Traced, Registering, Letting, KeyOf
<1> QED BY <1>2, <1>3, <1>4, <1>5 DEF MediaInv

(* A crash leaves behind what was being registered or removed.              *)
LEMMA InHandHolds ==
  ASSUME NEW k, Registering(k) \/ Letting(k) PROVE k \in InHand
<1> DEFINE F == {KeyOf(fetch[f].a) : f \in {g \in Fetcher : fetch[g].pc \in {"register", "claim3", "mark"}}}
           J == IF janitor.pc = "remove" THEN janitor.keys ELSE {}
           D == IF deleter.pc \in {"release", "remove"} THEN deleter.keys ELSE {}
<1>1. InHand = F \cup J \cup D
  BY DEF InHand
<1>2. Registering(k) => k \in F
  BY DEF Registering
<1>3. Letting(k) => k \in J \/ k \in D
  BY DEF Letting
<1> QED
  <2> HIDE DEF F, J, D
  <2> QED BY <1>1, <1>2, <1>3

LEMMA CrashStep == ASSUME MediaAssumption, MediaInv, Crash PROVE MediaInv'
<1>1. /\ fetch' = [f \in Fetcher |-> Idle] /\ req' = [q \in Request |-> Idle]
      /\ janitor' = Idle /\ deleter' = Idle /\ cut' = cut \cup InHand
      /\ UNCHANGED <<att, objects, msg, bucket, old, wire, cleared>>
  BY DEF Crash, rows
<1>2. AttOK' /\ FetchOK' /\ JanitorOK' /\ DeleterOK' /\ WireIds'
  BY <1>1 DEF MediaInv, AttOK, FetchOK, JanitorOK, DeleterOK, WireIds
<1>3. ReqOK' /\ FileFirst'
  BY <1>1 DEF MediaInv, ReqOK, Working, FileFirst, Kept, Idle
<1>4. SentHasItsFile' /\ YoungIsRegistered'
  BY <1>1 DEF MediaInv, SentHasItsFile, YoungIsRegistered, Stored
<1>5. Traced'
  BY <1>1, InHandHolds DEF MediaInv, Traced
<1> QED BY <1>2, <1>3, <1>4, <1>5 DEF MediaInv

LEMMA MediaQuiet ==
  ASSUME MediaInv,
         UNCHANGED <<att, objects, msg, bucket, fetch, janitor, deleter, req, old, wire, cut, cleared>>
  PROVE  MediaInv'
<1>1. AttOK' /\ FetchOK' /\ JanitorOK' /\ DeleterOK' /\ WireIds' /\ ReqOK'
  BY DEF MediaInv, AttOK, FetchOK, JanitorOK, DeleterOK, WireIds, ReqOK
<1>2. FileFirst' /\ SentHasItsFile' /\ YoungIsRegistered' /\ Traced'
  BY DEF MediaInv, FileFirst, SentHasItsFile, YoungIsRegistered, Kept, Stored, Traced, Registering,
      Letting, KeyOf
<1> QED BY <1>1, <1>2 DEF MediaInv

LEMMA MediaInit == ASSUME MediaAssumption, Init PROVE MediaInv
<1>1. AttOK /\ FetchOK /\ JanitorOK /\ DeleterOK
  BY DEF Init, AttOK, AttRow, NoAtt, FetchOK, JanitorOK, DeleterOK
<1>2. WireIds /\ ReqOK
  BY DEF Init, WireIds, MsgRow, NoMsg, ReqOK, Working, Idle
<1>3. FileFirst /\ SentHasItsFile /\ YoungIsRegistered /\ Traced
  BY DEF Init, FileFirst, SentHasItsFile, YoungIsRegistered, Kept, Stored, Traced, NoAtt, Idle, Att,
      MediaAssumption
<1> QED BY <1>1, <1>2, <1>3 DEF MediaInv

LEMMA MediaNext == ASSUME MediaAssumption, MediaInv, [Next]_vars PROVE MediaInv'
<1>1. ASSUME NEW a \in In, RecordAttachment(a) PROVE MediaInv'
  BY <1>1, RecordStep
<1>2. ASSUME NEW a \in Att, Ages(a) PROVE MediaInv'
  BY <1>2, AgesStep
<1>3. CASE PruneLists \/ Deletes \/ \E a \in Att : DeleteRows(a)
  BY <1>3, DeleteSteps
<1>4. ASSUME NEW f \in Fetcher, Fetches(f) PROVE MediaInv'
  BY <1>4, FetchSteps
<1>5. ASSUME NEW f \in Fetcher, Abandon(f) \/ \E a \in In : Locate(f, a) PROVE MediaInv'
  BY <1>5, FetchBounds
<1>6. CASE Sweeps
  BY <1>6, SweepStep
<1>7. ASSUME NEW q \in Request, SendStarts(q) PROVE MediaInv'
  BY <1>7, SendBegins
<1>8. ASSUME NEW q \in Request, Sends(q) PROVE MediaInv'
  BY <1>8, SendSteps
<1>9. CASE ConnectionChanges \/ UNCHANGED vars
  BY <1>9, MediaQuiet DEF ConnectionChanges, vars, rows, procs, world
<1>10. CASE Crash
  BY <1>10, CrashStep
<1> QED BY <1>1, <1>2, <1>3, <1>4, <1>5, <1>6, <1>7, <1>8, <1>9, <1>10 DEF Next

(* No step of a fetcher, request, janitor or deleter, and no crash, leaves   *)
(* MediaInv: what each has in hand fits the rows, the registry and the store. *)
THEOREM MediaInductive == ASSUME MediaAssumption PROVE Spec => []MediaInv
<1>1. Init => MediaInv
  BY MediaInit
<1>2. MediaInv /\ [Next]_vars => MediaInv'
  BY MediaNext
<1> QED BY <1>1, <1>2, PTL DEF Spec

(* What the invariant promises. *)
LEMMA MediaPromises ==
  ASSUME MediaAssumption, MediaInv
  PROVE  OneMessagePerToken /\ SentHasItsFile /\ YoungIsRegistered /\ NoFileIsForgotten
<1>1. OneMessagePerToken
  <2> SUFFICES ASSUME NEW o \in Out \ cleared PROVE Cardinality(wire[o]) <= 1
    BY DEF OneMessagePerToken
  <2>1. wire[o] \subseteq {msg[o].id}
    BY DEF MediaInv, WireIds
  <2>2. IsFiniteSet({msg[o].id}) /\ Cardinality({msg[o].id}) = 1
    BY FS_Singleton
  <2>3. Cardinality(wire[o]) <= Cardinality({msg[o].id})
    BY <2>1, <2>2, FS_Subset
  <2> QED BY <2>2, <2>3
<1>2. NoFileIsForgotten
  <2> SUFFICES ASSUME NEW k \in bucket \cap File PROVE k \in objects \cup cut \cup InHand
    BY DEF NoFileIsForgotten
  <2> QED BY InHandHolds DEF MediaInv, Traced
<1> QED BY <1>1, <1>2 DEF MediaInv

(***************************************************************************)
(* However often a file is sent again under one client token, and whatever *)
(* is lost on the way, WhatsApp is given one message id for it.            *)
(***************************************************************************)
THEOREM TokenIsOneMessage == ASSUME MediaAssumption PROVE Spec => []OneMessagePerToken
<1>1. MediaInv => OneMessagePerToken
  BY MediaPromises
<1> QED BY <1>1, MediaInductive, PTL

(***************************************************************************)
(* A file message went out only after its file was in the bucket, and the  *)
(* file stays there until the message is past its window or deleted.       *)
(***************************************************************************)
THEOREM SentFileIsKept == ASSUME MediaAssumption PROVE Spec => []SentHasItsFile
<1>1. MediaInv => SentHasItsFile
  BY MediaPromises
<1> QED BY <1>1, MediaInductive, PTL

(***************************************************************************)
(* Whatever fetchers, the janitor and deletions do to each other, a stored *)
(* attachment inside the window has its content registered.                *)
(***************************************************************************)
THEOREM YoungStaysRegistered == ASSUME MediaAssumption PROVE Spec => []YoungIsRegistered
<1>1. MediaInv => YoungIsRegistered
  BY MediaPromises
<1> QED BY <1>1, MediaInductive, PTL

(***************************************************************************)
(* A file shared by content is never in the bucket without the registry, a *)
(* process or a recorded failure answering for it.                         *)
(***************************************************************************)
THEOREM FilesAreTraced == ASSUME MediaAssumption PROVE Spec => []NoFileIsForgotten
<1>1. MediaInv => NoFileIsForgotten
  BY MediaPromises
<1> QED BY <1>1, MediaInductive, PTL
=============================================================================
