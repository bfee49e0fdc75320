----------------------------- MODULE Recipients -----------------------------
(***************************************************************************)
(* The recipient list of a broadcast: what the operator picked becomes     *)
(* addresses, each given to a sending number; the rows are written, sent   *)
(* and answered.                                                           *)
(*                                                                         *)
(* online      sending numbers that are connected now                      *)
(* book        the saved contacts of all the numbers, by name              *)
(* threads     conversations the numbers have, as <<number, chat>>         *)
(* groups      what each number may do in each group it was ever in        *)
(* request     the source, and what was picked from it                     *)
(* phase       resolving (candidates are being assigned), planned, saved   *)
(* candidates, problems, duplicates, rows, cursor   the resolver's state   *)
(* sent, replied   rows that went out, and whose recipient wrote back      *)
(*                                                                         *)
(* A number is a sequence of parts: trunk zeros, a country code and a      *)
(* subscriber.  Subscribers start with an 8, as Indonesian mobiles do, and *)
(* so does the country code "81"; the lengths the code checks are those of *)
(* a number that ends with a subscriber.                                   *)
(***************************************************************************)
EXTENDS Integers, SequencesExt, FiniteSetsExt

CONSTANTS Device, Subscriber, Worlds, ContactLimit, None, MaxFlips

RecipientsAssumption == Device \subseteq Nat /\ Device # {} /\ ContactLimit \in Nat

VARIABLES online, threads, groups, book, request, phase, candidates, problems, duplicates,
          rows, cursor, sent, replied, flips

vars == <<online, threads, groups, book, request, phase, candidates, problems, duplicates,
          rows, cursor, sent, replied, flips>>
plan == <<candidates, problems, duplicates, rows, cursor>>
world == <<groups, book, request>>

-----------------------------------------------------------------------------
(* Typed numbers: mark is what precedes the digits, "+", "(" or nothing.   *)

Begins(digits, parts) == digits # <<>> /\ Head(digits) \in parts
TrunkZero(e) == e.mark = "" /\ Begins(e.digits, {"0"}) /\ ~Begins(Tail(e.digits), {"0"})
LooksLikeTrunklessIndonesian(digits) == Begins(digits, Subscriber \cup {"81"})
IsNumber(digits) == digits # <<>> /\ Last(digits) \in Subscriber

Digits(e) ==
    CASE TrunkZero(e) -> <<"62">> \o Tail(e.digits)
      [] Begins(e.digits, {"0"}) /\ Begins(Tail(e.digits), {"0"}) -> Tail(Tail(e.digits))
      [] e.mark # "+" /\ LooksLikeTrunklessIndonesian(e.digits) -> <<"62">> \o e.digits
      [] OTHER -> e.digits
NormalizeMSISDN_asTyped(e) == IF IsNumber(e.digits) THEN e.digits ELSE None
NormalizeMSISDN(e) == IF IsNumber(Digits(e)) THEN Digits(e) ELSE None

-----------------------------------------------------------------------------
(* Candidates of each source, in the order the resolver meets them.        *)

Candidate(chat, conv, device) == [chat |-> chat, conv |-> conv, device |-> device]

Rotation == SetToSortSeq(Device, <)

\* The first number that knows the chat lends its thread.
LookupChats(chat) ==
    LET knows == SelectSeq(Rotation, LAMBDA d : <<d, chat>> \in threads)
    IN  IF knows = <<>> THEN None ELSE <<Head(knows), chat>>

FromNumbers(typed) ==
    LET valid == SelectSeq(typed, LAMBDA e : NormalizeMSISDN(e) # None) IN
    [i \in DOMAIN valid |->
        LET chat == NormalizeMSISDN(valid[i]) IN Candidate(chat, LookupChats(chat), None)]

\* Saved contacts by name, up to the limit; those known by a LID are left out.
ContactTargets ==
    LET found == SelectSeq(book, LAMBDA c : ~c.lid)
    IN  SubSeq(found, 1, IF Len(found) < ContactLimit THEN Len(found) ELSE ContactLimit)

FromContacts(picked) ==
    LET found == SelectSeq(ContactTargets, LAMBDA c : picked = {} \/ c.id \in picked) IN
    [i \in DOMAIN found |->
        Candidate(found[i].chat,
                  IF <<found[i].device, found[i].chat>> \in threads
                  THEN <<found[i].device, found[i].chat>> ELSE None, None)]

\* The conversations of groups a number is still in.
GroupTargets == {g \in DOMAIN groups : groups[g] # "left"}
GroupOrder(g, h) == g[1] < h[1]
FromGroups(picked) ==
    LET found == SetToSortSeq({g \in GroupTargets : (picked = {} \/ g \in picked)
                                                    /\ groups[g] = "open"}, GroupOrder)
    IN  [i \in DOMAIN found |-> Candidate(found[i][2], found[i], found[i][1])]

\* A community or a group only admins may post to is a problem of its own; so
\* is a group picked that no number is in.
Unmatched_none(picked) == {}
Unmatched(picked) == picked \ GroupTargets
GroupProblems(picked) ==
    Unmatched(picked) \cup
    {g \in GroupTargets : (picked = {} \/ g \in picked) /\ groups[g] # "open"}

Keep(out, c) ==
    IF \E i \in DOMAIN out.list : out.list[i].chat = c.chat
    THEN [out EXCEPT !.duplicates = @ + 1]
    ELSE [out EXCEPT !.list = Append(@, c)]
Deduplicated(found) == FoldLeft(Keep, [list |-> <<>>, duplicates |-> 0], found)

Found ==
    CASE request.source = "manual" -> FromNumbers(request.picked)
      [] request.source = "contacts" -> FromContacts(request.picked)
      [] request.source = "groups" -> FromGroups(request.picked)

-----------------------------------------------------------------------------
Init ==
    /\ online \in SUBSET Device
    /\ \E w \in Worlds : /\ groups = w.groups /\ request = w.request
                         /\ book = w.contacts /\ threads = w.threads
    /\ phase = "open"
    /\ candidates = <<>> /\ problems = {} /\ duplicates = 0 /\ rows = <<>> /\ cursor = 0
    /\ sent = {} /\ replied = {}
    /\ flips = 0

\* Collect gathers, normalises and deduplicates.
Collect ==
    LET kept == Deduplicated(Found) IN
    /\ phase = "open"
    /\ candidates' = kept.list
    /\ duplicates' = kept.duplicates
    /\ problems' = CASE request.source = "manual" ->
                          {e \in Range(request.picked) : NormalizeMSISDN(e) = None}
                     [] request.source = "groups" -> GroupProblems(request.picked)
                     [] OTHER -> {}
    /\ phase' = "resolving"
    /\ UNCHANGED <<online, threads, world, rows, cursor, sent, replied, flips>>

\* From the cursor on, the first number that is online; if none is, the one
\* at the cursor.
Turn(i) == (cursor + i) % Len(Rotation)
Awake == {i \in 0..(Len(Rotation) - 1) : Rotation[Turn(i) + 1] \in online}
Steps == IF Awake = {} THEN 0 ELSE Min(Awake)
NextCursor_one == (cursor + 1) % Len(Rotation)
NextCursor == Turn(Steps + 1)

Row(c, device) == [chat |-> c.chat, conv |-> c.conv, device |-> device]

\* A group goes to its own number, a person to the next one.
Assign ==
    /\ phase = "resolving" /\ candidates # <<>>
    /\ LET c == Head(candidates) IN
       IF c.device # None
       THEN rows' = Append(rows, Row(c, c.device)) /\ UNCHANGED cursor
       ELSE rows' = Append(rows, Row(c, Rotation[Turn(Steps) + 1])) /\ cursor' = NextCursor
    /\ candidates' = Tail(candidates)
    /\ UNCHANGED <<online, threads, world, phase, problems, duplicates, sent, replied, flips>>

Plan ==
    /\ phase = "resolving" /\ candidates = <<>>
    /\ phase' = "planned"
    /\ UNCHANGED <<online, threads, world, plan, sent, replied, flips>>

\* A broadcast nobody would receive is refused; a chat has one row.
Save ==
    /\ phase = "planned" /\ rows # <<>>
    /\ phase' = "saved"
    /\ UNCHANGED <<online, threads, world, plan, sent, replied, flips>>

Flip(d) ==
    /\ phase = "resolving" /\ flips < MaxFlips /\ flips' = flips + 1
    /\ online' = IF d \in online THEN online \ {d} ELSE online \cup {d}
    /\ UNCHANGED <<threads, world, phase, plan, sent, replied>>

\* recordOutgoing writes the message into the row's thread, or opens one; the
\* row keeps the thread it was given.
Send(i) ==
    /\ phase = "saved" /\ i \notin sent
    /\ sent' = sent \cup {i}
    /\ threads' = IF rows[i].conv = None THEN threads \cup {<<rows[i].device, rows[i].chat>>}
                  ELSE threads
    /\ UNCHANGED <<online, world, phase, plan, replied, flips>>

\* The recipient answers the number that wrote, in that number's thread.
Reply(i) ==
    /\ i \in sent \ replied
    /\ replied' = replied \cup {i}
    /\ threads' = threads \cup {<<rows[i].device, rows[i].chat>>}
    /\ UNCHANGED <<online, world, phase, plan, sent, flips>>

Next ==
    \/ Collect \/ Assign \/ Plan \/ Save
    \/ \E d \in Device : Flip(d)
    \/ \E i \in DOMAIN rows : Send(i) \/ Reply(i)

Spec == Init /\ [][Next]_vars

\* The report joins a row to what arrived in the row's thread.
CampaignReplies ==
    {i \in sent : rows[i].conv # None /\
        \E j \in replied : rows[i].conv = <<rows[j].device, rows[j].chat>>}

-----------------------------------------------------------------------------
(* Who a typed number is for, as a person reads it: its subscriber and the *)
(* country, Indonesia unless another is written.                           *)
Reads(e, country, subscriber) ==
    /\ Last(e.digits) = subscriber
    /\ IF "81" \in Range(e.digits) THEN country = "81" ELSE country = "62"

(* A number written as 0812, +62812, 62812, 0062812 or 812 is one person,  *)
(* who has one row, and a number marked as foreign is somebody else        *)
(* (NormalizeMSISDN, collect).                                             *)
OneRowPerPerson ==
    phase = "planned" =>
        /\ \A i, j \in DOMAIN rows : rows[i].chat = rows[j].chat => i = j
        /\ request.source = "manual" =>
           \A s \in Subscriber, country \in {"62", "81"} :
               LET theirs == {e \in Range(request.picked) :
                                 /\ e.digits # <<>> /\ Reads(e, country, s)
                                 /\ e.mark # "("
                                 /\ country = "81" => e.mark = "+" \/ Head(e.digits) = "0"}
               IN  theirs # {} => \E i \in DOMAIN rows : rows[i].chat = <<country, s>>

(* While nobody connects or drops, the people of a list are shared out to  *)
(* within one among the numbers that are online, and a number that is      *)
(* offline gets nobody unless all are (assign).                            *)
LoadIsEven ==
    LET people(d) == Cardinality({i \in DOMAIN rows : rows[i].device = d}) IN
    flips = 0 /\ request.source # "groups" =>
        /\ \A d, e \in Device : (d \in online <=> e \in online) => people(d) - people(e) <= 1
        /\ online # {} => \A d \in Device \ online : people(d) = 0

(* "A chosen group the devices cannot post to is reported, not dropped":   *)
(* every group and every number picked has a row or a problem (collect).   *)
NobodyVanishes ==
    phase = "planned" =>
        /\ request.source = "manual" =>
             \A e \in Range(request.picked) :
                e \in problems \/ \E i \in DOMAIN rows : rows[i].chat = NormalizeMSISDN(e)
        /\ request.source = "groups" =>
             \A g \in request.picked : g \in problems \/ \E i \in DOMAIN rows : rows[i].chat = g[2]

(* "CampaignReplies counts inbound messages from targeted contacts that    *)
(* arrived after their campaign message": everybody who answered counts.   *)
RepliesAreCounted == CampaignReplies = replied
=============================================================================
