----------------------------- MODULE Annotations -----------------------------
(***************************************************************************)
(* What people do to a message after it was sent: they vote in its poll,   *)
(* react to it, edit it, take it back and pin it.                          *)
(*                                                                         *)
(* WhatsApp delivers these late, out of order and more than once, and what *)
(* is done on the web is written by the request that did it, since no echo *)
(* comes back for it.  Each update carries its time; the statements that   *)
(* store votes and reactions compare it, those for edits and pins do not.  *)
(***************************************************************************)
EXTENDS Integers, FiniteSets

CONSTANTS
  Customer,  \* the customers of the chat, by the identity they write under
  Own,       \* this account's canonical identity: ownVoter
  Lid,       \* its other identity
  Choice,    \* what a vote may hold: sets of options
  Emoji,     \* reactions
  Text,      \* what the message may be edited to
  Removed,   \* the reaction that takes a reaction off
  Nothing,
  MaxActs    \* bound on what people do

AnnotationsAssumption ==
  /\ Own # Lid /\ {Own, Lid} \cap Customer = {} /\ Removed \notin Emoji
  /\ \A c \in Choice : IsFiniteSet(c)
  /\ Nothing \notin [emoji : Emoji, at : Nat]

VARIABLES
  poll,      \* public.message_polls has the poll of this message
  voters,    \* public.message_poll_voters: the time of each identity's vote
  votes,     \* public.message_poll_votes: the options of each identity
  reactions, \* public.message_reactions: each identity's emoji and its time
  message,   \* the message's row: text, edited_at, revoked_at, pinned_until
  web,       \* the operator's request, between the send and the statement
  net,       \* updates WhatsApp may still deliver, or deliver again
  applied,   \* (history) the updates that have reached the statements
  clock      \* one tick for everything anybody does

store == <<poll, voters, votes, reactions, message>>
vars == <<store, web, net, applied, clock>>

Jid == Customer \cup {Own, Lid}
NoWeb == [k |-> "none"]
At(k, j, v) == [k |-> k, j |-> j, v |-> v, at |-> clock + 1]
Tick == clock < MaxActs /\ clock' = clock + 1
Latest(S) == CHOOSE e \in S : \A f \in S : f.at <= e.at

----------------------------------------------------------------------------
(* What reaches the chat from outside *)

(* A customer votes, reacts; the account's own phone does, and may sign     *)
(* with either identity; the author edits, deletes or pins.                 *)
Happens(e) == Tick /\ net' = net \cup {e} /\ UNCHANGED <<store, web, applied>>

Votes == \E j \in Jid, c \in Choice : Happens(At("vote", j, c))
Reacts == \E j \in Customer \cup {Own}, r \in Emoji \cup {Removed} : Happens(At("react", j, r))
Edits == \E t \in Text : Happens(At("edit", Own, t))
TakesBack == Happens(At("revoke", Own, Nothing))
\* A pin that is set has its author, one that is lifted nothing.
Pins == \E p \in {Own, Nothing} : Happens(At("pin", Own, p))

----------------------------------------------------------------------------
(* The statements *)

(* Mutant: the account's two identities are two voters. *)
Aliases_none(j) == {j}

(* handlePollUpdate: the account's identities are one voter, whichever of   *)
(* them signed; a customer is the identity that signed.                     *)
Aliases(j) == IF j \in {Own, Lid} THEN {Own, Lid} ELSE {j}
Canonical(j) == IF j = Lid THEN Own ELSE j

(* Mutant: a late vote wins. *)
Newer_any(at, S) == TRUE

(* newest: the vote is applied only when it is after every stored one *)
Newer(at, S) == \A j \in S : voters[j] < at

(***************************************************************************)
(* ApplyPollVote: one transaction that replaces the rows of every identity *)
(* of the voter with one row and its options, unless it is out of date.    *)
(***************************************************************************)
ApplyPollVote(e) ==
  LET S == Aliases(e.j)
      me == IF S = {e.j} THEN e.j ELSE Canonical(e.j)
  IN  IF ~poll \/ ~Newer(e.at, S) THEN UNCHANGED <<voters, votes>>
      ELSE /\ voters' = [j \in Jid |-> IF j = me THEN e.at ELSE IF j \in S THEN 0 ELSE voters[j]]
           /\ votes' = [j \in Jid |-> IF j = me THEN e.v ELSE IF j \in S THEN {} ELSE votes[j]]

(* Mutant: taking a reaction off does not look at the time. *)
TakeOff_any(r, at) == Nothing

TakeOff(r, at) == IF r # Nothing /\ r.at <= at THEN Nothing ELSE r

(***************************************************************************)
(* ApplyReaction: a newer emoji replaces an older one; taking one off      *)
(* deletes the row, and with it the time an older one would be held to.    *)
(***************************************************************************)
ApplyReaction(e) ==
  reactions' = [reactions EXCEPT ![e.j] =
    IF e.v = Removed THEN TakeOff(@, e.at)
    ELSE IF @ = Nothing \/ @.at < e.at THEN [emoji |-> e.v, at |-> e.at] ELSE @]

(* Mutant: an edit does not look whether the message was taken back. *)
Editable_always(m) == TRUE

(* where revoked_at is null *)
Editable(m) == ~m.revoked

(* EditMessageContent: whichever edit comes last is kept. *)
EditMessageContent(e) ==
  message' = IF Editable(message) THEN [message EXCEPT !.text = e.v, !.edited = e.at] ELSE message

(* RevokeMessage clears the text and keeps the first time. *)
RevokeMessage(e) == message' = [message EXCEPT !.text = Nothing, !.revoked = TRUE]

(* SetMessagePinned: a pin is held from the time it is stored. *)
SetMessagePinned(e) == message' = [message EXCEPT !.pinned = e.v]

Records(e) == applied' = applied \cup {e}

(* The handlers' targets: a vote is for a poll that is stored. *)
PollMessageIDForWAID == poll

Vote(e) ==
  IF PollMessageIDForWAID THEN ApplyPollVote(e) /\ Records(e) /\ UNCHANGED <<poll, reactions, message>>
  ELSE UNCHANGED <<store, applied>>
React(e) == ApplyReaction(e) /\ Records(e) /\ UNCHANGED <<poll, voters, votes, message>>
Edit(e) == EditMessageContent(e) /\ Records(e) /\ UNCHANGED <<poll, voters, votes, reactions>>
Revoke(e) == RevokeMessage(e) /\ Records(e) /\ UNCHANGED <<poll, voters, votes, reactions>>
Pin(e) == SetMessagePinned(e) /\ Records(e) /\ UNCHANGED <<poll, voters, votes, reactions>>

(* An update may be delivered late, and again. *)
Deliver(k, e) == e \in net /\ e.k = k /\ UNCHANGED <<web, net, clock>>

HandlePollUpdate(e) == Deliver("vote", e) /\ Vote(e)
HandleReaction(e) == Deliver("react", e) /\ React(e)
HandleMessageEdit(e) == Deliver("edit", e) /\ Edit(e)
HandleMessageRevoke(e) == Deliver("revoke", e) /\ Revoke(e)
ApplyPinFromPhone(e) == Deliver("pin", e) /\ Pin(e)

(* InsertPoll, of capturePollCreation or of attachHistoryPolls: a poll whose *)
(* message was stored before is not stored twice.                            *)
InsertPoll ==
  /\ ~poll /\ poll' = TRUE
  /\ UNCHANGED <<voters, votes, reactions, message, web, net, applied, clock>>

----------------------------------------------------------------------------
(* The web: each request checks, and sends; WhatsApp has it from there.     *)

Sends(k, v) == web = NoWeb /\ Tick /\ web' = [k |-> k, v |-> v] /\ UNCHANGED <<store, net, applied>>

VotePoll == poll /\ \E c \in Choice : Sends("vote", c)
SendReaction == ~message.revoked /\ \E r \in Emoji \cup {Removed} : Sends("react", r)
EditMessage == ~message.revoked /\ \E t \in Text : Sends("edit", t)
WebRevoke == ~message.revoked /\ Sends("revoke", Nothing)
PinMessage == ~message.revoked /\ \E p \in {Own, Nothing} : Sends("pin", p)

(* The statement, with the time the machine has by then. *)
WebApplies ==
  /\ web # NoWeb /\ Tick
  /\ LET e == At(web.k, Own, web.v) IN
       CASE web.k = "vote" -> Vote(e)
         [] web.k = "react" -> React(e)
         [] web.k = "edit" -> Edit(e)
         [] web.k = "revoke" -> Revoke(e)
         [] web.k = "pin" -> Pin(e)
  /\ web' = NoWeb
  /\ UNCHANGED net

(* The request is gone before the statement: nothing is stored. *)
WebLost ==
  /\ web # NoWeb /\ web' = NoWeb
  /\ UNCHANGED <<store, net, applied, clock>>

Init ==
  /\ poll = FALSE /\ voters = [j \in Jid |-> 0] /\ votes = [j \in Jid |-> {}]
  /\ reactions = [j \in Jid |-> Nothing]
  /\ message = [text |-> "first", edited |-> 0, revoked |-> FALSE, pinned |-> Nothing]
  /\ web = NoWeb /\ net = {} /\ applied = {} /\ clock = 0

Next ==
  \/ Votes \/ Reacts \/ Edits \/ TakesBack \/ Pins
  \/ \E e \in net :
       \/ HandlePollUpdate(e) \/ HandleReaction(e) \/ HandleMessageEdit(e)
       \/ HandleMessageRevoke(e) \/ ApplyPinFromPhone(e)
  \/ InsertPoll
  \/ VotePoll \/ SendReaction \/ EditMessage \/ WebRevoke \/ PinMessage
  \/ WebApplies \/ WebLost

Spec == Init /\ [][Next]_vars

----------------------------------------------------------------------------
Of(k, S) == {e \in applied : e.k = k /\ e.j \in S}

(* PollsForMessages: whom each option is counted for *)
PollsForMessages == [o \in UNION Choice |-> {j \in Jid : o \in votes[j]}]

(***************************************************************************)
(* A person counts once, for the options of the last vote that was stored, *)
(* whatever order votes arrive in, however often, under whichever identity *)
(* of the account, and wherever they were made.                            *)
(***************************************************************************)
PollCountsLastVotes ==
  \A P \in {{j} : j \in Customer} \cup {{Own, Lid}} : \A o \in UNION Choice :
    Cardinality(P \cap PollsForMessages[o]) =
      IF Of("vote", P) # {} /\ o \in Latest(Of("vote", P)).v THEN 1 ELSE 0

(***************************************************************************)
(* A reaction that is the last thing its author did is the one shown: no   *)
(* late update, and no late removal, takes its place.                      *)
(***************************************************************************)
LastReactionShows ==
  \A j \in Jid :
    LET S == Of("react", {j}) IN
    S # {} /\ Latest(S).v # Removed
      => reactions[j] = [emoji |-> Latest(S).v, at |-> Latest(S).at]

(* What was taken back stays empty, whatever edit comes after it. *)
TakenBackStaysEmpty == message.revoked => message.text = Nothing
=============================================================================
