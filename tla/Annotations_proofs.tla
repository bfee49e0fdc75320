-------------------------- MODULE Annotations_proofs --------------------------
(***************************************************************************)
(* For any customers, options, reactions and texts, and updates delivered  *)
(* late, again and in any order: polls count the last votes, the last      *)
(* reaction is the one shown, and what was taken back stays empty.         *)
(***************************************************************************)
EXTENDS Annotations, FiniteSetTheorems, TLAPS

Kinds == {"vote", "react", "edit", "revoke", "pin"}
Proper(k, v) == k \in Kinds /\ (k = "react" => v \in Emoji \cup {Removed})

Stamped(e) == e.at \in Nat \ {0} /\ e.at <= clock /\ e.j \in Jid /\ Proper(e.k, e.v)

(* No two things are done at one time.                                      *)
Clocks ==
    /\ clock \in Nat
    /\ \A e \in net \cup applied : Stamped(e)
    /\ \A e, f \in net \cup applied : e.at = f.at => e = f
    /\ web # NoWeb => Proper(web.k, web.v)

Last(S, e) == e \in S /\ \A f \in S : f.at <= e.at
HasLast(S) == S # {} => \E e \in S : Last(S, e)

(* The row of a voter is that of its last vote; the account has one row,    *)
(* under its canonical identity.                                            *)
VoteOf(j, S) ==
    /\ S = {} => voters[j] = 0 /\ votes[j] = {}
    /\ HasLast(S)
    /\ \A e \in S : Last(S, e) => voters[j] = e.at /\ votes[j] = e.v
VoteRows ==
    /\ voters \in [Jid -> Nat]
    /\ \A j \in Jid \ {Lid} : VoteOf(j, Of("vote", Aliases(j)))
    /\ voters[Lid] = 0 /\ votes[Lid] = {}

(* A reaction that is stored was made; the one stored after an emoji that   *)
(* is the last thing done is that emoji. After a removal nothing is held to *)
(* its time, so an older emoji may come back: nothing is said of it here.   *)
Mark(e) == [emoji |-> e.v, at |-> e.at]
ReactionOf(j, S) ==
    /\ reactions[j] # Nothing => \E e \in S : e.v # Removed /\ reactions[j] = Mark(e)
    /\ HasLast(S)
    /\ \A e \in S : Last(S, e) /\ e.v # Removed => reactions[j] = Mark(e)
ReactionRows ==
    /\ reactions = [j \in Jid |-> reactions[j]]
    /\ \A j \in Jid : ReactionOf(j, Of("react", {j}))

MessageRow ==
    /\ message = [text |-> message.text, edited |-> message.edited, revoked |-> message.revoked,
                  pinned |-> message.pinned]
    /\ TakenBackStaysEmpty

AnnotationsInv == Clocks /\ VoteRows /\ ReactionRows /\ MessageRow

-----------------------------------------------------------------------------
(* Identities *)

LEMMA Identities ==
  ASSUME AnnotationsAssumption, NEW j \in Jid
  PROVE  /\ Canonical(j) \in Jid \ {Lid}
         /\ j \in Aliases(j) /\ Canonical(j) \in Aliases(j)
         /\ (IF Aliases(j) = {j} THEN j ELSE Canonical(j)) = Canonical(j)
         /\ \A i \in Aliases(j) : i = Canonical(j) \/ i = Lid
         /\ Canonical(j) \in Customer => Aliases(j) = {Canonical(j)}
         /\ Aliases(Canonical(j)) = Aliases(j)
         /\ \A i \in Jid \ {Lid} : j \in Aliases(i) <=> i = Canonical(j)
BY DEF AnnotationsAssumption, Jid, Canonical, Aliases

LEMMA OfGrows ==
  ASSUME NEW e, applied' = applied \cup {e}, NEW k, NEW P
  PROVE  /\ e.k = k /\ e.j \in P => Of(k, P)' = Of(k, P) \cup {e}
         /\ ~(e.k = k /\ e.j \in P) => Of(k, P)' = Of(k, P)
BY DEF Of

(* What reaches the statements is the only update with its time.            *)
Fresh(e) ==
    /\ e.at \in Nat \ {0} /\ e.j \in Jid /\ Proper(e.k, e.v)
    /\ \A f \in net \cup applied : f.at = e.at => f = e

-----------------------------------------------------------------------------
(* The statements *)

LEMMA VoteIsLast ==
  ASSUME AnnotationsAssumption, AnnotationsInv, NEW e, Fresh(e), e.k = "vote", ApplyPollVote(e), poll,
         applied' = applied \cup {e}
  PROVE  VoteRows'
<1> DEFINE me == Canonical(e.j)
           S == Aliases(e.j)
           O == Of("vote", S)
<1>1. e.j \in Jid /\ e.at \in Nat /\ e.at > 0
  BY DEF Fresh
<1>2. /\ me \in Jid \ {Lid} /\ e.j \in S /\ me \in S
      /\ (IF S = {e.j} THEN e.j ELSE Canonical(e.j)) = me
      /\ \A i \in S : i = me \/ i = Lid
      /\ Aliases(me) = S
      /\ \A i \in Jid \ {Lid} : e.j \in Aliases(i) <=> i = me
  BY <1>1, Identities
<1>3. voters \in [Jid -> Nat] /\ Lid \in Jid /\ voters[Lid] = 0 /\ votes[Lid] = {}
  BY DEF AnnotationsInv, VoteRows, Jid
<1>4. Newer(e.at, S) <=> voters[me] < e.at
  BY <1>1, <1>2, <1>3 DEF Newer
<1>5. VoteOf(me, O) /\ O \subseteq applied /\ \A f \in O : f.at \in Nat
  BY <1>2 DEF AnnotationsInv, VoteRows, Of, Clocks, Stamped
<1>6. Of("vote", S)' = O \cup {e}
  BY <1>2, OfGrows
<1>7. CASE voters[me] < e.at
  <2>1. /\ voters' = [j \in Jid |-> IF j = me THEN e.at ELSE IF j \in S THEN 0 ELSE voters[j]]
        /\ votes' = [j \in Jid |-> IF j = me THEN e.v ELSE IF j \in S THEN {} ELSE votes[j]]
    BY <1>2, <1>4, <1>7 DEF ApplyPollVote
  <2>2. /\ voters' \in [Jid -> Nat] /\ voters'[Lid] = 0 /\ votes'[Lid] = {}
        /\ voters'[me] = e.at /\ votes'[me] = e.v
        /\ \A j \in Jid \ {Lid, me} : voters'[j] = voters[j] /\ votes'[j] = votes[j]
    BY <1>1, <1>2, <1>3, <2>1
  <2>3. \A f \in O : f.at < e.at
    BY <1>1, <1>2, <1>3, <1>5, <1>7 DEF VoteOf, HasLast, Last
  <2>4. Last(O \cup {e}, e) /\ \A f \in O \cup {e} : Last(O \cup {e}, f) => f = e
    BY <1>1, <1>5, <2>3 DEF Last
  <2>5. VoteOf(me, Of("vote", S))'
    BY <1>6, <2>2, <2>4 DEF VoteOf, HasLast, Last
  <2>6. ASSUME NEW j \in Jid \ {Lid}, j # me PROVE VoteOf(j, Of("vote", Aliases(j)))'
    <3>1. VoteOf(j, Of("vote", Aliases(j))) /\ voters'[j] = voters[j] /\ votes'[j] = votes[j]
      BY <2>2, <2>6 DEF AnnotationsInv, VoteRows
    <3>2. Of("vote", Aliases(j))' = Of("vote", Aliases(j))
      BY <1>2, <2>6, OfGrows
    <3> QED BY <3>1, <3>2 DEF VoteOf
  <2>7. \A j \in Jid \ {Lid} : VoteOf(j, Of("vote", Aliases(j)))'
    BY <1>2, <2>5, <2>6
  <2> QED BY <2>2, <2>7 DEF VoteRows
<1>8. CASE ~(voters[me] < e.at)
  <2>1. voters' = voters /\ votes' = votes
    BY <1>4, <1>8 DEF ApplyPollVote
  <2>2. voters[me] >= e.at /\ voters[me] # 0
    BY <1>1, <1>2, <1>3, <1>8
  <2>3. PICK l \in O : Last(O, l) /\ l.at = voters[me] /\ votes[me] = l.v
    BY <1>5, <2>2 DEF VoteOf, HasLast
  <2>4. l.at \in Nat /\ e.at <= l.at /\ (l.at = e.at => l = e)
    BY <1>5, <2>2, <2>3 DEF Fresh
  <2>5. Last(O \cup {e}, l) /\ \A f \in O \cup {e} : Last(O \cup {e}, f) => f \in O /\ Last(O, f)
    BY <1>1, <1>5, <2>3, <2>4 DEF Last
  <2>6. VoteOf(me, Of("vote", S))'
    BY <1>5, <1>6, <2>1, <2>3, <2>5 DEF VoteOf, HasLast
  <2>7. ASSUME NEW j \in Jid \ {Lid}, j # me PROVE VoteOf(j, Of("vote", Aliases(j)))'
    <3>1. VoteOf(j, Of("vote", Aliases(j)))
      BY DEF AnnotationsInv, VoteRows
    <3>2. Of("vote", Aliases(j))' = Of("vote", Aliases(j))
      BY <1>2, <2>7, OfGrows
    <3> QED BY <2>1, <3>1, <3>2 DEF VoteOf
  <2>8. \A j \in Jid \ {Lid} : VoteOf(j, Of("vote", Aliases(j)))'
    BY <1>2, <2>6, <2>7
  <2> QED BY <1>3, <2>1, <2>8 DEF VoteRows
<1> QED BY <1>7, <1>8

LEMMA MarkIsNotNothing ==
  ASSUME AnnotationsAssumption, NEW e, e.v \in Emoji, e.at \in Nat
  PROVE  Mark(e) # Nothing /\ Mark(e).at = e.at
BY DEF AnnotationsAssumption, Mark

LEMMA ReactionIsLast ==
  ASSUME AnnotationsAssumption, AnnotationsInv, NEW e, Fresh(e), e.k = "react", ApplyReaction(e),
         applied' = applied \cup {e}
  PROVE  ReactionRows'
<1> DEFINE j == e.j
           O == Of("react", {e.j})
           r == reactions[e.j]
<1>1. j \in Jid /\ e.at \in Nat /\ e.at > 0 /\ e.v \in Emoji \cup {Removed}
  BY DEF Fresh, Proper
<1>2. /\ ReactionOf(j, O)
      /\ \A f \in O : f.at \in Nat /\ f.v \in Emoji \cup {Removed} /\ (f.at = e.at => f = e)
  BY <1>1 DEF AnnotationsInv, ReactionRows, Of, Clocks, Stamped, Fresh, Proper
<1>3. Of("react", {e.j})' = O \cup {e}
  BY OfGrows
<1>4. \A i \in Jid \ {j} : Of("react", {i})' = Of("react", {i})
  BY OfGrows
<1> DEFINE new == IF e.v = Removed THEN TakeOff(r, e.at)
                  ELSE IF r = Nothing \/ r.at < e.at THEN Mark(e) ELSE r
<1>5. reactions' = [reactions EXCEPT ![e.j] = new]
  BY DEF ApplyReaction, Mark
<1>6. /\ reactions' = [i \in Jid |-> reactions'[i]] /\ reactions'[j] = new
      /\ \A i \in Jid \ {j} : reactions'[i] = reactions[i]
  <2> HIDE DEF new
  <2> QED BY <1>1, <1>5 DEF AnnotationsInv, ReactionRows
<1>7. r # Nothing => \E f \in O : f.v \in Emoji /\ r = Mark(f) /\ r.at = f.at /\ r.at \in Nat
  BY <1>2, MarkIsNotNothing DEF ReactionOf
<1>8. \E l \in O \cup {e} : Last(O \cup {e}, l)
  <2>1. CASE O = {}
    <3>1. Last({e}, e)
      BY <1>1 DEF Last
    <3> HIDE DEF O
    <3> QED BY <2>1, <3>1
  <2>2. CASE O # {}
    <3>1. PICK l \in O : Last(O, l)
      BY <1>2, <2>2 DEF ReactionOf, HasLast
    <3> HIDE DEF O
    <3>2. CASE l.at <= e.at
      <4>1. Last(O \cup {e}, e)
        BY <1>1, <1>2, <3>1, <3>2 DEF Last
      <4> QED BY <4>1
    <3>3. CASE ~(l.at <= e.at)
      <4>1. Last(O \cup {e}, l)
        BY <1>1, <1>2, <3>1, <3>3 DEF Last
      <4> QED BY <3>1, <4>1
    <3> QED BY <3>2, <3>3
  <2> QED BY <2>1, <2>2
<1>9. new # Nothing => \E f \in O \cup {e} : f.v # Removed /\ new = Mark(f)
  BY <1>1, <1>2 DEF ReactionOf, TakeOff
<1>10. ASSUME NEW f \in O \cup {e}, Last(O \cup {e}, f), f.v # Removed
       PROVE  new = Mark(f)
  <2>1. CASE f = e
    <3>1. \A g \in O : g.at <= e.at
      BY <1>10, <2>1 DEF Last
    <3>2. CASE r = Nothing \/ r.at < e.at
      BY <1>10, <2>1, <3>2
    <3>3. CASE ~(r = Nothing \/ r.at < e.at)
      <4>1. PICK g \in O : r = Mark(g) /\ r.at = g.at /\ r.at \in Nat
        BY <1>7, <3>3
      <4>2. g.at = e.at
        BY <1>1, <3>1, <3>3, <4>1
      <4>3. g = e
        BY <1>2, <4>2
      <4> QED BY <1>10, <2>1, <3>3, <4>1, <4>3
    <3> QED BY <3>2, <3>3
  <2>2. CASE f # e
    <3>1. f \in O /\ Last(O, f) /\ f.at \in Nat /\ e.at <= f.at /\ f.at # e.at /\ f.v \in Emoji
      BY <1>2, <1>10, <2>2 DEF Last
    <3>2. r = Mark(f) /\ r # Nothing /\ r.at = f.at
      BY <1>2, <3>1, <1>10, MarkIsNotNothing DEF ReactionOf
    <3>3. ~(r.at <= e.at) /\ ~(r.at < e.at)
      BY <1>1, <3>1, <3>2
    <3> QED BY <3>2, <3>3 DEF TakeOff
  <2> QED BY <2>1, <2>2
<1>11. ReactionOf(j, Of("react", {e.j}))'
  <2> HIDE DEF new, O
  <2> QED BY <1>3, <1>6, <1>8, <1>9, <1>10 DEF ReactionOf, HasLast
<1>12. \A i \in Jid \ {j} : ReactionOf(i, Of("react", {i}))'
  <2> SUFFICES ASSUME NEW i \in Jid \ {j} PROVE ReactionOf(i, Of("react", {i}))'
    OBVIOUS
  <2>1. ReactionOf(i, Of("react", {i})) /\ reactions'[i] = reactions[i]
    BY <1>6 DEF AnnotationsInv, ReactionRows
  <2>2. Of("react", {i})' = Of("react", {i})
    BY <1>4
  <2> QED BY <2>1, <2>2 DEF ReactionOf
<1> QED BY <1>6, <1>11, <1>12 DEF ReactionRows

(* An update of another kind leaves the rows of votes, or of reactions.     *)
LEMMA VotesKept ==
  ASSUME AnnotationsInv, NEW e, e.k # "vote", applied' = applied \cup {e}, UNCHANGED <<voters, votes>>
  PROVE  VoteRows'
<1>1. \A P : Of("vote", P)' = Of("vote", P)
  BY OfGrows
<1>2. \A j \in Jid \ {Lid} : VoteOf(j, Of("vote", Aliases(j)))'
  BY <1>1 DEF AnnotationsInv, VoteRows, VoteOf
<1> QED BY <1>2 DEF AnnotationsInv, VoteRows

LEMMA ReactionsKept ==
  ASSUME AnnotationsInv, NEW e, e.k # "react", applied' = applied \cup {e}, UNCHANGED reactions
  PROVE  ReactionRows'
<1>1. \A P : Of("react", P)' = Of("react", P)
  BY OfGrows
<1>2. \A j \in Jid : ReactionOf(j, Of("react", {j}))'
  BY <1>1 DEF AnnotationsInv, ReactionRows, ReactionOf
<1> QED BY <1>2 DEF AnnotationsInv, ReactionRows

(* A step that applies nothing leaves all of them.                          *)
LEMMA RowsKept ==
  ASSUME AnnotationsInv, UNCHANGED <<voters, votes, reactions, message, applied>>
  PROVE  VoteRows' /\ ReactionRows' /\ MessageRow'
<1>1. \A k, P : Of(k, P)' = Of(k, P)
  BY DEF Of
<1>2. \A j \in Jid \ {Lid} : VoteOf(j, Of("vote", Aliases(j)))'
  BY <1>1 DEF AnnotationsInv, VoteRows, VoteOf
<1>3. \A j \in Jid : ReactionOf(j, Of("react", {j}))'
  BY <1>1 DEF AnnotationsInv, ReactionRows, ReactionOf
<1> QED BY <1>2, <1>3 DEF AnnotationsInv, VoteRows, ReactionRows, MessageRow, TakenBackStaysEmpty

(* The statement of each kind of update.                                    *)
Applies(e) ==
    \/ e.k = "vote" /\ Vote(e)
    \/ e.k = "react" /\ React(e)
    \/ e.k = "edit" /\ Edit(e)
    \/ e.k = "revoke" /\ Revoke(e)
    \/ e.k = "pin" /\ Pin(e)

LEMMA StatementStep ==
  ASSUME AnnotationsAssumption, AnnotationsInv, NEW e, Fresh(e), Applies(e)
  PROVE  VoteRows' /\ ReactionRows' /\ MessageRow' /\ applied' \in {applied, applied \cup {e}}
<1>1. CASE e.k = "vote" /\ Vote(e) /\ poll
  <2>1. ApplyPollVote(e) /\ applied' = applied \cup {e} /\ UNCHANGED <<reactions, message>>
    BY <1>1 DEF Vote, PollMessageIDForWAID, Records
  <2> QED BY <1>1, <2>1, VoteIsLast, ReactionsKept DEF AnnotationsInv, MessageRow, TakenBackStaysEmpty
<1>2. CASE e.k = "vote" /\ Vote(e) /\ ~poll
  <2>1. UNCHANGED <<voters, votes, reactions, message, applied>>
    BY <1>2 DEF Vote, PollMessageIDForWAID, store
  <2> QED BY <2>1, RowsKept
<1>3. CASE e.k = "react" /\ React(e)
  <2>1. ApplyReaction(e) /\ applied' = applied \cup {e} /\ UNCHANGED <<voters, votes, message>>
    BY <1>3 DEF React, Records
  <2> QED BY <1>3, <2>1, ReactionIsLast, VotesKept DEF AnnotationsInv, MessageRow, TakenBackStaysEmpty
<1>4. CASE \/ e.k = "edit" /\ Edit(e)
           \/ e.k = "revoke" /\ Revoke(e)
           \/ e.k = "pin" /\ Pin(e)
  <2>1. /\ applied' = applied \cup {e} /\ UNCHANGED <<voters, votes, reactions>>
        /\ e.k # "vote" /\ e.k # "react"
    BY <1>4 DEF Edit, Revoke, Pin, Records
  <2>2. MessageRow'
    <3>1. CASE Edit(e)
      <4>1. CASE message.revoked
        BY <3>1, <4>1 DEF Edit, EditMessageContent, Editable, AnnotationsInv, MessageRow, TakenBackStaysEmpty
      <4>2. CASE ~message.revoked
        BY <3>1, <4>2 DEF Edit, EditMessageContent, Editable, AnnotationsInv, MessageRow, TakenBackStaysEmpty
      <4> QED BY <4>1, <4>2
    <3>2. CASE Revoke(e)
      BY <3>2 DEF Revoke, RevokeMessage, AnnotationsInv, MessageRow, TakenBackStaysEmpty
    <3>3. CASE Pin(e)
      BY <3>3 DEF Pin, SetMessagePinned, AnnotationsInv, MessageRow, TakenBackStaysEmpty
    <3> QED BY <1>4, <3>1, <3>2, <3>3
  <2> QED BY <2>1, <2>2, VotesKept, ReactionsKept
<1> QED BY <1>1, <1>2, <1>3, <1>4 DEF Applies

-----------------------------------------------------------------------------
(* The steps *)

LEMMA DeliverStep ==
  ASSUME AnnotationsAssumption, AnnotationsInv, NEW e \in net, Applies(e), UNCHANGED <<web, net, clock>>
  PROVE  AnnotationsInv'
<1>1. Fresh(e)
  BY DEF AnnotationsInv, Clocks, Stamped, Fresh
<1>2. VoteRows' /\ ReactionRows' /\ MessageRow' /\ applied' \in {applied, applied \cup {e}}
  BY <1>1, StatementStep
<1>3. net' \cup applied' = net \cup applied
  BY <1>2
<1>4. Clocks'
  BY <1>3 DEF AnnotationsInv, Clocks, Stamped
<1> QED BY <1>2, <1>4 DEF AnnotationsInv

LEMMA Younger ==
  ASSUME AnnotationsInv, NEW e, e.at = clock + 1, e.j \in Jid, Proper(e.k, e.v), clock' = clock + 1,
         NEW N, N \subseteq (net \cup applied) \cup {e}, net' \cup applied' = N,
         web' # NoWeb => Proper(web'.k, web'.v)
  PROVE  Clocks' /\ Fresh(e)
<1>1. /\ clock \in Nat /\ clock' \in Nat /\ e.at \in Nat \ {0} /\ e.at <= clock'
      /\ \A f \in net \cup applied : Stamped(f) /\ f.at \in Nat /\ f.at <= clock /\ f.at # e.at
  BY DEF AnnotationsInv, Clocks, Stamped
<1>2. \A f \in N : Stamped(f)'
  BY <1>1 DEF Stamped
<1>3. \A f, g \in N : f.at = g.at => f = g
  BY <1>1 DEF AnnotationsInv, Clocks
<1> QED BY <1>1, <1>2, <1>3 DEF Clocks, Fresh

LEMMA HappensStep ==
  ASSUME AnnotationsInv, NEW k \in Kinds, NEW j \in Jid, NEW v,
         k = "react" => v \in Emoji \cup {Removed}, Happens(At(k, j, v))
  PROVE  AnnotationsInv'
<1> DEFINE e == At(k, j, v)
<1>1. /\ e.at = clock + 1 /\ e.j = j /\ e.k = k /\ e.v = v /\ clock' = clock + 1
      /\ net' = net \cup {e} /\ UNCHANGED <<voters, votes, reactions, message, web, applied>>
  BY DEF At, Happens, Tick, store
<1> HIDE DEF e
<1>2. Proper(e.k, e.v) /\ (web' # NoWeb => Proper(web'.k, web'.v))
  BY <1>1 DEF Proper, AnnotationsInv, Clocks
<1>3. Clocks'
  BY <1>1, <1>2, Younger
<1> QED BY <1>1, <1>3, RowsKept DEF AnnotationsInv

LEMMA WebStep == ASSUME AnnotationsAssumption, AnnotationsInv, WebApplies PROVE AnnotationsInv'
<1> DEFINE e == At(web.k, Own, web.v)
<1>1. /\ e.at = clock + 1 /\ e.j = Own /\ e.k = web.k /\ e.v = web.v /\ clock' = clock + 1
      /\ Proper(web.k, web.v) /\ Own \in Jid /\ web' = NoWeb /\ net' = net
  BY DEF At, WebApplies, Tick, AnnotationsInv, Clocks, Jid
<1>2. Applies(e)
  <2>1. e.k \in Kinds
    BY <1>1 DEF Proper
  <2>2. /\ e.k = "vote" => Vote(e)
        /\ e.k = "react" => React(e)
        /\ e.k = "edit" => Edit(e)
        /\ e.k = "revoke" => Revoke(e)
        /\ e.k = "pin" => Pin(e)
    BY <1>1 DEF WebApplies
  <2> HIDE DEF e
  <2> QED BY <2>1, <2>2 DEF Applies, Kinds
<1> HIDE DEF e
<1>3. Fresh(e)
  BY <1>1 DEF Fresh, AnnotationsInv, Clocks, Stamped
<1>4. VoteRows' /\ ReactionRows' /\ MessageRow' /\ applied' \in {applied, applied \cup {e}}
  BY <1>2, <1>3, StatementStep
<1>5. net' \cup applied' \subseteq (net \cup applied) \cup {e}
  BY <1>1, <1>4
<1>6. Clocks'
  BY <1>1, <1>5, Younger
<1> QED BY <1>4, <1>6 DEF AnnotationsInv

LEMMA SendsStep ==
  ASSUME AnnotationsInv, NEW k \in Kinds, NEW v, k = "react" => v \in Emoji \cup {Removed}, Sends(k, v)
  PROVE  AnnotationsInv'
<1>1. /\ web' = [k |-> k, v |-> v] /\ clock' = clock + 1
      /\ UNCHANGED <<voters, votes, reactions, message, net, applied>>
  BY DEF Sends, Tick, store
<1>2. Clocks'
  <2>1. \A e \in net \cup applied : Stamped(e)'
    BY <1>1 DEF AnnotationsInv, Clocks, Stamped
  <2> QED BY <1>1, <2>1 DEF AnnotationsInv, Clocks, Proper
<1> QED BY <1>1, <1>2, RowsKept DEF AnnotationsInv

LEMMA AnnotationsInit == ASSUME AnnotationsAssumption, Init PROVE AnnotationsInv
<1>1. Clocks /\ MessageRow
  BY DEF Init, Clocks, NoWeb, MessageRow, TakenBackStaysEmpty
<1>2. \A k, P : Of(k, P) = {}
  BY DEF Init, Of
<1>3. VoteRows
  BY <1>2 DEF Init, VoteRows, VoteOf, HasLast, Jid
<1>4. ReactionRows
  BY <1>2 DEF Init, ReactionRows, ReactionOf, HasLast
<1> QED BY <1>1, <1>3, <1>4 DEF AnnotationsInv

LEMMA AnnotationsStep ==
  ASSUME AnnotationsAssumption, AnnotationsInv, [Next]_vars
  PROVE  AnnotationsInv'
<1>1. Own \in Jid /\ Customer \cup {Own} \subseteq Jid
  BY DEF Jid
<1>2. CASE Votes \/ Reacts \/ Edits \/ TakesBack \/ Pins
  BY <1>1, <1>2, HappensStep DEF Votes, Reacts, Edits, TakesBack, Pins, Kinds
<1>3. ASSUME NEW e \in net,
             \/ HandlePollUpdate(e) \/ HandleReaction(e) \/ HandleMessageEdit(e)
             \/ HandleMessageRevoke(e) \/ ApplyPinFromPhone(e)
      PROVE  AnnotationsInv'
  <2>1. Applies(e) /\ UNCHANGED <<web, net, clock>>
    BY <1>3 DEF HandlePollUpdate, HandleReaction, HandleMessageEdit, HandleMessageRevoke,
        ApplyPinFromPhone, Deliver, Applies
  <2> QED BY <2>1, DeliverStep
<1>4. CASE VotePoll \/ SendReaction \/ EditMessage \/ WebRevoke \/ PinMessage
  BY <1>4, SendsStep DEF VotePoll, SendReaction, EditMessage, WebRevoke, PinMessage, Kinds
<1>5. CASE InsertPoll \/ WebLost \/ UNCHANGED vars
  <2>1. UNCHANGED <<voters, votes, reactions, message, applied, net, clock>> /\ web' \in {web, NoWeb}
    BY <1>5 DEF InsertPoll, WebLost, vars, store
  <2>2. Clocks'
    BY <2>1 DEF AnnotationsInv, Clocks, Stamped
  <2> QED BY <2>1, <2>2, RowsKept DEF AnnotationsInv
<1> QED BY <1>2, <1>3, <1>4, <1>5, WebStep DEF Next

-----------------------------------------------------------------------------
(* What follows *)

LEMMA LatestIsLast == ASSUME NEW S, S # {}, HasLast(S) PROVE Latest(S) \in S /\ Last(S, Latest(S))
BY DEF HasLast, Last, Latest

LEMMA CountsFollow == ASSUME AnnotationsAssumption, AnnotationsInv PROVE PollCountsLastVotes
<1> SUFFICES ASSUME NEW P \in {{j} : j \in Customer} \cup {{Own, Lid}}, NEW o \in UNION Choice
             PROVE  Cardinality(P \cap PollsForMessages[o]) =
                      IF Of("vote", P) # {} /\ o \in Latest(Of("vote", P)).v THEN 1 ELSE 0
  BY DEF PollCountsLastVotes
<1>1. PICK j \in Jid \ {Lid} : P = Aliases(j) /\ j \in P /\ \A i \in P : i = j \/ i = Lid
  BY DEF AnnotationsAssumption, Jid, Aliases
<1> DEFINE S == Of("vote", P)
           C == P \cap PollsForMessages[o]
<1>2. VoteOf(j, S) /\ votes[Lid] = {}
  BY <1>1 DEF AnnotationsInv, VoteRows
<1>3. C = IF o \in votes[j] THEN {j} ELSE {}
  BY <1>1, <1>2 DEF PollsForMessages, Jid
<1>4. o \in votes[j] <=> S # {} /\ o \in Latest(S).v
  <2>1. CASE S = {}
    BY <1>2, <2>1 DEF VoteOf
  <2>2. CASE S # {}
    <3>1. Latest(S) \in S /\ Last(S, Latest(S))
      BY <1>2, <2>2, LatestIsLast DEF VoteOf
    <3>2. votes[j] = Latest(S).v
      BY <1>2, <3>1 DEF VoteOf
    <3> QED BY <2>2, <3>2
  <2> QED BY <2>1, <2>2
<1>5. Cardinality({j}) = 1 /\ Cardinality({}) = 0
  BY FS_Singleton, FS_EmptySet
<1> HIDE DEF C
<1>6. Cardinality(C) = IF o \in votes[j] THEN 1 ELSE 0
  BY <1>3, <1>5
<1> QED BY <1>4, <1>6 DEF C

LEMMA ReactionsFollow == ASSUME AnnotationsInv PROVE LastReactionShows
<1> SUFFICES ASSUME NEW j \in Jid, Of("react", {j}) # {}, Latest(Of("react", {j})).v # Removed
             PROVE  reactions[j] = [emoji |-> Latest(Of("react", {j})).v, at |-> Latest(Of("react", {j})).at]
  BY DEF LastReactionShows
<1> DEFINE S == Of("react", {j})
<1>1. ReactionOf(j, S)
  BY DEF AnnotationsInv, ReactionRows
<1>2. Latest(S) \in S /\ Last(S, Latest(S))
  BY <1>1, LatestIsLast DEF ReactionOf
<1> QED BY <1>1, <1>2 DEF ReactionOf, Mark

\* A person counts once in a poll, for the options of the last vote stored, for
\* any customers and options: late and repeated deliveries, votes made on the
\* web and either identity of the account included (handlePollUpdate,
\* ApplyPollVote).
THEOREM PollsCountLastVotes == ASSUME AnnotationsAssumption PROVE Spec => []PollCountsLastVotes
<1>1. Init => AnnotationsInv
  BY AnnotationsInit
<1>2. AnnotationsInv /\ [Next]_vars => AnnotationsInv'
  BY AnnotationsStep
<1>3. AnnotationsInv => PollCountsLastVotes
  BY CountsFollow
<1> QED BY <1>1, <1>2, <1>3, PTL DEF Spec

\* A reaction that is the last thing its author did is the one shown, and a
\* message that was taken back stays empty, whatever is delivered late
\* (ApplyReaction; RevokeMessage, EditMessageContent).
THEOREM LateUpdatesLose ==
  ASSUME AnnotationsAssumption PROVE Spec => [](LastReactionShows /\ TakenBackStaysEmpty)
<1>1. Init => AnnotationsInv
  BY AnnotationsInit
<1>2. AnnotationsInv /\ [Next]_vars => AnnotationsInv'
  BY AnnotationsStep
<1>3. AnnotationsInv => LastReactionShows /\ TakenBackStaysEmpty
  BY ReactionsFollow DEF AnnotationsInv, MessageRow
<1> QED BY <1>1, <1>2, <1>3, PTL DEF Spec
=============================================================================
