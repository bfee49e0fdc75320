--------------------------------- MODULE Org ---------------------------------
(***************************************************************************)
(* Who leads, who is PIC of which application, and who works under whom:   *)
(* the operational role of every member, the three assignment tables, and  *)
(* the requests that create members and change roles, assignments and      *)
(* access.                                                                 *)
(*   internal/repository/org.go, internal/httpapi/org.go                   *)
(*   migrations/0019_operational_roles.sql, 0058_one_pic_per_application   *)
(*                                                                         *)
(* A request resolves its scope, looks at the member it is about, and then *)
(* acts; each of these reads the tables as they are at that moment. Inside *)
(* a transaction the reads come before the writes (READ COMMITTED), and    *)
(* the writes land together.                                               *)
(***************************************************************************)
EXTENDS Integers, FiniteSets

CONSTANTS
    User,           \* people of the workspace, those not created yet included
    Application,    \* its applications
    Owner,          \* people whose workspace role is owner or admin
    Member,         \* people who are there to begin with
    Request,        \* requests served at the same time
    MaxRequests,    \* bound on the requests made
    NoOne           \* no person

OrgAssumption ==
    /\ Owner \subseteq Member /\ Member \subseteq User
    /\ NoOne \notin User /\ MaxRequests \in Nat

VARIABLES
    there,      \* people who have a profile (users)
    active,     \* people whose access is on (users.is_active)
    role,       \* role_assignments.role, "" without a row
    assigned,   \* people whose role row is active (role_assignments.is_active)
    picApps,    \* pic_application_assignments
    freeApps,   \* freelancer_application_assignments
    picOf,      \* freelancer_pic_assignments
    req,        \* requests, each at its next step
    made,       \* requests made
    misplaced   \* history: a placement landed on a role it was not made for, or under no PIC

vars == <<there, active, role, assigned, picApps, freeApps, picOf, req, made, misplaced>>
tables == <<active, role, assigned, picApps, freeApps, picOf>>

Role == {"leader", "pic", "freelance"}
Idle == [op |-> "none", at |-> "idle"]

\* Any roles the members may have, none of them placed yet.
Init ==
    /\ there = Member /\ active = Member
    /\ role \in {f \in [User -> Role \cup {""}] : \A u \in User \ Member : f[u] = ""}
    /\ assigned = {u \in User : role[u] # ""}
    /\ picApps = [u \in User |-> {}] /\ freeApps = [u \in User |-> {}]
    /\ picOf = [u \in User |-> NoOne]
    /\ req = [r \in Request |-> Idle]
    /\ made = 0 /\ misplaced = FALSE

-----------------------------------------------------------------------------
\* ResolveScope: what a person may see and do. Someone without an operational
\* role leads when the workspace role is owner or admin.
RoleOf(u) ==
    CASE u \notin active -> ""
      [] u \in active /\ u \in assigned -> role[u]
      [] OTHER -> IF u \in Owner THEN "leader" ELSE ""
Scope(u) ==
    [role |-> RoleOf(u),
     all |-> RoleOf(u) = "leader",
     apps |-> CASE RoleOf(u) = "pic" -> picApps[u]
                [] RoleOf(u) = "freelance" -> freeApps[u]
                [] OTHER -> {}]

CanCreateRole(sc, ro) == sc.all \/ (sc.role = "pic" /\ ro = "freelance")

\* A PIC manages the Freelance under them and nobody else.
PlacementOf(u) == [role |-> role[u], pic |-> picOf[u]]
CanManageMember(sc, by, u, place) ==
    \/ sc.all
    \/ sc.role = "pic" /\ place.role = "freelance" /\ place.pic = by /\ u # by

\* Mutant: the Freelance of a former PIC keep pointing at them.
ClearedFor_team(ro, u) ==
    /\ picApps' = IF ro = "pic" THEN picApps ELSE [picApps EXCEPT ![u] = {}]
    /\ freeApps' = IF ro = "freelance" THEN freeApps ELSE [freeApps EXCEPT ![u] = {}]
    /\ picOf' = IF ro # "freelance" THEN [picOf EXCEPT ![u] = NoOne] ELSE picOf
\* What a role has no use for goes when the role is set.
ClearedFor(ro, u) ==
    /\ picApps' = IF ro = "pic" THEN picApps ELSE [picApps EXCEPT ![u] = {}]
    /\ freeApps' = IF ro = "freelance" THEN freeApps ELSE [freeApps EXCEPT ![u] = {}]
    /\ picOf' = [f \in User |-> IF (ro # "pic" /\ picOf[f] = u) \/ (ro # "freelance" /\ f = u)
                                THEN NoOne ELSE picOf[f]]

\* Mutant: the index was skipped.
UniqueIndex_skipped(u, apps) == TRUE
\* The unique index of migration 0058: the statement that would give an
\* application a second PIC fails, and its transaction with it.
UniqueIndex(u, apps) == \A v \in User \ {u} : picApps[v] \cap apps = {}

-----------------------------------------------------------------------------
(* Requests: resolve the scope, check it, act *)

Put(r, rec) == req' = [req EXCEPT ![r] = rec]
Finish(r) == Put(r, Idle)

\* The scope is resolved once, at the start of the handler.
Arrive(r) ==
    /\ req[r] = Idle /\ made < MaxRequests /\ made' = made + 1
    /\ \E by \in active, u \in there :
         \/ \E ro \in Role : Put(r, [op |-> "role", at |-> "act", by |-> by, of |-> u, role |-> ro, sc |-> Scope(by)])
         \/ \E on \in BOOLEAN : Put(r, [op |-> "active", at |-> "check", by |-> by, of |-> u, on |-> on, sc |-> Scope(by)])
         \/ \E apps \in SUBSET Application, pic \in User \cup {NoOne} :
              Put(r, [op |-> "assign", at |-> "check", by |-> by, of |-> u, apps |-> apps, pic |-> pic, sc |-> Scope(by)])
         \/ \E ro \in Role : Put(r, [op |-> "create", at |-> "read", by |-> by, role |-> ro, sc |-> Scope(by)])
    /\ UNCHANGED <<there, tables, misplaced>>

\* mayManage: PlacementOf reads the member, CanManageMember decides. A PIC hands
\* out only applications they hold and places people only under themselves,
\* and nobody turns their own access off.
MayManage(r) ==
    LET q == req[r]
        ok == /\ CanManageMember(q.sc, q.by, q.of, PlacementOf(q.of))
              /\ q.op = "active" => (q.of # q.by \/ q.on)
              /\ q.op = "assign" /\ ~q.sc.all => q.apps \subseteq q.sc.apps /\ q.pic \in {NoOne, q.by}
    IN /\ q.at = "check"
       /\ IF ok THEN Put(r, [q EXCEPT !.at = IF q.op = "assign" THEN "read" ELSE "act"]) ELSE Finish(r)
       /\ UNCHANGED <<there, tables, made, misplaced>>

\* handleSetOperationalRole and SetOperationalRole: a leader sets a role, the
\* row becomes active, and what the role has no use for is cleared.
SetOperationalRole(r) ==
    LET q == req[r]
    IN /\ q.op = "role" /\ q.at = "act"
       /\ IF q.sc.all
          THEN /\ role' = [role EXCEPT ![q.of] = q.role] /\ assigned' = assigned \cup {q.of}
               /\ ClearedFor(q.role, q.of)
          ELSE UNCHANGED <<role, assigned, picApps, freeApps, picOf>>
       /\ Finish(r)
       /\ UNCHANGED <<there, active, made, misplaced>>

\* SetMemberActive: turning access off clears every assignment, of the member
\* and of the people under them.
SetMemberActive(r) ==
    LET q == req[r]
    IN /\ q.op = "active" /\ q.at = "act"
       /\ active' = IF q.on THEN active \cup {q.of} ELSE active \ {q.of}
       /\ assigned' = IF q.on /\ role[q.of] # "" THEN assigned \cup {q.of} ELSE assigned \ {q.of}
       /\ IF q.on THEN UNCHANGED <<picApps, freeApps, picOf>> ELSE ClearedFor("", q.of)
       /\ Finish(r)
       /\ UNCHANGED <<there, role, made, misplaced>>

\* SetMemberAssignments reads the role before its transaction begins. A member
\* without an active role, and a leader, are refused.
ReadRole(r) ==
    LET q == req[r]
    IN /\ q.op = "assign" /\ q.at = "read"
       /\ IF q.of \in assigned /\ role[q.of] \in {"pic", "freelance"}
          THEN Put(r, [op |-> "assign", at |-> "verify", of |-> q.of, apps |-> q.apps, pic |-> q.pic, role |-> role[q.of]])
          ELSE Finish(r)
       /\ UNCHANGED <<there, tables, made, misplaced>>

\* The transaction's own checks: an application another PIC holds is refused, and
\* a Freelance gets only applications their PIC holds.
Verify(r) ==
    LET q == req[r]
        ok == IF q.role = "pic" THEN \A v \in User \ {q.of} : picApps[v] \cap q.apps = {}
              ELSE q.pic # NoOne => q.apps \subseteq picApps[q.pic]
    IN /\ q.op = "assign" /\ q.at = "verify"
       /\ IF ok THEN Put(r, [q EXCEPT !.at = "act"]) ELSE Finish(r)
       /\ UNCHANGED <<there, tables, made, misplaced>>

IsPlaced(u, ro) == u \in assigned /\ role[u] = ro
UnderPIC(p) == p = NoOne \/ IsPlaced(p, "pic")

SetMemberAssignments(r) ==
    LET q == req[r]
    IN /\ q.op = "assign" /\ q.at = "act"
       /\ \/ /\ q.role = "pic"
             /\ picApps' = IF UniqueIndex(q.of, q.apps) THEN [picApps EXCEPT ![q.of] = q.apps] ELSE picApps
             /\ UNCHANGED <<freeApps, picOf>>
          \/ /\ q.role = "freelance"
             /\ freeApps' = [freeApps EXCEPT ![q.of] = q.apps]
             /\ picOf' = [picOf EXCEPT ![q.of] = q.pic]
             /\ UNCHANGED picApps
       /\ misplaced' = (misplaced \/ ~IsPlaced(q.of, q.role) \/ (q.role = "freelance" /\ ~UnderPIC(q.pic)))
       /\ Finish(r)
       /\ UNCHANGED <<there, active, role, assigned, made>>

\* handleCreateMember: a PIC who creates a Freelance hands down what they hold
\* now; the account is created in Supabase, whose trigger writes the profile;
\* then profile, role and placement are written in one transaction.
ReadPlacement(r) ==
    LET q == req[r]
        team == q.sc.role = "pic"
    IN /\ q.op = "create" /\ q.at = "read"
       /\ IF CanCreateRole(q.sc, q.role)
          THEN Put(r, [op |-> "create", at |-> "account", role |-> q.role,
                       pic |-> IF team THEN q.by ELSE NoOne, apps |-> IF team THEN picApps[q.by] ELSE {}])
          ELSE Finish(r)
       /\ UNCHANGED <<there, tables, made, misplaced>>

CreateUser(r) ==
    LET q == req[r]
    IN /\ q.op = "create" /\ q.at = "account"
       /\ \/ \E u \in User \ there :
               /\ there' = there \cup {u} /\ active' = active \cup {u}
               /\ Put(r, [op |-> "create", at |-> "act", of |-> u, role |-> q.role, pic |-> q.pic, apps |-> q.apps])
          \/ Finish(r) /\ UNCHANGED <<there, active>>
       /\ UNCHANGED <<role, assigned, picApps, freeApps, picOf, made, misplaced>>

AttachMemberFull(r) ==
    LET q == req[r]
    IN /\ q.op = "create" /\ q.at = "act"
       /\ active' = active \cup {q.of}
       /\ role' = [role EXCEPT ![q.of] = q.role] /\ assigned' = assigned \cup {q.of}
       /\ picOf' = IF q.role = "freelance" /\ q.pic # NoOne THEN [picOf EXCEPT ![q.of] = q.pic] ELSE picOf
       /\ freeApps' = IF q.role = "freelance" THEN [freeApps EXCEPT ![q.of] = @ \cup q.apps] ELSE freeApps
       /\ misplaced' = (misplaced \/ role[q.of] # "" \/ ~UnderPIC(q.pic))
       /\ Finish(r)
       /\ UNCHANGED <<there, picApps, made>>

\* The process dies, or the caller goes away: what was not committed is lost.
Dies(r) ==
    /\ req[r] # Idle /\ Finish(r)
    /\ UNCHANGED <<there, tables, made, misplaced>>

Next ==
    \E r \in Request :
        \/ Arrive(r) \/ MayManage(r) \/ SetOperationalRole(r) \/ SetMemberActive(r)
        \/ ReadRole(r) \/ Verify(r) \/ SetMemberAssignments(r)
        \/ ReadPlacement(r) \/ CreateUser(r) \/ AttachMemberFull(r) \/ Dies(r)

Spec == Init /\ [][Next]_vars

-----------------------------------------------------------------------------
(* Properties *)

\* No application has two PICs, whichever requests overlap: the sum over the
\* PICs is the operation (org.go SetMemberAssignments, migration 0058).
OneApplicationOnePIC ==
    \A u, v \in User : u # v => picApps[u] \cap picApps[v] = {}

\* What the tables say of a person fits their role: only an acting PIC holds
\* applications as PIC and has people under them, only an acting Freelance has
\* applications and a PIC, and nobody whose access was turned off has either
\* (org.go SetOperationalRole, SetMemberActive). The two ways out are named: a
\* placement that lands after the role it was made for has changed, because the
\* role is read before the transaction, and one under a person who is no PIC,
\* which nothing checks when the Freelance gets no application.
PlacementFitsRole ==
    misplaced \/ \A u \in User :
        /\ picApps[u] # {} => IsPlaced(u, "pic")
        /\ freeApps[u] # {} => IsPlaced(u, "freelance")
        /\ picOf[u] # NoOne => IsPlaced(u, "freelance") /\ IsPlaced(picOf[u], "pic")

\* What the tables say never disagrees.
OrganisationAgrees == OneApplicationOnePIC /\ PlacementFitsRole

\* "A Freelance works inside their PIC's remit, never beside it"
\* (org.go SetMemberAssignments). It fails: the rule is checked when the
\* Freelance is placed and not when the PIC's own applications are replaced.
InsideTheRemit ==
    \A u \in User : picOf[u] # NoOne => freeApps[u] \subseteq picApps[picOf[u]]

=============================================================================
