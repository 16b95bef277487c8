------------------------------ MODULE Subgroups ------------------------------
(***************************************************************************)
(* The subgroups of one community: subgroups.service.ts, with the parts of *)
(* communities.service.ts that change who is a member of the community.    *)
(*                                                                         *)
(* Joining, approving and inviting lock the community row, as leaving the  *)
(* community does; what they checked before the lock waits in req[p].      *)
(* Creating a subgroup, changing a role and opening a subgroup to everyone *)
(* who asked write without that lock.                                      *)
(***************************************************************************)
EXTENDS Naturals, FiniteSets

CONSTANTS
  User,       \* registered accounts
  Subgroup,   \* ids a subgroup row of the community can get
  Proc,       \* requests the server can have in flight
  Ops         \* operations the instance offers (see Operation)

Operation == {"member", "create", "save", "open", "remove", "join", "invite", "decide",
              "drop", "role", "suspend", "abort"}

ASSUME FiniteUsers == IsFiniteSet(User)
ASSUME OpsAssumption == Ops \subseteq Operation

Visibility == {"open", "request", "invite"}
Role == {"none", "member", "moderator"}

VARIABLES
  crew,       \* community_members: "none", "member" or "admin"
  suspended,  \* suspended_at of the community IS NOT NULL
  life,       \* subgroup id -> has it a row: not yet, now, or no longer
  vis,        \* visibility column
  role,       \* subgroup_members
  pending,    \* subgroup_join_requests with status 'pending'
  req         \* Proc -> what an unfinished request has read so far

vars == <<crew, suspended, life, vis, role, pending, req>>
rows == <<crew, suspended, life, vis, role, pending>>

Idle == [op |-> "idle"]

Request ==
  {Idle}
    \cup [op : {"create"}, u : User, vis : Visibility]
    \cup [op : {"save", "open"}, s : Subgroup, vis : Visibility]
    \cup [op : {"admit"}, s : Subgroup, users : SUBSET User]
    \cup [op : {"remove"}, s : Subgroup]
    \cup [op : {"enter", "ask", "approve", "reject", "drop"}, s : Subgroup, u : User]
    \cup [op : {"role"}, s : Subgroup, u : User, role : {"member", "moderator"}]

Begin(p, r) == req[p] = Idle /\ req' = [req EXCEPT ![p] = r]
Finish(p) == req' = [req EXCEPT ![p] = Idle]

(***************************************************************************)
(* State functions.                                                        *)
(***************************************************************************)
Live(s) == life[s] = "live"
Crew == {u \in User : crew[u] # "none"}
Admins == {u \in User : crew[u] = "admin"}
Members(s) == {u \in User : role[s][u] # "none"}

\* requireVisible: only members and community admins see an invite-only one.
Visible(s, u) ==
  /\ Live(s)
  /\ suspended => u \in Crew
  /\ vis[s] = "invite" => u \in Admins \cup Members(s)

\* requireManageable and assertCommunityActive.
Manages(s, a) ==
  /\ Visible(s, a) /\ ~suspended
  /\ crew[a] = "admin" \/ role[s][a] = "moderator"

\* The update that opens a subgroup keeps the row locked until it commits, and
\* so do the foreign keys of the rows it inserts.
Held(s) == \E p \in Proc : req[p].op = "admit" /\ req[p].s = s

\* The unique index makes a second insert of the same row wait for the first.
Inserting(s, u) == \E p \in Proc : req[p].op = "admit" /\ req[p].s = s /\ u \in req[p].users

\* INSERT ... ON CONFLICT DO NOTHING for each user of S.
AddMembers_Forgotten(s, S) == UNCHANGED role
AddMembers(s, S) ==
  role' = [role EXCEPT ![s] =
             [u \in User |-> IF u \in S /\ @[u] = "none" THEN "member" ELSE @[u]]]

\* The SELECT ... FROM community_members that feeds an insert.
OfCrew_NoSelect(S) == S
OfCrew(S) == S \cap Crew

Init ==
  /\ crew \in [User -> {"none", "member", "admin"}]
  /\ Admins # {}
  /\ suspended = FALSE
  /\ life \in [Subgroup -> {"unborn", "live"}]
  /\ vis \in [Subgroup -> Visibility]
  /\ role = [s \in Subgroup |-> [u \in User |-> "none"]]
  /\ pending = [s \in Subgroup |-> {}]
  /\ req = [p \in Proc |-> Idle]

(***************************************************************************)
(* The community: who is a member of it, and its suspension.               *)
(***************************************************************************)
EnterCommunity(u) ==
  /\ ~suspended
  /\ u \notin Crew
  /\ crew' = [crew EXCEPT ![u] = "member"]
  /\ UNCHANGED <<suspended, life, vis, role, pending, req>>

SetCommunityRole(u, r) ==
  /\ ~suspended
  /\ u \in Crew
  /\ r = "member" => Admins # {u}
  /\ crew' = [crew EXCEPT ![u] = r]
  /\ UNCHANGED <<suspended, life, vis, role, pending, req>>

\* Fault: who leaves the community stays in its subgroups.
DropSubgroupAccess_RequestsOnly(u) ==
  /\ pending' = [s \in Subgroup |-> pending[s] \ {u}]
  /\ UNCHANGED role
DropSubgroupAccess(u) ==
  /\ role' = [s \in Subgroup |-> [role[s] EXCEPT ![u] = "none"]]
  /\ pending' = [s \in Subgroup |-> pending[s] \ {u}]

\* leave and removeMember, both under the community's row lock.
LeaveCommunity(u) ==
  /\ u \in Crew
  /\ Admins # {u}
  /\ crew' = [crew EXCEPT ![u] = "none"]
  /\ DropSubgroupAccess(u)
  /\ UNCHANGED <<suspended, life, vis, req>>

SetSuspended(b) ==
  /\ suspended' = b
  /\ UNCHANGED <<crew, life, vis, role, pending, req>>

(***************************************************************************)
(* Creating, changing and removing a subgroup.                             *)
(***************************************************************************)
BeginCreate(p, a, v) ==
  /\ crew[a] = "admin" /\ ~suspended
  /\ Begin(p, [op |-> "create", u |-> a, vis |-> v])
  /\ UNCHANGED rows

Create(p, s) ==
  /\ req[p].op = "create"
  /\ life[s] = "unborn"
  /\ life' = [life EXCEPT ![s] = "live"]
  /\ vis' = [vis EXCEPT ![s] = req[p].vis]
  /\ role' = [role EXCEPT ![s] = [@ EXCEPT ![req[p].u] = "moderator"]]
  /\ Finish(p)
  /\ UNCHANGED <<crew, suspended, pending>>

\* update and writeImage: v is the visibility the entity holds after the edit,
\* the one it was read with unless a community admin changes it.
BeginSave(p, a, s, v) ==
  /\ Manages(s, a)
  /\ v # vis[s] => crew[a] = "admin" /\ v # "open"
  /\ Begin(p, [op |-> "save", s |-> s, vis |-> v])
  /\ UNCHANGED rows

\* TypeORM's save writes the columns that differ from the row of now, and
\* inserts the row again when it is gone.
Save(p) ==
  LET r == req[p]
  IN /\ r.op = "save"
     /\ ~Held(r.s)
     /\ life' = [life EXCEPT ![r.s] = "live"]
     /\ vis' = [vis EXCEPT ![r.s] = r.vis]
     /\ Finish(p)
     /\ UNCHANGED <<crew, suspended, role, pending>>

BeginOpen(p, a, s) ==
  /\ Manages(s, a)
  /\ crew[a] = "admin" /\ vis[s] # "open"
  /\ Begin(p, [op |-> "open", s |-> s, vis |-> "open"])
  /\ UNCHANGED rows

\* The save and the insert of admitPendingMembers.  Nobody sees the rows
\* before the commit.
Admit(p) ==
  LET r == req[p]
      users == {u \in OfCrew(pending[r.s]) : role[r.s][u] = "none"}
  IN /\ r.op = "open"
     /\ ~Held(r.s)
     /\ req' = [req EXCEPT ![p] = [op |-> "admit", s |-> r.s, users |-> users]]
     /\ UNCHANGED rows

\* The update of admitPendingMembers, with a snapshot of its own, and the commit.
CommitOpen(p) ==
  LET r == req[p]
  IN /\ r.op = "admit"
     /\ life' = [life EXCEPT ![r.s] = "live"]
     /\ vis' = [vis EXCEPT ![r.s] = "open"]
     /\ AddMembers(r.s, r.users)
     /\ pending' = [pending EXCEPT ![r.s] = @ \ OfCrew(@)]
     /\ Finish(p)
     /\ UNCHANGED <<crew, suspended>>

BeginRemove(p, a, s) ==
  /\ Live(s) /\ ~suspended
  /\ crew[a] = "admin"
  /\ Begin(p, [op |-> "remove", s |-> s])
  /\ UNCHANGED rows

Remove(p) ==
  LET s == req[p].s
  IN /\ req[p].op = "remove"
     /\ ~Held(s)
     /\ life' = [life EXCEPT ![s] = "gone"]
     /\ role' = [role EXCEPT ![s] = [u \in User |-> "none"]]
     /\ pending' = [pending EXCEPT ![s] = {}]
     /\ Finish(p)
     /\ UNCHANGED <<crew, suspended, vis>>

(***************************************************************************)
(* Becoming a member.                                                      *)
(***************************************************************************)
BeginJoin(p, u, s) ==
  /\ Visible(s, u) /\ ~suspended
  /\ u \in Crew
  /\ role[s][u] = "none"
  /\ \/ /\ vis[s] = "open"
        /\ Begin(p, [op |-> "enter", s |-> s, u |-> u])
     \/ /\ vis[s] = "request"
        /\ u \notin pending[s]
        /\ Begin(p, [op |-> "ask", s |-> s, u |-> u])
  /\ UNCHANGED rows

BeginInvite(p, a, u, s) ==
  /\ Manages(s, a)
  /\ u \in Crew
  /\ Begin(p, [op |-> "enter", s |-> s, u |-> u])
  /\ UNCHANGED rows

\* The moderator's page names a request by its id; its state is read later.
BeginDecide(p, a, u, s, op) ==
  /\ Manages(s, a)
  /\ u \in pending[s]
  /\ Begin(p, [op |-> op, s |-> s, u |-> u])
  /\ UNCHANGED rows

\* insertMemberIfCommunityMember under the community's row lock, and the
\* request of the new member is approved.
Enter(p) ==
  LET r == req[p]
  IN /\ r.op \in {"enter", "approve"}
     /\ r.op = "approve" => r.u \in pending[r.s]
     /\ Live(r.s) /\ ~Inserting(r.s, r.u)
     /\ OfCrew({r.u}) \cup (Members(r.s) \cap {r.u}) # {}
     /\ AddMembers(r.s, OfCrew({r.u}))
     /\ pending' = [pending EXCEPT ![r.s] = @ \ {r.u}]
     /\ Finish(p)
     /\ UNCHANGED <<crew, suspended, life, vis>>

Ask(p) ==
  LET r == req[p]
  IN /\ r.op = "ask"
     /\ Live(r.s)
     /\ r.u \in Crew
     /\ pending' = [pending EXCEPT ![r.s] = @ \cup {r.u}]
     /\ Finish(p)
     /\ UNCHANGED <<crew, suspended, life, vis, role>>

Reject(p) ==
  LET r == req[p]
  IN /\ r.op = "reject"
     /\ r.u \in pending[r.s]
     /\ pending' = [pending EXCEPT ![r.s] = @ \ {r.u}]
     /\ Finish(p)
     /\ UNCHANGED <<crew, suspended, life, vis, role>>

(***************************************************************************)
(* Leaving, and roles: a row is read, then written without a lock.  A row  *)
(* that was deleted and inserted again meanwhile has another id; the write *)
(* then does nothing or fails, as Abort allows.                            *)
(***************************************************************************)
\* leave by the member, removeMember by a community admin.
BeginDrop(p, a, u, s) ==
  /\ u \in Members(s)
  /\ \/ a = u /\ Visible(s, u)
     \/ Manages(s, a) /\ crew[a] = "admin"
  /\ Begin(p, [op |-> "drop", s |-> s, u |-> u])
  /\ UNCHANGED rows

Drop(p) ==
  LET r == req[p]
  IN /\ r.op = "drop"
     /\ role' = [role EXCEPT ![r.s] = [@ EXCEPT ![r.u] = "none"]]
     /\ Finish(p)
     /\ UNCHANGED <<crew, suspended, life, vis, pending>>

BeginUpdateMemberRole(p, a, u, s, r) ==
  /\ Manages(s, a) /\ crew[a] = "admin"
  /\ u \in Members(s)
  /\ Begin(p, [op |-> "role", s |-> s, u |-> u, role |-> r])
  /\ UNCHANGED rows

\* save inserts the row again when it is gone.
UpdateMemberRole(p) ==
  LET r == req[p]
  IN /\ r.op = "role"
     /\ Live(r.s) /\ ~Inserting(r.s, r.u)
     /\ role' = [role EXCEPT ![r.s] = [@ EXCEPT ![r.u] = r.role]]
     /\ Finish(p)
     /\ UNCHANGED <<crew, suspended, life, vis, pending>>

\* The second half is refused (the subgroup, the request or the membership is
\* gone) or fails, and its transaction is rolled back.
Abort(p) ==
  /\ req[p] # Idle
  /\ Finish(p)
  /\ UNCHANGED rows

-----------------------------------------------------------------------------
CommunityStep ==
  \/ "member" \in Ops /\ \E u \in User : EnterCommunity(u) \/ LeaveCommunity(u)
  \/ "member" \in Ops /\ \E u \in User, r \in {"member", "admin"} : SetCommunityRole(u, r)
  \/ "suspend" \in Ops /\ \E b \in BOOLEAN : SetSuspended(b)

EditStep(p) ==
  \/ "create" \in Ops /\ \E a \in User, v \in Visibility : BeginCreate(p, a, v)
  \/ \E s \in Subgroup : Create(p, s)
  \/ "save" \in Ops /\ \E a \in User, s \in Subgroup, v \in Visibility : BeginSave(p, a, s, v)
  \/ Save(p)
  \/ "open" \in Ops /\ \E a \in User, s \in Subgroup : BeginOpen(p, a, s)
  \/ Admit(p)
  \/ CommitOpen(p)
  \/ "remove" \in Ops /\ \E a \in User, s \in Subgroup : BeginRemove(p, a, s)
  \/ Remove(p)

MemberStep(p) ==
  \/ "join" \in Ops /\ \E u \in User, s \in Subgroup : BeginJoin(p, u, s)
  \/ "invite" \in Ops /\ \E a, u \in User, s \in Subgroup : BeginInvite(p, a, u, s)
  \/ "decide" \in Ops /\ \E a, u \in User, s \in Subgroup, op \in {"approve", "reject"} :
                            BeginDecide(p, a, u, s, op)
  \/ Enter(p)
  \/ Ask(p)
  \/ Reject(p)
  \/ "drop" \in Ops /\ \E a, u \in User, s \in Subgroup : BeginDrop(p, a, u, s)
  \/ Drop(p)
  \/ "role" \in Ops /\ \E a, u \in User, s \in Subgroup, r \in {"member", "moderator"} :
                          BeginUpdateMemberRole(p, a, u, s, r)
  \/ UpdateMemberRole(p)
  \/ "abort" \in Ops /\ Abort(p)

Next == CommunityStep \/ \E p \in Proc : EditStep(p) \/ MemberStep(p)

Spec == Init /\ [][Next]_vars

-----------------------------------------------------------------------------
\* The foreign keys: only a subgroup that has a row has members or requests.
NoStrayRows ==
  \A s \in Subgroup :
    ~Live(s) => pending[s] = {} /\ \A u \in User : role[s][u] = "none"

\* Types, and rows that reference a subgroup exist only as long as it does.
TypeOK ==
  /\ crew \in [User -> {"none", "member", "admin"}]
  /\ suspended \in BOOLEAN
  /\ life \in [Subgroup -> {"unborn", "live", "gone"}]
  /\ vis \in [Subgroup -> Visibility]
  /\ role \in [Subgroup -> [User -> Role]]
  /\ pending \in [Subgroup -> SUBSET User]
  /\ req \in [Proc -> Request]
  /\ NoStrayRows

\* docs/COMMUNITIES.md, Roles: a subgroup member is always a community member.
MembersAreCrew == \A s \in Subgroup : Members(s) \subseteq Crew

\* The lock does its work: a subgroup gets a member who is not a community
\* member only from the three writes that do not take it, and leaving the
\* community leaves no subgroup row behind.
StraysOnlyWithoutLock ==
  [][\A s \in Subgroup :
        Members(s) \subseteq Crew /\ ~(Members(s)' \subseteq Crew')
          => \E p \in Proc : req[p].op \in {"create", "role", "admit"} /\ req'[p] # req[p]]_vars

\* A join request of a community member ends with an answer: a rejection, or a
\* row in the subgroup.  Whom an opening chose it admits; but it approves too, and
\* admits not, who asked after it chose, or could not be admitted then.
Rejected(s, u) == \E p \in Proc : req[p] = [op |-> "reject", s |-> s, u |-> u] /\ req'[p] # req[p]
Overlooked(s, u) ==
  \E p \in Proc : req[p].op = "admit" /\ req[p].s = s /\ u \notin req[p].users /\ req'[p] # req[p]
Answered ==
  [][\A s \in Subgroup, u \in User :
        u \in pending[s] /\ u \notin pending'[s] /\ Live(s)' /\ u \in Crew'
          => u \in Members(s)' \/ Rejected(s, u) \/ Overlooked(s, u)]_vars

\* A suspended community is read-only in its subgroups too.
FreezeHolds ==
  [][\A s \in Subgroup : suspended => Members(s)' \subseteq Members(s)]_vars

\* A removed subgroup does not come back.
RemovedStaysRemoved ==
  [][\A s \in Subgroup : life[s] = "gone" => life'[s] = "gone"]_vars

\* Without those three writes the tables keep the promise of NestedMembership.
Promise == INSTANCE NestedMembership
             WITH Group <- Subgroup, outer <- Crew, inner <- [s \in Subgroup |-> Members(s)]
KeepsPromise == Promise!Spec
=============================================================================
