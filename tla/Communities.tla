----------------------------- MODULE Communities -----------------------------
(***************************************************************************)
(* Communities, their members and the people who ask to join:              *)
(* communities.service.ts, the suspension part of                          *)
(* admin-communities.service.ts, account-deletion.service.ts and the       *)
(* database part of community-cleanup.service.ts.                          *)
(*                                                                         *)
(* A handler that locks the community row first (SELECT ... FOR UPDATE) is *)
(* one action: nothing it reads can change before it commits.  A handler   *)
(* that reads outside its transaction is two actions, and what it read     *)
(* waits in req[p] while other requests run.                               *)
(***************************************************************************)
EXTENDS Naturals, FiniteSets

CONSTANTS
  User,         \* registered accounts
  Community,    \* ids a community row can get
  Proc,         \* requests the server can have in flight
  SiteAdmin,    \* accounts with isAdmin, which may not delete themselves
  Ops           \* operations the instance offers (see Operation)

Operation == {"create", "save", "remove", "join", "invite", "leave", "role",
              "kick", "decide", "suspend", "deleteAccount", "abort"}

ASSUME FiniteUsers == IsFiniteSet(User)
ASSUME SiteAdminsAreUsers == SiteAdmin \subseteq User
ASSUME OpsAssumption == Ops \subseteq Operation

Visibility == {"public", "request", "private"}
Role == {"none", "member", "admin"}

VARIABLES
  life,       \* community id -> has it a row: not yet, now, or no longer
  vis,        \* visibility column
  suspended,  \* suspended_at IS NOT NULL
  role,       \* community_members: "none" is the absence of a row
  pending,    \* community_join_requests with status 'pending'
  deleted,    \* accounts with deletedAt set, the anonymous shells
  req         \* Proc -> what an unfinished request has read so far

vars == <<life, vis, suspended, role, pending, deleted, req>>
rows == <<life, vis, suspended, role, pending>>

(***************************************************************************)
(* Requests in flight.                                                     *)
(***************************************************************************)
Idle == [op |-> "idle"]

Request ==
  {Idle}
    \cup [op : {"create"}, u : User, vis : Visibility]
    \cup [op : {"enter", "ask"}, c : Community, u : User]
    \cup [op : {"save"}, c : Community, vis : Visibility, opening : BOOLEAN]
    \cup [op : {"remove"}, c : Community]
    \cup [op : {"deleteTx"}, u : User, seen : [Community -> Role]]
    \cup [op : {"sweep"}, emptied : SUBSET Community]

Begin(p, r) == req[p] = Idle /\ req' = [req EXCEPT ![p] = r]
Finish(p) == req' = [req EXCEPT ![p] = Idle]

(***************************************************************************)
(* State functions.                                                        *)
(***************************************************************************)
Live(c) == life[c] = "live"
Members(c) == {u \in User : role[c][u] # "none"}
Admins(c) == {u \in User : role[c][u] = "admin"}

\* deleteAccount holds FOR UPDATE on the user's row until it commits.  A row
\* that references the user cannot be inserted before that.
Locked(u) == \E p \in Proc : req[p].op = "deleteTx" /\ req[p].u = u

\* Fault: assertActiveTx looks for the row only.
Active_SkipsCheck(c) == Live(c)
Active(c) == Live(c) /\ ~suspended[c]

IsAdmin(c, u) == u \notin deleted /\ role[c][u] = "admin"

IsLastAdminRemoval(r, adminCount) == r = "admin" /\ adminCount <= 1

NotLastAdmin(c, u) == ~IsLastAdminRemoval(role[c][u], Cardinality(Admins(c)))

SetRole(c, u, r) == role' = [role EXCEPT ![c][u] = r]

\* INSERT INTO community_members ... ON CONFLICT DO NOTHING for each user of S.
AddMembers(c, S) ==
  role' = [role EXCEPT ![c] =
             [u \in User |-> IF u \in S /\ @[u] = "none" THEN "member" ELSE @[u]]]

\* DELETE of the row; members and join requests go with it (ON DELETE CASCADE).
DeleteRow(c) ==
  /\ life' = [life EXCEPT ![c] = IF Live(c) THEN "gone" ELSE @]
  /\ role' = [role EXCEPT ![c] = [u \in User |-> "none"]]
  /\ pending' = [pending EXCEPT ![c] = {}]

Init ==
  /\ life = [c \in Community |-> "unborn"]
  /\ vis = [c \in Community |-> "public"]
  /\ suspended = [c \in Community |-> FALSE]
  /\ role = [c \in Community |-> [u \in User |-> "none"]]
  /\ pending = [c \in Community |-> {}]
  /\ deleted = {}
  /\ req = [p \in Proc |-> Idle]

(***************************************************************************)
(* Creating, changing and removing a community.                            *)
(***************************************************************************)
BeginCreate(p, u, v) ==
  /\ u \notin deleted
  /\ Begin(p, [op |-> "create", u |-> u, vis |-> v])
  /\ UNCHANGED <<rows, deleted>>

\* The row and its first admin are inserted in one transaction.
Create(p, c) ==
  /\ req[p].op = "create"
  /\ life[c] = "unborn"
  /\ ~Locked(req[p].u)
  /\ life' = [life EXCEPT ![c] = "live"]
  /\ vis' = [vis EXCEPT ![c] = req[p].vis]
  /\ SetRole(c, req[p].u, "admin")
  /\ Finish(p)
  /\ UNCHANGED <<suspended, pending, deleted>>

\* update and writeImage: v is the visibility the entity holds after the edit,
\* the one it was read with when the edit does not touch it.
BeginSave(p, a, c, v) ==
  /\ Active(c)
  /\ IsAdmin(c, a)
  /\ Begin(p, [op |-> "save", c |-> c, vis |-> v,
               opening |-> v = "public" /\ vis[c] # "public"])
  /\ UNCHANGED <<rows, deleted>>

\* TypeORM's save writes every column in which the entity differs from the row
\* of now, suspended_at too, and inserts the row again when it is gone.
Save(p) ==
  LET r == req[p]
      admitted == IF r.opening THEN pending[r.c] ELSE {}
  IN /\ r.op = "save"
     /\ \A u \in admitted : ~Locked(u)
     /\ life' = [life EXCEPT ![r.c] = "live"]
     /\ vis' = [vis EXCEPT ![r.c] = r.vis]
     /\ suspended' = [suspended EXCEPT ![r.c] = FALSE]
     /\ AddMembers(r.c, admitted)
     /\ pending' = [pending EXCEPT ![r.c] = @ \ admitted]
     /\ Finish(p)
     /\ UNCHANGED deleted

\* communities.remove: a site admin or an admin of the community, while it is
\* active; admin-communities.removeCommunity: a site admin, in any state.
BeginRemove(p, c) ==
  /\ Live(c)
  /\ \/ SiteAdmin # {}
     \/ Active(c) /\ \E a \in User : IsAdmin(c, a)
  /\ Begin(p, [op |-> "remove", c |-> c])
  /\ UNCHANGED <<rows, deleted>>

Remove(p) ==
  /\ req[p].op = "remove"
  /\ DeleteRow(req[p].c)
  /\ Finish(p)
  /\ UNCHANGED <<vis, suspended, deleted>>

Suspend(c) ==
  /\ Active(c)
  /\ suspended' = [suspended EXCEPT ![c] = TRUE]
  /\ UNCHANGED <<life, vis, role, pending, deleted, req>>

Unsuspend(c) ==
  /\ Live(c) /\ suspended[c]
  /\ suspended' = [suspended EXCEPT ![c] = FALSE]
  /\ UNCHANGED <<life, vis, role, pending, deleted, req>>

(***************************************************************************)
(* Becoming a member.                                                      *)
(***************************************************************************)
\* join decides from the row and the membership it read how it goes on.
BeginJoin(p, u, c) ==
  /\ u \notin deleted
  /\ Active(c)
  /\ role[c][u] = "none"
  /\ \/ /\ vis[c] = "public"
        /\ Begin(p, [op |-> "enter", c |-> c, u |-> u])
     \/ /\ vis[c] = "request"
        /\ u \notin pending[c]
        /\ Begin(p, [op |-> "ask", c |-> c, u |-> u])
  /\ UNCHANGED <<rows, deleted>>

BeginInvite(p, a, u, c) ==
  /\ Active(c)
  /\ IsAdmin(c, a)
  /\ u \notin deleted
  /\ Begin(p, [op |-> "enter", c |-> c, u |-> u])
  /\ UNCHANGED <<rows, deleted>>

\* The transaction of a public join and of an invite.
Enter(p) ==
  LET r == req[p]
  IN /\ r.op = "enter"
     /\ Live(r.c) /\ ~Locked(r.u)
     /\ AddMembers(r.c, {r.u})
     /\ pending' = [pending EXCEPT ![r.c] = @ \ {r.u}]
     /\ Finish(p)
     /\ UNCHANGED <<life, vis, suspended, deleted>>

\* The transaction of a join that needs an admin's decision.
Ask(p) ==
  LET r == req[p]
  IN /\ r.op = "ask"
     /\ Live(r.c) /\ ~Locked(r.u)
     /\ pending' = [pending EXCEPT ![r.c] = @ \cup {r.u}]
     /\ Finish(p)
     /\ UNCHANGED <<life, vis, suspended, role, deleted>>

Approve(a, u, c) ==
  /\ Active(c) /\ IsAdmin(c, a)
  /\ u \in pending[c]
  /\ ~Locked(u)
  /\ AddMembers(c, {u})
  /\ pending' = [pending EXCEPT ![c] = @ \ {u}]
  /\ UNCHANGED <<life, vis, suspended, deleted, req>>

Reject(a, u, c) ==
  /\ Active(c) /\ IsAdmin(c, a)
  /\ u \in pending[c]
  /\ pending' = [pending EXCEPT ![c] = @ \ {u}]
  /\ UNCHANGED <<life, vis, suspended, role, deleted, req>>

(***************************************************************************)
(* Leaving, and roles.  These hold the community's row lock.               *)
(***************************************************************************)
Leave(u, c) ==
  /\ Live(c)
  /\ u \in Members(c)
  /\ NotLastAdmin(c, u)
  /\ SetRole(c, u, "none")
  /\ UNCHANGED <<life, vis, suspended, pending, deleted, req>>

UpdateMemberRole(a, u, c, r) ==
  /\ Active(c) /\ IsAdmin(c, a)
  /\ u \in Members(c)
  /\ r = "member" => NotLastAdmin(c, u)
  /\ SetRole(c, u, r)
  /\ UNCHANGED <<life, vis, suspended, pending, deleted, req>>

RemoveMember(a, u, c) ==
  /\ Active(c) /\ IsAdmin(c, a)
  /\ u \in Members(c)
  /\ NotLastAdmin(c, u)
  /\ SetRole(c, u, "none")
  /\ UNCHANGED <<life, vis, suspended, pending, deleted, req>>

(***************************************************************************)
(* Deleting an account.                                                    *)
(***************************************************************************)
\* The checks, the lock on the user's row and the list of memberships with
\* their roles, which is read before the communities are locked.
BeginDeleteAccount(p, u) ==
  /\ u \notin deleted /\ u \notin SiteAdmin
  /\ ~Locked(u)
  /\ Begin(p, [op |-> "deleteTx", u |-> u, seen |-> [c \in Community |-> role[c][u]]])
  /\ UNCHANGED <<rows, deleted>>

Others(c, u) == Members(c) \ {u}

\* Communities whose deletion is queued: nobody else is left.
Emptied(u, seen) == {c \in Community : seen[c] # "none" /\ Others(c, u) = {}}

\* Communities that need a new admin, by the role read before the lock.
PassedOn_AnyAdmin(u, seen) ==
  {c \in Community : Others(c, u) # {} /\ seen[c] = "admin" /\ Admins(c) = {}}
PassedOn(u, seen) ==
  {c \in Community : Others(c, u) # {} /\ seen[c] = "admin" /\ Admins(c) \ {u} = {}}

\* The rest of the transaction, under the community locks.  The heir is the
\* first member in an order the model leaves open.
DeleteAccount(p) ==
  LET u == req[p].u
      seen == req[p].seen
  IN /\ req[p].op = "deleteTx"
     /\ \E heir \in [PassedOn(u, seen) -> User] :
          /\ \A c \in PassedOn(u, seen) : heir[c] \in Others(c, u)
          /\ role' = [c \in Community |-> [v \in User |->
                        IF v = u THEN "none"
                        ELSE IF c \in PassedOn(u, seen) /\ v = heir[c] THEN "admin"
                        ELSE role[c][v]]]
     /\ pending' = [c \in Community |-> pending[c] \ {u}]
     /\ deleted' = deleted \cup {u}
     /\ req' = [req EXCEPT ![p] = [op |-> "sweep", emptied |-> Emptied(u, seen)]]
     /\ UNCHANGED <<life, vis, suspended>>

\* After the commit the emptied communities are deleted one by one.
Sweep(p, c) ==
  /\ req[p].op = "sweep"
  /\ c \in req[p].emptied
  /\ DeleteRow(c)
  /\ req' = [req EXCEPT ![p] = [op |-> "sweep", emptied |-> @.emptied \ {c}]]
  /\ UNCHANGED <<vis, suspended, deleted>>

EndSweep(p) ==
  /\ req[p].op = "sweep"
  /\ req[p].emptied = {}
  /\ Finish(p)
  /\ UNCHANGED <<rows, deleted>>

(***************************************************************************)
(* A request that ends without its second half: the community is gone (the *)
(* foreign key refuses the insert), or the database or the process failed  *)
(* and the transaction was rolled back.                                    *)
(***************************************************************************)
Refused(p) ==
  /\ req[p].op \in {"enter", "ask"}
  /\ ~Live(req[p].c)
  /\ Finish(p)
  /\ UNCHANGED <<rows, deleted>>

Abort(p) ==
  /\ req[p] # Idle
  /\ Finish(p)
  /\ UNCHANGED <<rows, deleted>>

-----------------------------------------------------------------------------
CreateStep(p) == \/ \E u \in User, v \in Visibility : BeginCreate(p, u, v)
                 \/ \E c \in Community : Create(p, c)

SaveStep(p) == \/ \E a \in User, c \in Community, v \in Visibility : BeginSave(p, a, c, v)
               \/ Save(p)

RemoveStep(p) == \/ \E c \in Community : BeginRemove(p, c)
                 \/ Remove(p)

JoinStep(p) == \E u \in User, c \in Community : BeginJoin(p, u, c)

InviteStep(p) == \E a, u \in User, c \in Community : BeginInvite(p, a, u, c)

EnterStep(p) == Enter(p) \/ Ask(p) \/ Refused(p)

DeleteAccountStep(p) == \/ \E u \in User : BeginDeleteAccount(p, u)
                        \/ DeleteAccount(p)
                        \/ \E c \in Community : Sweep(p, c)
                        \/ EndSweep(p)

ProcStep(p) ==
  \/ "create" \in Ops /\ CreateStep(p)
  \/ "save" \in Ops /\ SaveStep(p)
  \/ "remove" \in Ops /\ RemoveStep(p)
  \/ "join" \in Ops /\ JoinStep(p)
  \/ "invite" \in Ops /\ InviteStep(p)
  \/ EnterStep(p)
  \/ "deleteAccount" \in Ops /\ DeleteAccountStep(p)
  \/ "abort" \in Ops /\ Abort(p)

LockedStep(c) ==
  \/ "leave" \in Ops /\ \E u \in User : Leave(u, c)
  \/ "role" \in Ops /\ \E a, u \in User, r \in {"member", "admin"} : UpdateMemberRole(a, u, c, r)
  \/ "kick" \in Ops /\ \E a, u \in User : RemoveMember(a, u, c)
  \/ "decide" \in Ops /\ \E a, u \in User : Approve(a, u, c) \/ Reject(a, u, c)
  \/ "suspend" \in Ops /\ (Suspend(c) \/ Unsuspend(c))

Next == (\E p \in Proc : ProcStep(p)) \/ (\E c \in Community : LockedStep(c))

Spec == Init /\ [][Next]_vars

\* Once a handler runs, Node drives it to its end; nobody has to send requests.
Fairness ==
  \A p \in Proc :
    /\ WF_vars(DeleteAccount(p))
    /\ WF_vars(\E c \in Community : Sweep(p, c))

FairSpec == Spec /\ Fairness

-----------------------------------------------------------------------------
\* The foreign keys: only a community that has a row has members or requests.
NoStrayRows ==
  \A c \in Community :
    ~Live(c) => pending[c] = {} /\ \A u \in User : role[c][u] = "none"

\* Types, and rows that reference a community exist only as long as it does.
TypeOK ==
  /\ life \in [Community -> {"unborn", "live", "gone"}]
  /\ vis \in [Community -> Visibility]
  /\ suspended \in [Community -> BOOLEAN]
  /\ role \in [Community -> [User -> Role]]
  /\ pending \in [Community -> SUBSET User]
  /\ deleted \in SUBSET User
  /\ req \in [Proc -> Request]
  /\ NoStrayRows

\* docs/COMMUNITIES.md, Roles: a community always has at least one admin.
AlwaysAdmin == \A c \in Community : Live(c) => Admins(c) # {}

\* account-deletion.service.ts: a community with members never loses its last
\* admin without a successor.
SuccessorFound ==
  [][\A c \in Community : Live(c) /\ Admins(c) # {} /\ Members(c)' # {} => Admins(c)' # {}]_vars

\* Whatever runs at the same time, a community with members loses its last
\* admin in one way only: that admin's account deletion listed the memberships
\* before someone made the account an admin, so it looked for no heir.  A
\* deletion that leaves no member at all queues the community for removal.
StaleDeletion(p, c) ==
  /\ req[p].op = "deleteTx"
  /\ Admins(c) = {req[p].u}
  /\ \/ req[p].seen[c] # "admin"
     \/ Others(c, req[p].u) = {} /\ c \in req'[p].emptied

AdminsLostOnlyToStaleDeletion ==
  [][\A c \in Community :
        Live(c) /\ Admins(c) # {} /\ Live(c)' /\ Admins(c)' = {}
          => \E p \in Proc : StaleDeletion(p, c)]_vars

\* A suspended community is read-only: nobody gains a role in it and no join
\* request is decided, except by a request that passed its checks before the
\* suspension or an inheritance; requests go with their author and the community.
FreezeWins ==
  [][\A c \in Community, u \in User :
        /\ suspended[c]
        /\ \/ role'[c][u] \notin {role[c][u], "none"}
           \/ Live(c)' /\ u \in pending[c] /\ u \notin pending'[c]
        => \E p \in Proc : req[p].op \in {"enter", "save", "deleteTx"} /\ req'[p] # req[p]]_vars

\* A suspension lasts until a site admin lifts it or the community goes.
SuspensionStands ==
  [][\A c \in Community :
        suspended[c] /\ ~suspended'[c] => life'[c] = "gone" \/ Unsuspend(c)]_vars

\* A removed community does not come back.
RemovedStaysRemoved ==
  [][\A c \in Community : life[c] = "gone" => life'[c] = "gone"]_vars

\* Deleting an account removes communities only if they have no members.
OnlyMemberlessSwept ==
  [][\A p \in Proc, c \in Community : Sweep(p, c) => Members(c) = {}]_vars

\* Nobody becomes a member by an invitation after deleting the account (in an
\* instance without "join" every Enter is an invitation).
InvitesNoShell == [][\A p \in Proc : Enter(p) => req[p].u \notin deleted]_vars

\* Once a community is public nobody is left waiting for a decision.
NobodyWaitsInPublic == \A c \in Community : Live(c) /\ vis[c] = "public" => pending[c] = {}

\* A community whose last member deletes the account is removed, or somebody
\* joins it first.
EmptiedCommunitiesGo ==
  \A c \in Community, u \in User :
    (\E p \in Proc : req[p].op = "deleteTx" /\ req[p].u = u /\ Live(c) /\ Members(c) = {u})
      ~> (life[c] = "gone" \/ Others(c, u) # {})
=============================================================================
