-------------------------- MODULE CommunitiesProofs --------------------------
(***************************************************************************)
(* Theorems about Communities for every set of accounts, communities and   *)
(* request slots, and about the pages it hosts: lists of people (Rosters)  *)
(* and the pages of one thing (Details).                                   *)
(***************************************************************************)
EXTENDS MCCommunities, Sequences, FiniteSetTheorems, WellFoundedInduction, TLAPS

\* What an action does to the request slots keeps their type.
LEMMA BeginType ==
  ASSUME req \in [Proc -> Request], NEW p \in Proc, NEW r \in Request, Begin(p, r)
  PROVE  req' \in [Proc -> Request]
BY DEF Begin

\* ... and so does ending one.
LEMMA FinishType ==
  ASSUME req \in [Proc -> Request], NEW p \in Proc, Finish(p)
  PROVE  req' \in [Proc -> Request]
BY DEF Finish, Request

\* Adding and dropping one row keeps the type of the roster.
LEMMA AddMembersType ==
  ASSUME role \in [Community -> [User -> Role]], NEW c \in Community, NEW S, AddMembers(c, S)
  PROVE  /\ role' \in [Community -> [User -> Role]]
         /\ \A d \in Community \ {c} : role'[d] = role[d]
BY DEF AddMembers, Role

\* Setting one role keeps the type and the rosters of the other communities.
LEMMA SetRoleType ==
  ASSUME role \in [Community -> [User -> Role]], NEW c \in Community, NEW u \in User,
         NEW r \in Role, SetRole(c, u, r)
  PROVE  /\ role' \in [Community -> [User -> Role]]
         /\ \A d \in Community \ {c} : role'[d] = role[d]
BY DEF SetRole, Role

\* Deleting a community takes the rows that reference it along.
LEMMA DeleteRowType ==
  ASSUME TypeOK, NEW c \in Community, DeleteRow(c)
  PROVE  /\ life' \in [Community -> {"unborn", "live", "gone"}]
         /\ role' \in [Community -> [User -> Role]]
         /\ pending' \in [Community -> SUBSET User]
         /\ NoStrayRows'
BY DEF TypeOK, DeleteRow, NoStrayRows, Live, Role

\* The fields of a request are those of its kind.
LEMMA RequestFields ==
  ASSUME NEW r \in Request
  PROVE  /\ r.op = "create" => r.u \in User /\ r.vis \in Visibility
         /\ r.op \in {"enter", "ask"} => r.c \in Community /\ r.u \in User
         /\ r.op = "save" => r.c \in Community /\ r.vis \in Visibility /\ r.opening \in BOOLEAN
         /\ r.op = "remove" => r.c \in Community
         /\ r.op = "deleteTx" => r.u \in User /\ r.seen \in [Community -> Role]
         /\ r.op = "sweep" => r.emptied \in SUBSET Community
BY DEF Request, Idle

\* All variables keep their types, and rows go with their community.
THEOREM TypeCorrect == Spec => []TypeOK
<1> USE DEF TypeOK
<1>1. Init => TypeOK
  BY DEF Init, NoStrayRows, Visibility, Role, Request, Live
<1>2. TypeOK /\ [Next]_vars => TypeOK'
  <2> SUFFICES ASSUME TypeOK, [Next]_vars PROVE TypeOK'
    OBVIOUS
  <2>1. ASSUME NEW p \in Proc, NEW u \in User, NEW v \in Visibility, BeginCreate(p, u, v)
        PROVE  TypeOK'
    <3>1. [op |-> "create", u |-> u, vis |-> v] \in Request
      BY DEF Request
    <3> QED BY <2>1, <3>1, BeginType DEF BeginCreate, rows, NoStrayRows, Live
  <2>2. ASSUME NEW p \in Proc, NEW c \in Community, Create(p, c)
        PROVE  TypeOK'
    <3>1. req[p].u \in User /\ req[p].vis \in Visibility
      BY <2>2, RequestFields DEF Create
    <3>2. req' \in [Proc -> Request]
      BY <2>2, FinishType DEF Create
    <3>3. /\ role' \in [Community -> [User -> Role]]
          /\ \A d \in Community \ {c} : role'[d] = role[d]
      BY <2>2, <3>1, SetRoleType DEF Create, Role
    <3>4. NoStrayRows'
      BY <2>2, <3>3 DEF Create, NoStrayRows, Live
    <3> QED BY <2>2, <3>1, <3>2, <3>3, <3>4 DEF Create
  <2>3. ASSUME NEW p \in Proc, NEW a \in User, NEW c \in Community, NEW v \in Visibility,
               BeginSave(p, a, c, v)
        PROVE  TypeOK'
    <3>1. [op |-> "save", c |-> c, vis |-> v, opening |-> v = "public" /\ vis[c] # "public"]
            \in Request
      BY DEF Request
    <3> QED BY <2>3, <3>1, BeginType DEF BeginSave, rows, NoStrayRows, Live
  <2>4. ASSUME NEW p \in Proc, Save(p)
        PROVE  TypeOK'
    <3> DEFINE c == req[p].c
               S == IF req[p].opening THEN pending[c] ELSE {}
    <3>1. c \in Community /\ req[p].vis \in Visibility
      BY <2>4, RequestFields DEF Save
    <3>2. req' \in [Proc -> Request]
      BY <2>4, FinishType DEF Save
    <3>3. AddMembers(c, S)
      BY <2>4 DEF Save
    <3> HIDE DEF c, S
    <3>4. /\ role' \in [Community -> [User -> Role]]
          /\ \A d \in Community \ {c} : role'[d] = role[d]
      BY <3>1, <3>3, AddMembersType
    <3> USE DEF c, S
    <3>5. /\ life' = [life EXCEPT ![c] = "live"]
          /\ vis' = [vis EXCEPT ![c] = req[p].vis]
          /\ suspended' = [suspended EXCEPT ![c] = FALSE]
          /\ pending' = [pending EXCEPT ![c] = @ \ S]
          /\ deleted' = deleted
      BY <2>4 DEF Save
    <3> HIDE DEF c, S
    <3>6. NoStrayRows'
      BY <3>1, <3>4, <3>5 DEF NoStrayRows, Live
    <3> QED BY <3>1, <3>2, <3>4, <3>5, <3>6
  <2>5. ASSUME NEW p \in Proc, NEW c \in Community, BeginRemove(p, c)
        PROVE  TypeOK'
    <3>1. [op |-> "remove", c |-> c] \in Request
      BY DEF Request
    <3> QED BY <2>5, <3>1, BeginType DEF BeginRemove, rows, NoStrayRows, Live
  <2>6. ASSUME NEW p \in Proc, Remove(p)
        PROVE  TypeOK'
    <3>1. req[p].c \in Community
      BY <2>6, RequestFields DEF Remove
    <3>2. req' \in [Proc -> Request]
      BY <2>6, FinishType DEF Remove
    <3> QED BY <2>6, <3>1, <3>2, DeleteRowType DEF Remove
  <2>7. ASSUME NEW p \in Proc, NEW u \in User, NEW c \in Community, BeginJoin(p, u, c)
        PROVE  TypeOK'
    <3>1. /\ [op |-> "enter", c |-> c, u |-> u] \in Request
          /\ [op |-> "ask", c |-> c, u |-> u] \in Request
      BY DEF Request
    <3>2. req' \in [Proc -> Request]
      BY <2>7, <3>1, BeginType DEF BeginJoin
    <3> QED BY <2>7, <3>2 DEF BeginJoin, rows, NoStrayRows, Live
  <2>8. ASSUME NEW p \in Proc, NEW a \in User, NEW u \in User, NEW c \in Community,
               BeginInvite(p, a, u, c)
        PROVE  TypeOK'
    <3>1. [op |-> "enter", c |-> c, u |-> u] \in Request
      BY DEF Request
    <3> QED BY <2>8, <3>1, BeginType DEF BeginInvite, rows, NoStrayRows, Live
  <2>9. ASSUME NEW p \in Proc, Enter(p)
        PROVE  TypeOK'
    <3>1. req[p].c \in Community /\ req[p].u \in User
      BY <2>9, RequestFields DEF Enter
    <3>2. req' \in [Proc -> Request]
      BY <2>9, FinishType DEF Enter
    <3>3. AddMembers(req[p].c, {req[p].u})
      BY <2>9 DEF Enter
    <3>4. /\ role' \in [Community -> [User -> Role]]
          /\ \A d \in Community \ {req[p].c} : role'[d] = role[d]
      BY <3>1, <3>3, AddMembersType
    <3>5. NoStrayRows'
      BY <2>9, <3>1, <3>4 DEF Enter, NoStrayRows, Live
    <3> QED BY <2>9, <3>1, <3>2, <3>4, <3>5 DEF Enter
  <2>10. ASSUME NEW p \in Proc, Ask(p)
         PROVE  TypeOK'
    <3>1. req[p].c \in Community /\ req[p].u \in User
      BY <2>10, RequestFields DEF Ask
    <3>2. req' \in [Proc -> Request]
      BY <2>10, FinishType DEF Ask
    <3>3. NoStrayRows'
      BY <2>10, <3>1 DEF Ask, NoStrayRows, Live
    <3> QED BY <2>10, <3>1, <3>2, <3>3 DEF Ask
  <2>11. ASSUME NEW u \in User, NEW c \in Community, NEW a \in User,
                Approve(a, u, c) \/ Reject(a, u, c)
         PROVE  TypeOK'
    <3>1. CASE Approve(a, u, c)
      <4>1. /\ role' \in [Community -> [User -> Role]]
            /\ \A d \in Community \ {c} : role'[d] = role[d]
        BY <3>1, AddMembersType DEF Approve
      <4>2. NoStrayRows'
        BY <3>1, <4>1 DEF Approve, NoStrayRows, Active, Live
      <4> QED BY <3>1, <4>1, <4>2 DEF Approve
    <3>2. CASE Reject(a, u, c)
      BY <3>2 DEF Reject, NoStrayRows, Live
    <3> QED BY <2>11, <3>1, <3>2
  <2>12. ASSUME NEW u \in User, NEW c \in Community, NEW a \in User, NEW r \in {"member", "admin"},
                Leave(u, c) \/ UpdateMemberRole(a, u, c, r) \/ RemoveMember(a, u, c)
         PROVE  TypeOK'
    <3>1. PICK s \in Role : SetRole(c, u, s)
      BY <2>12 DEF Leave, UpdateMemberRole, RemoveMember, Role
    <3>2. /\ role' \in [Community -> [User -> Role]]
          /\ \A d \in Community \ {c} : role'[d] = role[d]
      BY <3>1, SetRoleType
    <3>3. Live(c) /\ UNCHANGED <<life, vis, suspended, pending, deleted, req>>
      BY <2>12 DEF Leave, UpdateMemberRole, RemoveMember, Active
    <3>4. NoStrayRows'
      BY <3>2, <3>3 DEF NoStrayRows, Live
    <3> QED BY <3>2, <3>3, <3>4
  <2>13. ASSUME NEW c \in Community, Suspend(c) \/ Unsuspend(c)
         PROVE  TypeOK'
    BY <2>13 DEF Suspend, Unsuspend, NoStrayRows, Live
  <2>14. ASSUME NEW p \in Proc, NEW u \in User, BeginDeleteAccount(p, u)
         PROVE  TypeOK'
    <3>1. [op |-> "deleteTx", u |-> u, seen |-> [c \in Community |-> role[c][u]]] \in Request
      BY DEF Request
    <3> QED BY <2>14, <3>1, BeginType DEF BeginDeleteAccount, rows, NoStrayRows, Live
  <2>15. ASSUME NEW p \in Proc, DeleteAccount(p)
         PROVE  TypeOK'
    <3> DEFINE u == req[p].u
               P == PassedOn(u, req[p].seen)
               next == [op |-> "sweep", emptied |-> Emptied(u, req[p].seen)]
    <3>1. u \in User
      BY <2>15, RequestFields DEF DeleteAccount
    <3>2. next \in Request
      BY DEF Request, Emptied
    <3>3. req' \in [Proc -> Request]
      BY <2>15, <3>2 DEF DeleteAccount
    <3>4. PICK heir \in [P -> User] :
            /\ \A c \in P : heir[c] \in Others(c, u)
            /\ role' = [c \in Community |-> [v \in User |->
                          IF v = u THEN "none"
                          ELSE IF c \in P /\ v = heir[c] THEN "admin" ELSE role[c][v]]]
      BY <2>15 DEF DeleteAccount
    <3>5. role' \in [Community -> [User -> Role]]
      BY <3>4 DEF Role
    <3>6. NoStrayRows'
      <4>1. \A c \in P : ~(\A v \in User : role[c][v] = "none")
        BY <3>4 DEF Others, Members
      <4> HIDE DEF P, u
      <4>2. \A c \in Community : c \notin P => \A v \in User :
              role'[c][v] = "none" \/ role'[c][v] = role[c][v]
        BY <3>4
      <4>3. life' = life /\ \A c \in Community : pending'[c] \subseteq pending[c]
        BY <2>15 DEF DeleteAccount
      <4> QED BY <4>1, <4>2, <4>3 DEF NoStrayRows, Live
    <3> QED BY <2>15, <3>1, <3>3, <3>5, <3>6 DEF DeleteAccount
  <2>16. ASSUME NEW p \in Proc, NEW c \in Community, Sweep(p, c)
         PROVE  TypeOK'
    <3>1. req[p].emptied \in SUBSET Community
      BY <2>16, RequestFields DEF Sweep
    <3>2. [op |-> "sweep", emptied |-> req[p].emptied \ {c}] \in Request
      BY <3>1 DEF Request
    <3>3. req' \in [Proc -> Request]
      BY <2>16, <3>2 DEF Sweep
    <3> QED BY <2>16, <3>3, DeleteRowType DEF Sweep
  <2>17. ASSUME NEW p \in Proc, EndSweep(p) \/ Refused(p) \/ Abort(p)
         PROVE  TypeOK'
    <3>1. Finish(p) /\ UNCHANGED <<rows, deleted>>
      BY <2>17 DEF EndSweep, Refused, Abort
    <3> QED BY <3>1, FinishType DEF rows, NoStrayRows, Live
  <2>18. CASE UNCHANGED vars
    BY <2>18 DEF vars, NoStrayRows, Live
  <2> QED
    BY <2>1, <2>2, <2>3, <2>4, <2>5, <2>6, <2>7, <2>8, <2>9, <2>10, <2>11, <2>12, <2>13, <2>14,
       <2>15, <2>16, <2>17, <2>18
    DEF Next, ProcStep, LockedStep, CreateStep, SaveStep, RemoveStep, JoinStep, InviteStep,
        EnterStep, DeleteAccountStep
<1> QED BY <1>1, <1>2, PTL DEF Spec
-----------------------------------------------------------------------------
HasAdmin(c) == \E u \in User : role[c][u] = "admin"

\* Having an admin, without the set of them.
LEMMA HasAdminDef == \A c \in Community : HasAdmin(c) <=> Admins(c) # {}
BY DEF HasAdmin, Admins

\* What assertNotLastAdminRemoval establishes: with this member gone there is
\* still another admin, or the member was none.
LEMMA AnotherAdmin ==
  ASSUME TypeOK, NEW c \in Community, NEW u \in User, NotLastAdmin(c, u), HasAdmin(c)
  PROVE  \E w \in User \ {u} : role[c][w] = "admin"
<1>1. CASE role[c][u] # "admin"
  BY <1>1 DEF HasAdmin
<1>2. CASE role[c][u] = "admin"
  <2>1. IsFiniteSet(Admins(c))
    BY FiniteUsers, FS_Subset DEF Admins
  <2>2. Cardinality(Admins(c)) \in Nat /\ ~(Cardinality(Admins(c)) <= 1)
    BY <1>2, <2>1, FS_CardinalityType DEF NotLastAdmin, IsLastAdminRemoval
  <2>3. SUFFICES ASSUME Admins(c) = {u} PROVE FALSE
    BY <1>2 DEF Admins
  <2> QED BY <2>2, <2>3, FS_Singleton
<1> QED BY <1>1, <1>2

\* Whatever a step does, a community keeps an admin, unless an account deletion
\* with an outdated list of roles takes the last one away.
LEMMA StepKeepsAdmin ==
  ASSUME TypeOK, [Next]_vars, NEW c \in Community, Live(c), HasAdmin(c), Live(c)'
  PROVE  \/ HasAdmin(c)'
         \/ "deleteAccount" \in Ops /\ \E p \in Proc : StaleDeletion(p, c)
<1> USE DEF TypeOK
<1>1. ASSUME UNCHANGED role
      PROVE  HasAdmin(c)'
  BY <1>1 DEF HasAdmin
<1>2. ASSUME NEW p \in Proc, NEW d \in Community, Create(p, d)
      PROVE  HasAdmin(c)'
  BY <1>2 DEF Create, SetRole, HasAdmin, Live
<1>3. ASSUME NEW d \in Community, NEW S, AddMembers(d, S)
      PROVE  HasAdmin(c)'
  BY <1>3 DEF AddMembers, HasAdmin
<1>4. ASSUME NEW d \in Community, DeleteRow(d)
      PROVE  HasAdmin(c)'
  BY <1>4 DEF DeleteRow, HasAdmin, Live
<1>5. ASSUME NEW u \in User, NEW d \in Community, NEW r \in {"none", "member", "admin"},
             SetRole(d, u, r), r # "admin" => NotLastAdmin(d, u)
      PROVE  HasAdmin(c)'
  <2>1. CASE c = d /\ r # "admin"
    <3>1. PICK w \in User \ {u} : role[c][w] = "admin"
      BY <1>5, <2>1, AnotherAdmin
    <3> QED BY <1>5, <2>1, <3>1 DEF SetRole, HasAdmin
  <2>2. CASE c = d /\ r = "admin"
    BY <1>5, <2>2 DEF SetRole, HasAdmin
  <2>3. CASE c # d
    BY <1>5, <2>3 DEF SetRole, HasAdmin
  <2> QED BY <2>1, <2>2, <2>3
<1>6. ASSUME NEW p \in Proc, DeleteAccount(p)
      PROVE  HasAdmin(c)' \/ StaleDeletion(p, c)
  <2> DEFINE u == req[p].u
             seen == req[p].seen
             P == PassedOn(u, seen)
  <2>1. u \in User /\ seen \in [Community -> Role]
    BY <1>6, RequestFields DEF DeleteAccount
  <2>2. PICK heir \in [P -> User] :
          /\ \A d \in P : heir[d] \in Others(d, u)
          /\ role' = [d \in Community |-> [v \in User |->
                        IF v = u THEN "none"
                        ELSE IF d \in P /\ v = heir[d] THEN "admin" ELSE role[d][v]]]
    BY <1>6 DEF DeleteAccount
  <2>3. CASE c \in P
    <3>1. heir[c] \in User /\ heir[c] # u
      BY <2>2, <2>3 DEF Others, Members
    <3> HIDE DEF P, u
    <3>2. role'[c][heir[c]] = "admin"
      BY <2>2, <2>3, <3>1
    <3> QED BY <3>1, <3>2 DEF HasAdmin
  <2>4. CASE c \notin P /\ Admins(c) \ {u} # {}
    <3>1. PICK w \in User : w # u /\ role[c][w] = "admin"
      BY <2>4 DEF Admins
    <3> HIDE DEF P, u
    <3>2. role'[c][w] = "admin"
      BY <2>2, <2>4, <3>1
    <3> QED BY <3>2 DEF HasAdmin
  <2>5. CASE c \notin P /\ Admins(c) \ {u} = {}
    <3>1. Admins(c) = {u}
      BY <2>5, HasAdminDef
    <3>2. CASE seen[c] # "admin"
      BY <1>6, <3>1, <3>2 DEF StaleDeletion, DeleteAccount
    <3>3. CASE seen[c] = "admin"
      <4>1. Others(c, u) = {}
        BY <2>5, <3>3 DEF PassedOn
      <4>2. c \in Emptied(u, seen)
        BY <3>3, <4>1 DEF Emptied
      <4>3. req'[p].emptied = Emptied(u, seen)
        BY <1>6 DEF DeleteAccount
      <4> QED BY <1>6, <3>1, <4>1, <4>2, <4>3 DEF StaleDeletion, DeleteAccount
    <3> QED BY <3>2, <3>3
  <2> QED BY <2>3, <2>4, <2>5
<1>7. ASSUME NEW p \in Proc, ProcStep(p)
      PROVE  HasAdmin(c)' \/ ("deleteAccount" \in Ops /\ StaleDeletion(p, c))
  <2>1. ASSUME Save(p)
        PROVE  HasAdmin(c)'
    <3>1. req[p].c \in Community
      BY <2>1, RequestFields DEF Save
    <3>2. AddMembers(req[p].c, IF req[p].opening THEN pending[req[p].c] ELSE {})
      BY <2>1 DEF Save
    <3> QED BY <1>3, <3>1, <3>2
  <2>2. ASSUME Remove(p)
        PROVE  HasAdmin(c)'
    <3>1. req[p].c \in Community
      BY <2>2, RequestFields DEF Remove
    <3>2. DeleteRow(req[p].c)
      BY <2>2 DEF Remove
    <3> QED BY <1>4, <3>1, <3>2
  <2>3. ASSUME Enter(p)
        PROVE  HasAdmin(c)'
    <3>1. req[p].c \in Community
      BY <2>3, RequestFields DEF Enter
    <3>2. AddMembers(req[p].c, {req[p].u})
      BY <2>3 DEF Enter
    <3> QED BY <1>3, <3>1, <3>2
  <2>4. ASSUME NEW d \in Community, Sweep(p, d)
        PROVE  HasAdmin(c)'
    BY <1>4, <2>4 DEF Sweep
  <2>5. ASSUME UNCHANGED role
        PROVE  HasAdmin(c)'
    BY <1>1, <2>5
  <2>6. ASSUME UNCHANGED rows
        PROVE  HasAdmin(c)'
    BY <2>5, <2>6 DEF rows
  <2>7. ASSUME Ask(p)
        PROVE  HasAdmin(c)'
    BY <2>5, <2>7 DEF Ask
  <2> QED
    BY <1>2, <1>6, <1>7, <2>1, <2>2, <2>3, <2>4, <2>6, <2>7
    DEF ProcStep, CreateStep, SaveStep, RemoveStep, JoinStep, InviteStep, EnterStep,
        DeleteAccountStep, BeginCreate, BeginSave, BeginRemove, BeginJoin, BeginInvite,
        BeginDeleteAccount, EndSweep, Refused, Abort
<1>8. ASSUME NEW d \in Community, LockedStep(d)
      PROVE  HasAdmin(c)'
  <2>1. ASSUME NEW u \in User, Leave(u, d)
        PROVE  HasAdmin(c)'
    BY <1>5, <2>1 DEF Leave
  <2>2. ASSUME NEW a \in User, NEW u \in User, NEW r \in {"member", "admin"},
               UpdateMemberRole(a, u, d, r)
        PROVE  HasAdmin(c)'
    BY <1>5, <2>2 DEF UpdateMemberRole
  <2>3. ASSUME NEW a \in User, NEW u \in User, RemoveMember(a, u, d)
        PROVE  HasAdmin(c)'
    BY <1>5, <2>3 DEF RemoveMember
  <2>4. ASSUME NEW a \in User, NEW u \in User, Approve(a, u, d)
        PROVE  HasAdmin(c)'
    BY <1>3, <2>4 DEF Approve
  <2>5. ASSUME NEW a \in User, NEW u \in User, Reject(a, u, d) \/ Suspend(d) \/ Unsuspend(d)
        PROVE  HasAdmin(c)'
    BY <1>1, <2>5 DEF Reject, Suspend, Unsuspend
  <2>6. CASE Suspend(d) \/ Unsuspend(d)
    BY <1>1, <2>6 DEF Suspend, Unsuspend
  <2> QED BY <1>8, <2>1, <2>2, <2>3, <2>4, <2>5, <2>6 DEF LockedStep
<1> QED BY <1>1, <1>7, <1>8 DEF Next, vars

\* Whatever runs at the same time, the last admin of a community with members
\* is lost only to an account deletion that listed the roles too early.
THEOREM AdminsAreLostOneWay == Spec => AdminsLostOnlyToStaleDeletion
<1>1. TypeOK /\ [Next]_vars =>
        [\A c \in Community :
           Live(c) /\ Admins(c) # {} /\ Live(c)' /\ Admins(c)' = {}
             => \E p \in Proc : StaleDeletion(p, c)]_vars
  <2> SUFFICES ASSUME TypeOK, [Next]_vars, NEW c \in Community,
                      Live(c), Admins(c) # {}, Live(c)', Admins(c)' = {}
               PROVE  \E p \in Proc : StaleDeletion(p, c)
    OBVIOUS
  <2>1. HasAdmin(c) /\ ~HasAdmin(c)'
    BY HasAdminDef DEF HasAdmin, Admins
  <2> QED BY <2>1, StepKeepsAdmin
<1> QED BY <1>1, TypeCorrect, PTL DEF Spec, AdminsLostOnlyToStaleDeletion
-----------------------------------------------------------------------------
(***************************************************************************)
(* Without account deletions, and unless edits and removals of the same    *)
(* community can overlap, the roster rule holds at all times.              *)
(***************************************************************************)
\* An edit under way is one of a community that still exists, and the requests
\* under way belong to operations on offer.
EditsOfLive ==
  \A p \in Proc :
    /\ req[p].op \notin {"deleteTx", "sweep"}
    /\ req[p].op = "save" => Live(req[p].c) /\ "save" \in Ops
    /\ req[p].op = "remove" => "remove" \in Ops

RosterInv == TypeOK /\ AlwaysAdmin /\ EditsOfLive

\* Without account deletions, and with saves and removals not both in play, an edit
\* under way is of a community that is there.
LEMMA EditsStayLive ==
  ASSUME "deleteAccount" \notin Ops, ~({"save", "remove"} \subseteq Ops),
         TypeOK, EditsOfLive, [Next]_vars
  PROVE  EditsOfLive'
<1> USE DEF TypeOK
<1>1. ASSUME UNCHANGED req, \A c \in Community : Live(c) => Live(c)'
      PROVE  EditsOfLive'
  BY <1>1, RequestFields DEF EditsOfLive
<1>2. ASSUME NEW p \in Proc, Finish(p), \A c \in Community : Live(c) => Live(c)'
      PROVE  EditsOfLive'
  <2>1. \A q \in Proc : req'[q] = req[q] \/ req'[q] = Idle
    BY <1>2 DEF Finish
  <2> QED BY <1>2, <2>1, RequestFields DEF EditsOfLive, Idle
<1>3. ASSUME NEW p \in Proc, NEW r \in Request, Begin(p, r),
             r.op \notin {"deleteTx", "sweep"},
             r.op = "save" => Live(r.c) /\ "save" \in Ops,
             r.op = "remove" => "remove" \in Ops,
             UNCHANGED life
      PROVE  EditsOfLive'
  <2>1. \A q \in Proc : req'[q] = req[q] \/ req'[q] = r
    BY <1>3 DEF Begin
  <2> QED BY <1>3, <2>1 DEF EditsOfLive, Live
<1>4. ASSUME NEW p \in Proc, "create" \in Ops, CreateStep(p)
      PROVE  EditsOfLive'
  <2>1. ASSUME NEW u \in User, NEW v \in Visibility, BeginCreate(p, u, v)
        PROVE  EditsOfLive'
    <3>1. [op |-> "create", u |-> u, vis |-> v] \in Request
      BY DEF Request
    <3> QED BY <1>3, <2>1, <3>1 DEF BeginCreate, rows
  <2>2. ASSUME NEW c \in Community, Create(p, c)
        PROVE  EditsOfLive'
    BY <1>2, <2>2 DEF Create, Live
  <2> QED BY <1>4, <2>1, <2>2 DEF CreateStep
<1>5. ASSUME NEW p \in Proc, "save" \in Ops, SaveStep(p)
      PROVE  EditsOfLive'
  <2>1. ASSUME NEW a \in User, NEW c \in Community, NEW v \in Visibility, BeginSave(p, a, c, v)
        PROVE  EditsOfLive'
    <3> DEFINE r == [op |-> "save", c |-> c, vis |-> v,
                     opening |-> v = "public" /\ vis[c] # "public"]
    <3>1. r \in Request
      BY DEF Request
    <3>2. Live(c) /\ Begin(p, r) /\ UNCHANGED life
      BY <2>1 DEF BeginSave, Active, rows
    <3> QED BY <1>3, <1>5, <3>1, <3>2
  <2>2. ASSUME Save(p)
        PROVE  EditsOfLive'
    <3>1. req[p].c \in Community
      BY <2>2, RequestFields DEF Save
    <3> QED BY <1>2, <2>2, <3>1 DEF Save, Live
  <2> QED BY <1>5, <2>1, <2>2 DEF SaveStep
<1>6. ASSUME NEW p \in Proc, "remove" \in Ops, RemoveStep(p)
      PROVE  EditsOfLive'
  <2>1. ASSUME NEW c \in Community, BeginRemove(p, c)
        PROVE  EditsOfLive'
    <3>1. [op |-> "remove", c |-> c] \in Request
      BY DEF Request
    <3> QED BY <1>3, <1>6, <2>1, <3>1 DEF BeginRemove, rows
  <2>2. ASSUME Remove(p)
        PROVE  EditsOfLive'
    <3>1. \A q \in Proc : req[q].op # "save"
      BY <1>6 DEF EditsOfLive
    <3>2. \A q \in Proc : req'[q] = req[q] \/ req'[q] = Idle
      BY <2>2 DEF Remove, Finish
    <3> QED BY <1>6, <3>1, <3>2 DEF EditsOfLive, Idle
  <2> QED BY <1>6, <2>1, <2>2 DEF RemoveStep
<1>7. ASSUME NEW p \in Proc, JoinStep(p) \/ InviteStep(p)
      PROVE  EditsOfLive'
  <2>1. PICK c \in Community, u \in User, o \in {"enter", "ask"} :
          Begin(p, [op |-> o, c |-> c, u |-> u]) /\ UNCHANGED life
    BY <1>7 DEF JoinStep, InviteStep, BeginJoin, BeginInvite, rows
  <2>2. [op |-> o, c |-> c, u |-> u] \in Request
    BY DEF Request
  <2> QED BY <1>3, <2>1, <2>2
<1>8. ASSUME NEW p \in Proc, EnterStep(p) \/ Abort(p)
      PROVE  EditsOfLive'
  BY <1>2, <1>8 DEF EnterStep, Enter, Ask, Refused, Abort, rows, Live
<1>9. ASSUME NEW c \in Community, LockedStep(c)
      PROVE  EditsOfLive'
  BY <1>1, <1>9 DEF LockedStep, Leave, UpdateMemberRole, RemoveMember, Approve, Reject, Suspend,
                    Unsuspend, Live
<1>10. CASE UNCHANGED vars
  BY <1>1, <1>10 DEF vars, Live
<1> QED BY <1>4, <1>5, <1>6, <1>7, <1>8, <1>9, <1>10 DEF Next, ProcStep

\* Every community keeps an admin whatever joins, leaves, promotions,
\* demotions, removals, decisions, invitations, suspensions and edits overlap.
THEOREM RosterAlwaysHasAdmin ==
  ASSUME "deleteAccount" \notin Ops, ~({"save", "remove"} \subseteq Ops)
  PROVE  Spec => []AlwaysAdmin
<1>1. Init => RosterInv
  <2>1. Init => TypeOK
    BY DEF Init, TypeOK, NoStrayRows, Visibility, Role, Request, Live
  <2> QED BY <2>1 DEF Init, RosterInv, AlwaysAdmin, EditsOfLive, Live, Idle
<1>2. RosterInv /\ TypeOK' /\ [Next]_vars => RosterInv'
  <2> SUFFICES ASSUME RosterInv, TypeOK', [Next]_vars PROVE RosterInv'
    OBVIOUS
  <2>1. EditsOfLive'
    BY EditsStayLive DEF RosterInv
  <2>2. ASSUME NEW c \in Community, Live(c)'
        PROVE  Admins(c)' # {}
    <3>1. CASE Live(c)
      <4>1. HasAdmin(c)
        BY <3>1, HasAdminDef DEF RosterInv, AlwaysAdmin
      <4>2. HasAdmin(c)'
        BY <2>2, <3>1, <4>1, StepKeepsAdmin DEF RosterInv
      <4> QED BY <4>2 DEF HasAdmin, Admins
    <3>2. CASE ~Live(c)
      <4>1. life' # life
        BY <2>2, <3>2 DEF Live
      <4>2. ASSUME NEW d \in Community, LockedStep(d)
            PROVE  FALSE
        BY <4>1, <4>2 DEF LockedStep, Leave, UpdateMemberRole, RemoveMember, Approve, Reject,
                          Suspend, Unsuspend
      <4>3. PICK p \in Proc : ProcStep(p)
        BY <4>1, <4>2 DEF Next, vars
      <4>4. ~Save(p)
        <5>1. Save(p) => req[p].op = "save" /\ life' = [life EXCEPT ![req[p].c] = "live"]
          BY DEF Save
        <5> QED BY <2>2, <3>2, <5>1, RequestFields DEF RosterInv, EditsOfLive, TypeOK, Live
      <4>5. ~Remove(p)
        BY <2>2, <3>2 DEF Remove, DeleteRow, RosterInv, TypeOK, Live
      <4>6. PICK d \in Community : Create(p, d)
        BY <4>1, <4>3, <4>4, <4>5
        DEF ProcStep, CreateStep, SaveStep, RemoveStep, JoinStep, InviteStep, EnterStep,
            BeginCreate, BeginSave, BeginRemove, BeginJoin, BeginInvite, Enter, Ask, Refused,
            Abort, rows
      <4>7. d = c /\ req[p].u \in User /\ role' = [role EXCEPT ![d][req[p].u] = "admin"]
        BY <2>2, <3>2, <4>6, RequestFields DEF Create, SetRole, RosterInv, TypeOK, Live
      <4> QED BY <4>7 DEF Admins, RosterInv, TypeOK
    <3> QED BY <3>1, <3>2
  <2> QED BY <2>1, <2>2 DEF RosterInv, AlwaysAdmin
<1>3. RosterInv => AlwaysAdmin
  BY DEF RosterInv
<1> QED BY <1>1, <1>2, <1>3, TypeCorrect, PTL DEF Spec

-----------------------------------------------------------------------------
\* Nobody suspends a community before it has a row, and its row brings no suspension.
BornActive == \A c \in Community : life[c] = "unborn" => ~suspended[c]

LEMMA BornActiveStep == TypeOK /\ BornActive /\ [Next]_vars => BornActive'
<1> SUFFICES ASSUME TypeOK, BornActive, [Next]_vars PROVE BornActive'
  OBVIOUS
<1> USE DEF TypeOK, BornActive
<1>1. ASSUME \A c \in Community : life'[c] = "unborn" => life[c] = "unborn" /\ suspended'[c] = suspended[c]
      PROVE  BornActive'
  BY <1>1
<1>2. ASSUME NEW p \in Proc, ProcStep(p) PROVE BornActive'
  <2>1. CASE Save(p)
    BY <2>1, RequestFields DEF Save
  <2>2. CASE Remove(p) \/ \E c \in Community : Sweep(p, c) \/ Create(p, c)
    BY <1>1, <2>2, RequestFields DEF Remove, Sweep, Create, DeleteRow
  <2>3. CASE UNCHANGED <<life, suspended>>
    BY <1>1, <2>3
  <2>4. Enter(p) \/ Ask(p) \/ DeleteAccount(p) => UNCHANGED <<life, suspended>>
    BY DEF Enter, Ask, DeleteAccount
  <2> QED
    BY <1>2, <2>1, <2>2, <2>3, <2>4
    DEF ProcStep, CreateStep, SaveStep, RemoveStep, JoinStep, InviteStep, EnterStep, DeleteAccountStep,
        BeginCreate, BeginSave, BeginRemove, BeginJoin, BeginInvite, BeginDeleteAccount, EndSweep,
        Refused, Abort, rows
<1>3. ASSUME NEW c \in Community, LockedStep(c) PROVE BornActive'
  BY <1>3 DEF LockedStep, Leave, UpdateMemberRole, RemoveMember, Approve, Reject, Suspend, Unsuspend,
              Active, Live
<1>4. CASE UNCHANGED vars
  BY <1>4 DEF vars
<1> QED
  BY <1>2, <1>3, <1>4 DEF Next

\* A request that had passed its checks goes on.
Passed == \E p \in Proc : req[p].op \in {"enter", "save", "deleteTx"} /\ req'[p] # req[p]

\* Nothing of a suspended community thaws: no role in it grows and no request is decided.
Frozen(c) ==
  \A u \in User :
    suspended[c] => /\ role'[c][u] \in {role[c][u], "none"}
                    /\ Live(c)' /\ u \in pending[c] => u \in pending'[c]

LEMMA FrozenStep ==
  ASSUME TypeOK, BornActive, [Next]_vars, ~Passed, NEW c \in Community
  PROVE  Frozen(c)
<1> USE DEF Frozen, TypeOK
<1>1. ASSUME role'[c] = role[c], pending[c] \subseteq pending'[c] PROVE Frozen(c)
  BY <1>1
<1>2. ASSUME NEW d \in Community, DeleteRow(d) PROVE Frozen(c)
  BY <1>2 DEF DeleteRow, Live
<1>3. ASSUME NEW p \in Proc, ProcStep(p) PROVE Frozen(c)
  <2>1. ~Enter(p) /\ ~Save(p) /\ ~DeleteAccount(p)
    BY DEF Passed, Enter, Save, DeleteAccount, Finish, Idle
  <2>2. ASSUME NEW d \in Community, Create(p, d) PROVE Frozen(c)
    BY <1>1, <2>2 DEF Create, BornActive, SetRole
  <2>3. CASE Remove(p) \/ \E d \in Community : Sweep(p, d)
    BY <1>2, <2>3, RequestFields DEF Remove, Sweep
  <2>4. CASE Ask(p)
    <3>1. role' = role /\ \A d \in Community : pending[d] \subseteq pending'[d]
      BY <2>4 DEF Ask
    <3> QED BY <1>1, <3>1
  <2>5. CASE UNCHANGED rows
    BY <1>1, <2>5 DEF rows
  <2> QED
    BY <1>3, <2>1, <2>2, <2>3, <2>4, <2>5
    DEF ProcStep, CreateStep, SaveStep, RemoveStep, JoinStep, InviteStep, EnterStep, DeleteAccountStep,
        BeginCreate, BeginSave, BeginRemove, BeginJoin, BeginInvite, BeginDeleteAccount, EndSweep,
        Refused, Abort
<1>4. ASSUME NEW d \in Community, LockedStep(d) PROVE Frozen(c)
  <2>1. ASSUME NEW u \in User, Leave(u, d) PROVE Frozen(c)
    BY <2>1 DEF Leave, SetRole
  <2>2. ASSUME NEW u \in User, NEW r \in Role, ~suspended[d], SetRole(d, u, r), pending' = pending PROVE Frozen(c)
    BY <2>2 DEF SetRole
  <2>3. ASSUME NEW a \in User, NEW u \in User, RemoveMember(a, u, d) PROVE Frozen(c)
    BY <2>2, <2>3 DEF RemoveMember, Active, Role
  <2>4. ASSUME NEW a \in User, NEW u \in User, NEW r \in {"member", "admin"}, UpdateMemberRole(a, u, d, r)
        PROVE  Frozen(c)
    BY <2>2, <2>4 DEF UpdateMemberRole, Active, Role
  <2>5. ASSUME NEW a \in User, NEW u \in User, Approve(a, u, d) \/ Reject(a, u, d) PROVE Frozen(c)
    BY <1>1, <2>5 DEF Approve, Reject, AddMembers, Active
  <2>6. CASE Suspend(d) \/ Unsuspend(d)
    BY <1>1, <2>6 DEF Suspend, Unsuspend
  <2> QED BY <1>4, <2>1, <2>3, <2>4, <2>5, <2>6 DEF LockedStep
<1>5. CASE UNCHANGED vars
  BY <1>1, <1>5 DEF vars
<1> QED
  BY <1>3, <1>4, <1>5 DEF Next

\* A suspension freezes the roster and the requests of a community against everything but
\* what had passed its checks before it, and an inheritance (assertActive, assertActiveTx).
THEOREM SuspensionFreezes == Spec => FreezeWins
<1> DEFINE Holds ==
      \A c \in Community, u \in User :
        /\ suspended[c]
        /\ \/ role'[c][u] \notin {role[c][u], "none"}
           \/ Live(c)' /\ u \in pending[c] /\ u \notin pending'[c]
        => \E p \in Proc : req[p].op \in {"enter", "save", "deleteTx"} /\ req'[p] # req[p]
<1>1. Init => BornActive
  BY DEF Init, BornActive
<1>2. TypeOK /\ BornActive /\ [Next]_vars => [Holds]_vars
  <2> SUFFICES ASSUME TypeOK, BornActive, [Next]_vars PROVE Holds
    OBVIOUS
  <2>1. CASE Passed
    BY <2>1 DEF Passed
  <2>2. CASE ~Passed
    BY <2>2, FrozenStep DEF Frozen
  <2> QED BY <2>1, <2>2
<1> QED
  BY <1>1, <1>2, BornActiveStep, TypeCorrect, PTL DEF Spec, FreezeWins
-----------------------------------------------------------------------------
(* The lists of people (Rosters).                                             *)
(*                                                                            *)
(* The requests under way that bear on the list are those for a page of it,   *)
(* changes, and refreshes of the page around it.  While no cause is noted,    *)
(* at most one page is asked for; and unless the list is to be loaded again   *)
(* in any case, that page, or what is shown, is the server's by now.          *)
Kinds == {"people", "change", "refresh", "suggest"}
Changes == {"demote", "remove", "promote", "invite", "approve", "reject"}
Texts == {null, "a", "b"}
RoleFilters == {"all", "member", "lead"}
Rows == UNION {[S -> {"none", "member", "lead"}] : S \in SUBSET (1 .. 3)}
Pages == [items : Rows, total : Nat]
Heads == [mine : {"none", "member", "lead"}, leads : BOOLEAN, invites : BOOLEAN]
Names == [items : SUBSET (1 .. 3)]
Asked == [kind : Kinds, what : Changes \cup Texts, who : (1 .. 3) \cup {null}, role : RoleFilters, no : Nat \ {0},
          state : {"sent", "ok", "failed"}, ans : {null} \cup Pages \cup Heads \cup Names]

ListStates == [role : [1 .. 3 -> {"none", "member", "lead"}], boss : BOOLEAN, asks : SUBSET (1 .. 3)]
ListPages == [shown : Rows, total : Nat, role : RoleFilters, no : Nat \ {0}, mutating : BOOLEAN,
              candidate : (1 .. 3) \cup {null}, text : Texts, suggested : SUBSET (1 .. 3), suggestedFor : Texts,
              leads : BOOLEAN, invites : BOOLEAN, here : BOOLEAN]

\* An answer is of the kind of its request.
Proper(r) ==
    /\ r.kind = "change" => r.what \in Changes /\ r.who \in 1 .. 3
    /\ r.kind = "suggest" => r.what \in {"a", "b"} \ {null}
    /\ r.state = "ok" => /\ r.kind = "people" => r.ans \in Pages
                         /\ r.kind = "refresh" => r.ans \in Heads
                         /\ r.kind = "suggest" => r.ans \in Names

ListTypes ==
    /\ screen \in {"members", "subgroup", "requests"} /\ db \in ListStates /\ page \in ListPages
    /\ timer \in Texts
    /\ net \in Seq(Asked) /\ \A i \in DOMAIN net : Proper(net[i])

Bears(r) == r.kind # "suggest"
Reloads(r) == r.kind = "refresh" \/ (r.kind = "change" /\ r.state = "ok")
OneAsked == \A i, j \in DOMAIN net : net[i].kind = "people" /\ net[j].kind = "people" => i = j
AsksRight(r) ==
    r.role = page.role /\ r.no = page.no
    /\ (r.state = "ok" => r.ans = [items |-> R!PageOf(db, r.role, r.no), total |-> Cardinality(R!Fits(db, r.role))])
ShowsRight ==
    /\ page.shown = R!PageOf(db, page.role, page.no)
    /\ page.total = Cardinality(R!Fits(db, page.role))
    /\ page.no <= R!PagesOf(page.total)

Waiting == page.mutating => \E i \in DOMAIN net : Bears(net[i])
Suggesting ==
    page.suggested # {} => \/ page.suggestedFor = page.text
                           \/ timer = page.text /\ timer # null
                           \/ \E i \in DOMAIN net : net[i].kind = "suggest" /\ net[i].what = page.text
Current ==
    cause = {} =>
        /\ OneAsked
        /\ \/ \E i \in DOMAIN net : Reloads(net[i])
           \/ \E i \in DOMAIN net : net[i].kind = "people" /\ AsksRight(net[i])
           \/ (\A i \in DOMAIN net : net[i].kind # "people") /\ ShowsRight
ListInv == ListTypes /\ (page.here => Waiting /\ Suggesting /\ Current)

\* What the second of two sequences contributes to both together.
LEMMA SecondPart ==
  ASSUME NEW S, NEW s \in Seq(S), NEW t \in Seq(S), NEW k \in 1 .. Len(t)
  PROVE  (s \o t)[Len(s) + k] = t[k]
OBVIOUS

\* A sequence without its i-th element.
LEMMA Removal ==
  ASSUME NEW S, NEW s \in Seq(S), NEW i \in DOMAIN s
  PROVE  LET rest == R!RemoveAt(s, i)
             Old(j) == IF j < i THEN j ELSE j + 1
         IN  /\ rest \in Seq(S) /\ Len(rest) = Len(s) - 1
             /\ \A j \in DOMAIN rest : Old(j) \in DOMAIN s \ {i} /\ rest[j] = s[Old(j)]
             /\ \A k \in DOMAIN s \ {i} : \E j \in DOMAIN rest : rest[j] = s[k]
<1> DEFINE front == SubSeq(s, 1, i - 1)
           back == SubSeq(s, i + 1, Len(s))
           rest == R!RemoveAt(s, i)
<1>1. i \in 1 .. Len(s) /\ Len(s) \in Nat /\ \A j \in 1 .. Len(s) : s[j] \in S
  OBVIOUS
<1>2. /\ front \in Seq(S) /\ Len(front) = i - 1
      /\ \A j \in 1 .. i - 1 : front[j] = s[j]
  BY <1>1
<1>3. /\ back \in Seq(S) /\ Len(back) = Len(s) - i
      /\ \A j \in 1 .. Len(s) - i : back[j] = s[j + i]
  BY <1>1
<1>4. rest = front \o back
  BY DEF R!RemoveAt
<1>5. /\ rest \in Seq(S) /\ Len(rest) = Len(s) - 1 /\ DOMAIN rest = 1 .. Len(s) - 1
      /\ \A j \in 1 .. i - 1 : rest[j] = s[j]
      /\ \A j \in i .. Len(s) - 1 : rest[j] = s[j + 1]
  <2> HIDE DEF front, back, rest
  <2>1. rest \in Seq(S) /\ Len(rest) = Len(s) - 1
    BY <1>1, <1>2, <1>3, <1>4
  <2>2. \A j \in 1 .. i - 1 : rest[j] = s[j]
    BY <1>1, <1>2, <1>3, <1>4
  <2>3. ASSUME NEW j \in i .. Len(s) - 1 PROVE rest[j] = s[j + 1]
    <3> DEFINE k == j - (i - 1)
    <3>1. k \in 1 .. Len(s) - i /\ k + i = j + 1 /\ (i - 1) + k = j
      BY <1>1
    <3> HIDE DEF k
    <3>2. front \in Seq(S) /\ Len(front) = i - 1 /\ back \in Seq(S) /\ Len(back) = Len(s) - i
      BY <1>2, <1>3
    <3>3. k \in 1 .. Len(back) /\ Len(front) + k = j
      BY <3>1, <3>2
    <3>4. (front \o back)[Len(front) + k] = back[k]
      BY <3>2, <3>3, SecondPart, Zenon
    <3>5. rest[j] = back[k]
      BY <1>4, <3>3, <3>4
    <3>6. back[k] = s[k + i]
      BY <1>3, <3>1
    <3> QED BY <3>1, <3>5, <3>6
  <2> QED BY <2>1, <2>2, <2>3
<1> HIDE DEF rest
<1>6. ASSUME NEW j \in DOMAIN rest
      PROVE  LET Old == IF j < i THEN j ELSE j + 1 IN Old \in DOMAIN s \ {i} /\ rest[j] = s[Old]
  <2>1. j \in 1 .. Len(s) - 1 /\ DOMAIN s = 1 .. Len(s)
    BY <1>1, <1>5
  <2>2. CASE j < i
    <3>1. j \in 1 .. i - 1 /\ j \in DOMAIN s \ {i}
      BY <1>1, <2>1, <2>2
    <3> QED BY <1>5, <2>2, <3>1
  <2>3. CASE ~(j < i)
    <3>1. j \in i .. Len(s) - 1 /\ j + 1 \in DOMAIN s \ {i}
      BY <1>1, <2>1, <2>3
    <3> QED BY <1>5, <2>3, <3>1
  <2> QED BY <2>2, <2>3
<1>7. ASSUME NEW k \in DOMAIN s \ {i} PROVE \E j \in DOMAIN rest : rest[j] = s[k]
  <2>1. CASE k < i
    BY <1>1, <1>5, <2>1
  <2>2. CASE k > i
    <3>1. k - 1 \in i .. Len(s) - 1 /\ (k - 1) + 1 = k
      BY <1>1, <2>2
    <3> QED BY <1>1, <1>5, <3>1
  <2> QED BY <1>1, <2>1, <2>2
<1> QED BY <1>5, <1>6, <1>7 DEF rest

\* The instance counts as the module that counts does.
LEMMA CountsAlike == \A S : R!Cardinality(S) = Cardinality(S)
BY DEF R!Cardinality, Cardinality, R!IsFiniteSet, IsFiniteSet

\* What the server answers are people.
LEMMA ListAnswers ==
  ASSUME NEW d \in ListStates, NEW which
  PROVE  /\ R!Fits(d, which) \subseteq 1 .. 3 /\ IsFiniteSet(R!Fits(d, which))
         /\ Cardinality(R!Fits(d, which)) \in Nat
         /\ \A no : R!PageOf(d, which, no) \in Rows
<1>1. R!Fits(d, which) \subseteq 1 .. 3
  BY DEF R!Fits, R!Person, ListStates
<1>2. IsFiniteSet(1 .. 3)
  <2>1. PICK n \in Int : n = 3
    OBVIOUS
  <2>2. IsFiniteSet(1 .. n)
    BY FS_Interval
  <2> QED BY <2>1, <2>2, Zenon
<1>3. IsFiniteSet(R!Fits(d, which)) /\ Cardinality(R!Fits(d, which)) \in Nat
  BY <1>1, <1>2, FS_Subset, FS_CardinalityType
<1>4. ASSUME NEW no PROVE R!PageOf(d, which, no) \in Rows
  <2>1. PICK S \in SUBSET (1 .. 3) : R!PageOf(d, which, no) = [u \in S |-> d.role[u]]
    BY <1>1 DEF R!PageOf
  <2>2. [u \in S |-> d.role[u]] \in [S -> {"none", "member", "lead"}]
    BY DEF ListStates
  <2> QED BY <2>1, <2>2 DEF Rows
<1> QED BY <1>1, <1>3, <1>4

\* A page that is not empty, or the first, is not behind the last one.
LEMMA NotBehind ==
  ASSUME NEW d \in ListStates, NEW which, NEW no \in Nat \ {0},
         R!PageOf(d, which, no) = <<>> => no = 1
  PROVE  no <= R!PagesOf(Cardinality(R!Fits(d, which)))
<1> DEFINE folks == R!Fits(d, which)
           total == Cardinality(folks)
           Rank(u) == Cardinality({v \in folks : v <= u})
           chosen == {v \in folks : Rank(v) > (no - 1) * R!PageSize /\ Rank(v) <= no * R!PageSize}
<1>1. IsFiniteSet(folks) /\ total \in Nat
  BY ListAnswers
<1>2. R!PageSize \in {1, 3}
  BY DEF R!PageSize
<1>3. R!PageOf(d, which, no) = [u \in chosen |-> d.role[u]]
  BY CountsAlike DEF R!PageOf
<1>4. ASSUME NEW u PROVE Rank(u) \in Nat /\ Rank(u) <= total
  <2>1. {v \in folks : v <= u} \subseteq folks
    OBVIOUS
  <2> HIDE DEF folks
  <2> QED BY <1>1, <2>1, FS_Subset, FS_CardinalityType
<1> HIDE DEF folks, Rank
<1>5. chosen = {} => R!PageOf(d, which, no) = <<>>
  BY <1>3
<1>6. no = 1 \/ total > (no - 1) * R!PageSize
  BY <1>1, <1>2, <1>4, <1>5
<1>7. R!PagesOf(total) = IF total = 0 THEN 1 ELSE (total + R!PageSize - 1) \div R!PageSize
  BY DEF R!PagesOf
<1> HIDE DEF total
<1>8. no <= R!PagesOf(total)
  <2>1. CASE R!PageSize = 1
    BY <1>1, <1>6, <1>7, <2>1
  <2>2. CASE R!PageSize = 3
    BY <1>1, <1>6, <1>7, <2>2
  <2> QED BY <1>2, <2>1, <2>2
<1> QED BY <1>8 DEF total, folks

\* How many pages there are.
LEMMA SomePages ==
  ASSUME NEW total \in Nat
  PROVE  R!PagesOf(total) \in Nat \ {0}
<1>1. R!PageSize \in {1, 3}
  BY DEF R!PageSize
<1> QED BY <1>1 DEF R!PagesOf

\* A list that is asked for when nothing else bears on it will be right, and nothing need be
\* known of one asked for beside other requests.
LEMMA AskingForPeople ==
  ASSUME screen' \in {"members", "subgroup", "requests"}, db' \in ListStates, timer' \in Texts,
         page \in ListPages,
         NEW p \in ListPages, NEW rest \in Seq(Asked), \A j \in DOMAIN rest : Proper(rest[j]),
         R!LoadPeople(p, rest),
         p.suggested # {} => \/ p.suggestedFor = p.text
                             \/ timer' = p.text /\ timer' # null
                             \/ \E j \in DOMAIN rest : rest[j].kind = "suggest" /\ rest[j].what = p.text
  PROVE  ListInv'
<1> DEFINE r == [R!Ask("people", null, null) EXCEPT !.role = p.role, !.no = p.no]
           n == Len(rest) + 1
<1>1. /\ page' = p /\ net' = Append(rest, r)
      /\ cause' = IF \E j \in DOMAIN rest : rest[j].kind # "suggest" THEN cause \cup {"crossed"} ELSE {}
  BY DEF R!LoadPeople
<1>2. /\ r \in Asked /\ Proper(r) /\ r.kind = "people" /\ r.state = "sent"
      /\ r.role = p.role /\ r.no = p.no
  BY DEF R!Ask, Asked, Kinds, Texts, ListPages, Proper
<1>3. /\ net' \in Seq(Asked) /\ Len(net') = n /\ n \in Nat /\ n \in 1 .. n /\ DOMAIN rest = 1 .. n - 1
      /\ DOMAIN net' = 1 .. n /\ net'[n] = r /\ \A j \in DOMAIN rest : j \in 1 .. n /\ net'[j] = rest[j]
  <2> HIDE DEF r
  <2> QED BY <1>1, <1>2
<1> HIDE DEF r, n
<1>4. \A j \in DOMAIN net' : j = n \/ j \in DOMAIN rest
  BY <1>3
<1>5. n \in DOMAIN net'
  <2>1. n \in 1 .. n /\ DOMAIN net' = 1 .. n
    BY <1>3
  <2> QED BY <2>1
<1>6. ListTypes'
  <2>1. \A j \in DOMAIN net' : Proper(net'[j])
    BY <1>2, <1>3, <1>4
  <2> QED BY <1>1, <1>3, <2>1 DEF ListTypes
<1>7. Waiting' /\ Suggesting'
  BY <1>1, <1>2, <1>3, <1>5 DEF Waiting, Suggesting, Bears
<1>8. Current'
  <2> SUFFICES ASSUME cause' = {}
               PROVE  OneAsked' /\ (\E i \in DOMAIN net : net[i].kind = "people" /\ AsksRight(net[i]))'
    BY DEF Current
  <2>1. \A j \in DOMAIN rest : rest[j].kind = "suggest"
    BY <1>1
  <2>2. OneAsked'
    BY <1>3, <1>4, <2>1 DEF OneAsked
  <2>3. AsksRight(net[n])'
    BY <1>1, <1>2, <1>3 DEF AsksRight
  <2> QED BY <1>2, <1>3, <1>5, <2>2, <2>3
<1> QED BY <1>6, <1>7, <1>8 DEF ListInv

\* A step that leaves the list, the filter and what the server holds.
SameList ==
    /\ UNCHANGED <<screen, db, cause>> /\ timer' \in Texts /\ page' \in ListPages
    /\ page'.shown = page.shown /\ page'.total = page.total /\ page'.role = page.role /\ page'.no = page.no

\* What is suggested stays, or is nothing.
SameNames ==
    \/ page'.suggested = {}
    \/ page'.suggested = page.suggested /\ page'.suggestedFor = page.suggestedFor /\ page'.text = page.text

\* The server's pages are the same ones after such a step.
LEMMA StillRight ==
  ASSUME SameList
  PROVE  /\ \A r : AsksRight(r) => AsksRight(r)'
         /\ ShowsRight => ShowsRight'
<1>1. /\ \A which, no : R!PageOf(db, which, no)' = R!PageOf(db, which, no)
      /\ \A which : R!Fits(db, which)' = R!Fits(db, which)
      /\ \A total : R!PagesOf(total)' = R!PagesOf(total)
  BY DEF SameList, R!PageOf, R!Fits, R!PagesOf, R!PageSize
<1> QED BY <1>1 DEF SameList, AsksRight, ShowsRight

\* A change or a search for names is sent.
LEMMA OtherSent ==
  ASSUME ListInv, page.here, SameList, SameNames,
         NEW r \in Asked, Proper(r), r.kind \in {"change", "suggest"}, r.state = "sent",
         net' = Append(net, r),
         page'.mutating => page.mutating \/ r.kind = "change",
         timer' = timer \/ (timer = r.what /\ r.kind = "suggest")
  PROVE  ListInv'
<1> DEFINE n == Len(net) + 1
<1>1. ListTypes /\ Waiting /\ Suggesting /\ Current
  BY DEF ListInv
<1>2. /\ net' \in Seq(Asked) /\ n \in Nat /\ DOMAIN net = 1 .. n - 1 /\ DOMAIN net' = 1 .. n
      /\ net'[n] = r /\ \A j \in DOMAIN net : j \in 1 .. n /\ net'[j] = net[j]
  BY <1>1 DEF ListTypes
<1> HIDE DEF n
<1>3. (\A j \in DOMAIN net' : j = n \/ j \in DOMAIN net) /\ n \in DOMAIN net'
  BY <1>2
<1>4. ListTypes'
  <2>1. \A j \in DOMAIN net' : Proper(net'[j])
    BY <1>1, <1>2, <1>3 DEF ListTypes
  <2> QED BY <1>1, <1>2, <2>1 DEF ListTypes, SameList
<1>5. Waiting'
  BY <1>1, <1>2, <1>3 DEF Waiting, Bears
<1>6. Suggesting'
  BY <1>1, <1>2, <1>3 DEF Suggesting, SameNames
<1>7. Current'
  <2> SUFFICES ASSUME cause = {} PROVE Current'
    BY DEF Current, SameList
  <2>1. OneAsked'
    BY <1>1, <1>2, <1>3 DEF OneAsked, Current
  <2>2. CASE \E i \in DOMAIN net : Reloads(net[i])
    <3>1. \E i \in DOMAIN net' : Reloads(net'[i])
      BY <1>2, <2>2
    <3> QED BY <2>1, <3>1 DEF Current
  <2>3. CASE \E i \in DOMAIN net : net[i].kind = "people" /\ AsksRight(net[i])
    <3>1. PICK i \in DOMAIN net : net[i].kind = "people" /\ AsksRight(net[i])
      BY <2>3
    <3>2. i \in DOMAIN net' /\ net'[i].kind = "people" /\ AsksRight(net[i])'
      BY <1>2, <3>1, StillRight DEF AsksRight
    <3> QED BY <2>1, <3>2 DEF Current
  <2>4. CASE (\A i \in DOMAIN net : net[i].kind # "people") /\ ShowsRight
    BY <1>2, <1>3, <2>1, <2>4, StillRight DEF Current
  <2> QED BY <1>1, <2>2, <2>3, <2>4 DEF Current
<1> QED BY <1>4, <1>5, <1>6, <1>7 DEF ListInv

\* The answer to a search for names is taken, or the failure of a change.
LEMMA OtherTaken ==
  ASSUME ListInv, page.here, SameList, timer' = timer, NEW i \in DOMAIN net, net' = R!RemoveAt(net, i),
         net[i].kind = "suggest" \/ (net[i].kind = "change" /\ net[i].state = "failed"),
         page'.mutating => page.mutating /\ net[i].kind = "suggest",
         \/ page'.suggested = {}
         \/ page'.suggestedFor = page'.text
         \/ SameNames /\ (net[i].kind = "suggest" => net[i].what # page.text)
  PROVE  ListInv'
<1>1. ListTypes /\ Waiting /\ Suggesting /\ Current
  BY DEF ListInv
<1>2. /\ net' \in Seq(Asked)
      /\ \A k \in DOMAIN net \ {i} : \E j \in DOMAIN net' : net'[j] = net[k]
      /\ \A j \in DOMAIN net' : \E k \in DOMAIN net : net'[j] = net[k]
      /\ \A j, k \in DOMAIN net' : OneAsked /\ net'[j].kind = "people" /\ net'[k].kind = "people" => j = k
  <2> DEFINE Old(j) == IF j < i THEN j ELSE j + 1
  <2>1. /\ net' \in Seq(Asked)
        /\ \A j \in DOMAIN net' : Old(j) \in DOMAIN net \ {i} /\ net'[j] = net[Old(j)]
        /\ \A k \in DOMAIN net \ {i} : \E j \in DOMAIN net' : net'[j] = net[k]
    BY <1>1, Removal DEF ListTypes
  <2>2. \A j, k \in DOMAIN net' : Old(j) = Old(k) => j = k
    BY <1>1, <2>1 DEF ListTypes
  <2> HIDE DEF Old
  <2> QED BY <2>1, <2>2 DEF OneAsked
<1>3. ListTypes'
  <2>1. \A j \in DOMAIN net' : Proper(net'[j])
    BY <1>1, <1>2 DEF ListTypes
  <2> QED BY <1>1, <1>2, <2>1 DEF ListTypes, SameList
<1>4. Waiting'
  BY <1>1, <1>2 DEF Waiting, Bears
<1>5. Suggesting'
  BY <1>1, <1>2 DEF Suggesting, SameNames
<1>6. Current'
  <2> SUFFICES ASSUME cause = {} PROVE Current'
    BY DEF Current, SameList
  <2>1. OneAsked'
    BY <1>1, <1>2 DEF OneAsked, Current
  <2>2. CASE \E k \in DOMAIN net : Reloads(net[k])
    <3>1. PICK k \in DOMAIN net : Reloads(net[k])
      BY <2>2
    <3>2. k # i
      BY <3>1 DEF Reloads
    <3>3. \E j \in DOMAIN net' : Reloads(net'[j])
      BY <1>2, <3>1, <3>2
    <3> QED BY <2>1, <3>3 DEF Current
  <2>3. CASE \E k \in DOMAIN net : net[k].kind = "people" /\ AsksRight(net[k])
    <3>1. PICK k \in DOMAIN net : net[k].kind = "people" /\ AsksRight(net[k])
      BY <2>3
    <3>2. PICK j \in DOMAIN net' : net'[j] = net[k]
      BY <1>2, <3>1
    <3>3. net'[j].kind = "people" /\ AsksRight(net[j])'
      BY <3>1, <3>2, StillRight DEF AsksRight
    <3> QED BY <2>1, <3>2, <3>3 DEF Current
  <2>4. CASE (\A k \in DOMAIN net : net[k].kind # "people") /\ ShowsRight
    BY <1>2, <2>1, <2>4, StillRight DEF Current
  <2> QED BY <1>1, <2>2, <2>3, <2>4 DEF Current
<1> QED BY <1>3, <1>4, <1>5, <1>6 DEF ListInv

\* A change is done, and the page around the list is asked for again.
LEMMA RefreshSent ==
  ASSUME ListInv, page.here, SameList, SameNames, timer' = timer, NEW i \in DOMAIN net, net[i].kind = "change",
         net' = Append(R!RemoveAt(net, i), R!Ask("refresh", null, null))
  PROVE  ListInv'
<1> DEFINE rest == R!RemoveAt(net, i)
           r == R!Ask("refresh", null, null)
           n == Len(rest) + 1
           Old(j) == IF j < i THEN j ELSE j + 1
<1>1. ListTypes /\ Waiting /\ Suggesting /\ Current
  BY DEF ListInv
<1>2. r \in Asked /\ Proper(r) /\ r.kind = "refresh"
  BY <1>1 DEF R!Ask, ListTypes, ListPages, Asked, Kinds, Texts, Proper
<1>3. /\ rest \in Seq(Asked)
      /\ \A j \in DOMAIN rest : Old(j) \in DOMAIN net /\ rest[j] = net[Old(j)]
      /\ \A k \in DOMAIN net \ {i} : \E j \in DOMAIN rest : rest[j] = net[k]
  BY <1>1, Removal DEF ListTypes
<1>4. \A j, k \in DOMAIN rest : Old(j) = Old(k) => j = k
  BY <1>1, <1>3 DEF ListTypes
<1> HIDE DEF rest, r, Old
<1>5. /\ net' \in Seq(Asked) /\ n \in Nat /\ DOMAIN rest = 1 .. n - 1 /\ DOMAIN net' = 1 .. n
      /\ net'[n] = r /\ \A j \in DOMAIN rest : j \in 1 .. n /\ net'[j] = rest[j]
  BY <1>2, <1>3 DEF rest, r
<1> HIDE DEF n
<1>6. (\A j \in DOMAIN net' : j = n \/ j \in DOMAIN rest) /\ n \in DOMAIN net'
  BY <1>5
<1>7. ListTypes'
  <2>1. \A j \in DOMAIN net' : Proper(net'[j])
    BY <1>1, <1>2, <1>3, <1>5, <1>6 DEF ListTypes
  <2> QED BY <1>1, <1>5, <2>1 DEF ListTypes, SameList
<1>8. Waiting'
  BY <1>2, <1>5, <1>6 DEF Waiting, Bears
<1>9. Suggesting'
  <2>1. \A k \in DOMAIN net : net[k].kind = "suggest" => \E j \in DOMAIN net' : net'[j] = net[k]
    BY <1>3, <1>5
  <2> QED BY <1>1, <2>1 DEF Suggesting, SameNames
<1>10. Current'
  <2> SUFFICES ASSUME cause = {} PROVE OneAsked' /\ Reloads(net'[n])
    BY <1>6 DEF Current, SameList
  <2>1. OneAsked'
    BY <1>1, <1>2, <1>3, <1>4, <1>5, <1>6 DEF OneAsked, Current
  <2> QED BY <1>2, <1>5, <2>1 DEF Reloads
<1> QED BY <1>7, <1>8, <1>9, <1>10 DEF ListInv

\* The list is shown that came.
LEMMA PeopleShown ==
  ASSUME ListInv, page.here, NEW i \in DOMAIN net, R!PeopleCome(i)
  PROVE  ListInv'
<1> DEFINE rest == R!RemoveAt(net, i)
           done == [page EXCEPT !.mutating = FALSE]
           ans == net[i].ans
<1>1. ListTypes /\ Waiting /\ Suggesting /\ Current
  BY DEF ListInv
<1>2. /\ net[i] \in Asked /\ Proper(net[i]) /\ net[i].kind = "people" /\ net[i].state # "sent"
      /\ UNCHANGED <<screen, db, timer>> /\ page \in ListPages
  BY <1>1 DEF ListTypes, R!PeopleCome, R!Answered
<1>3. net[i].state = "ok" => ans \in Pages /\ ans.items \in Rows /\ ans.total \in Nat
  BY <1>2 DEF Proper, Pages
<1>4. /\ rest \in Seq(Asked) /\ \A j \in DOMAIN rest : Proper(rest[j])
      /\ \A k \in DOMAIN net \ {i} : \E j \in DOMAIN rest : rest[j] = net[k]
      /\ \A j \in DOMAIN rest : \E k \in DOMAIN net \ {i} : rest[j] = net[k]
      /\ \A j, k \in DOMAIN rest : OneAsked /\ rest[j].kind = "people" /\ rest[k].kind = "people" => j = k
  <2> DEFINE Old(j) == IF j < i THEN j ELSE j + 1
  <2>1. /\ rest \in Seq(Asked)
        /\ \A j \in DOMAIN rest : Old(j) \in DOMAIN net \ {i} /\ rest[j] = net[Old(j)]
        /\ \A k \in DOMAIN net \ {i} : \E j \in DOMAIN rest : rest[j] = net[k]
    BY <1>1, Removal DEF ListTypes
  <2> HIDE DEF rest
  <2>2. \A j, k \in DOMAIN rest : Old(j) = Old(k) => j = k
    BY <1>1, <2>1 DEF ListTypes
  <2> HIDE DEF Old
  <2>3. \A j \in DOMAIN rest : Proper(rest[j]) /\ \E k \in DOMAIN net \ {i} : rest[j] = net[k]
    BY <1>1, <2>1 DEF ListTypes
  <2>4. ASSUME NEW j \in DOMAIN rest, NEW k \in DOMAIN rest, OneAsked, rest[j].kind = "people", rest[k].kind = "people"
        PROVE  j = k
    <3>1. Old(j) = Old(k)
      BY <2>1, <2>4 DEF OneAsked
    <3> QED BY <2>2, <3>1
  <2> QED BY <2>1, <2>3, <2>4
<1>5. page.suggested # {} => \/ page.suggestedFor = page.text
                             \/ timer' = page.text /\ timer' # null
                             \/ \E j \in DOMAIN rest : rest[j].kind = "suggest" /\ rest[j].what = page.text
  BY <1>1, <1>2, <1>4 DEF Suggesting
<1> HIDE DEF rest
<1>6. ASSUME net' = rest, NEW items \in Rows, NEW total \in Nat,
             page' = [done EXCEPT !.shown = items, !.total = total],
             Current'
      PROVE  ListInv'
  <2>1. page' \in ListPages /\ ~page'.mutating
        /\ page'.suggested = page.suggested /\ page'.suggestedFor = page.suggestedFor /\ page'.text = page.text
    BY <1>2, <1>6 DEF ListPages
  <2>2. ListTypes'
    <3>1. \A j \in DOMAIN net' : Proper(net'[j])
      BY <1>4, <1>6
    <3> QED BY <1>1, <1>2, <1>4, <1>6, <2>1, <3>1 DEF ListTypes
  <2> QED BY <1>5, <1>6, <2>1, <2>2 DEF ListInv, Waiting, Suggesting
<1>7. CASE net[i].state = "failed"
  <2>1. page' = done /\ net' = rest /\ cause' = cause \cup {"failed"}
    BY <1>7 DEF R!PeopleCome, rest
  <2>2. page' = [done EXCEPT !.shown = page.shown, !.total = page.total] /\ page.shown \in Rows /\ page.total \in Nat
    BY <1>2, <2>1 DEF ListPages
  <2>3. Current'
    BY <2>1 DEF Current
  <2> QED BY <1>6, <2>1, <2>2, <2>3
<1>8. CASE net[i].state = "ok" /\ R!StepsBack(page, ans)
  <2> DEFINE p == [page EXCEPT !.no = R!PagesOf(ans.total)]
  <2>1. R!LoadPeople(p, rest)
    BY <1>8 DEF R!PeopleCome, rest
  <2>2. R!PagesOf(ans.total) \in Nat \ {0}
    BY <1>3, <1>8, SomePages
  <2>3. p \in ListPages /\ p.suggested = page.suggested /\ p.suggestedFor = page.suggestedFor /\ p.text = page.text
    BY <1>2, <2>2 DEF ListPages
  <2> HIDE DEF p
  <2>4. screen' \in {"members", "subgroup", "requests"} /\ db' \in ListStates /\ timer' \in Texts
    BY <1>1, <1>2 DEF ListTypes
  <2> QED BY <1>2, <1>4, <1>5, <2>1, <2>3, <2>4, AskingForPeople
<1>9. CASE net[i].state = "ok" /\ ~R!StepsBack(page, ans)
  <2>1. /\ page' = [done EXCEPT !.shown = ans.items, !.total = ans.total]
        /\ net' = rest /\ cause' = cause
    BY <1>9 DEF R!PeopleCome, rest
  <2>2. /\ page'.shown = ans.items /\ page'.total = ans.total /\ page'.role = page.role /\ page'.no = page.no
        /\ page.no \in Nat \ {0}
    BY <1>2, <2>1 DEF ListPages
  <2>3. ASSUME cause = {} PROVE Current'
    <3>1. OneAsked'
      BY <1>1, <1>4, <2>1, <2>3 DEF Current, OneAsked
    <3>2. CASE \E k \in DOMAIN net : Reloads(net[k])
      <4>1. PICK k \in DOMAIN net : Reloads(net[k])
        BY <3>2
      <4>2. k # i
        BY <1>2, <4>1 DEF Reloads
      <4>3. \E j \in DOMAIN net' : Reloads(net'[j])
        BY <1>4, <2>1, <4>1, <4>2
      <4> QED BY <3>1, <4>3 DEF Current
    <3>3. CASE AsksRight(net[i])
      <4>1. /\ ans.items = R!PageOf(db, page.role, page.no) /\ ans.total = Cardinality(R!Fits(db, page.role))
        BY <1>9, <3>3 DEF AsksRight
      <4>2. page.no <= R!PagesOf(Cardinality(R!Fits(db, page.role)))
        <5>1. R!PageOf(db, page.role, page.no) = <<>> => page.no = 1
          BY <1>9, <2>2, <4>1 DEF R!StepsBack
        <5> QED BY <1>1, <2>2, <5>1, NotBehind DEF ListTypes
      <4>3. ShowsRight'
        <5>1. /\ \A which, no : R!PageOf(db, which, no)' = R!PageOf(db, which, no)
              /\ \A which : R!Fits(db, which)' = R!Fits(db, which)
              /\ \A total : R!PagesOf(total)' = R!PagesOf(total)
          BY <1>2 DEF R!PageOf, R!Fits, R!PagesOf, R!PageSize
        <5> QED BY <2>2, <4>1, <4>2, <5>1 DEF ShowsRight
      <4>4. \A j \in DOMAIN net' : net'[j].kind # "people"
        BY <1>1, <1>2, <1>4, <2>1, <2>3 DEF Current, OneAsked
      <4> QED BY <3>1, <4>3, <4>4 DEF Current
    <3>4. \A k \in DOMAIN net : net[k].kind = "people" => k = i
      BY <1>1, <1>2, <2>3 DEF Current, OneAsked
    <3> QED BY <1>1, <1>2, <2>3, <3>2, <3>3, <3>4 DEF Current
  <2>4. Current'
    BY <2>1, <2>3 DEF Current
  <2> QED BY <1>3, <1>6, <1>9, <2>1, <2>4
<1> QED BY <1>2, <1>7, <1>8, <1>9 DEF Asked

\* A change leaves a state.
LEMMA ChangedStates ==
  ASSUME NEW d \in ListStates, NEW what \in Changes, NEW u \in 1 .. 3
  PROVE  R!Changed(d, what, u) \subseteq ListStates
<1>1. /\ \A x \in {"none", "member", "lead"} : [d EXCEPT !.role[u] = x] \in ListStates
      /\ [d EXCEPT !.asks = @ \ {u}] \in ListStates
      /\ [d EXCEPT !.role[u] = "member", !.asks = @ \ {u}] \in ListStates
  BY DEF ListStates
<1> QED BY <1>1 DEF R!Changed, Changes

\* The server takes a request over and answers, or does not.
LEMMA ListServed ==
  ASSUME ListInv, NEW i \in DOMAIN net, R!Serve(i)
  PROVE  ListInv'
<1>1. /\ ListTypes /\ net[i] \in Asked /\ Proper(net[i]) /\ net[i].state = "sent"
      /\ UNCHANGED <<screen, page, timer>>
  BY DEF ListInv, ListTypes, R!Serve
<1>2. ASSUME NEW r \in Asked, Proper(r), r.kind = net[i].kind, r.what = net[i].what,
             net' = [net EXCEPT ![i] = r], db' \in ListStates, page.here => Current'
      PROVE  ListInv'
  <2>1. /\ net' \in Seq(Asked) /\ DOMAIN net' = DOMAIN net /\ net'[i] = r
        /\ \A j \in DOMAIN net \ {i} : net'[j] = net[j]
    BY <1>1, <1>2 DEF ListTypes
  <2>2. ListTypes'
    <3>1. \A j \in DOMAIN net' : Proper(net'[j])
      BY <1>1, <1>2, <2>1 DEF ListTypes
    <3> QED BY <1>1, <1>2, <2>1, <3>1 DEF ListTypes
  <2>3. \A j \in DOMAIN net : net'[j].kind = net[j].kind /\ net'[j].what = net[j].what
    BY <1>2, <2>1
  <2>4. page.here => Waiting' /\ Suggesting'
    BY <1>1, <2>1, <2>3 DEF ListInv, Waiting, Suggesting, Bears
  <2> QED BY <1>1, <1>2, <2>2, <2>4 DEF ListInv
\* While the server's state rests, only the answer to a request for the list says what is shown.
<1>3. ASSUME NEW r \in Asked, r.kind = net[i].kind, r.role = net[i].role, r.no = net[i].no,
             net' = [net EXCEPT ![i] = r], UNCHANGED <<db, cause>>, page.here,
             r.kind = "people" /\ r.state = "ok"
               => r.ans = [items |-> R!PageOf(db, r.role, r.no), total |-> Cardinality(R!Fits(db, r.role))]
      PROVE  Current'
  <2> SUFFICES ASSUME cause = {} PROVE Current'
    BY <1>3 DEF Current
  <2>1. DOMAIN net' = DOMAIN net /\ net'[i] = r /\ \A j \in DOMAIN net \ {i} : net'[j] = net[j]
    BY <1>1, <1>3 DEF ListTypes
  <2>2. \A j \in DOMAIN net : net'[j].kind = net[j].kind
    BY <1>3, <2>1
  <2>3. Current
    BY <1>3 DEF ListInv
  <2>4. OneAsked'
    BY <2>1, <2>2, <2>3 DEF Current, OneAsked
  <2>5. SameList
    BY <1>1, <1>3 DEF SameList, ListTypes
  <2>6. CASE \E k \in DOMAIN net : Reloads(net[k])
    <3>1. PICK k \in DOMAIN net : Reloads(net[k])
      BY <2>6
    <3>2. Reloads(net'[k])
      BY <1>1, <2>1, <2>2, <3>1 DEF Reloads
    <3> QED BY <2>1, <2>4, <3>2 DEF Current
  <2>7. CASE \E k \in DOMAIN net : net[k].kind = "people" /\ AsksRight(net[k])
    <3>1. PICK k \in DOMAIN net : net[k].kind = "people" /\ AsksRight(net[k])
      BY <2>7
    <3>2. k # i => AsksRight(net[k])'
      BY <2>1, <2>5, <3>1, StillRight DEF AsksRight
    <3>3. k = i => AsksRight(net[k])'
      <4>1. k = i => AsksRight(r)
        BY <1>3, <2>1, <3>1 DEF AsksRight
      <4>2. k = i => AsksRight(r)'
        BY <2>5, <4>1, StillRight
      <4> QED BY <2>1, <4>2 DEF AsksRight
    <3> QED BY <2>1, <2>2, <2>4, <3>1, <3>2, <3>3 DEF Current
  <2>8. CASE (\A k \in DOMAIN net : net[k].kind # "people") /\ ShowsRight
    BY <2>1, <2>2, <2>4, <2>5, <2>8, StillRight DEF Current
  <2> QED BY <2>3, <2>6, <2>7, <2>8 DEF Current
<1>4. /\ \A s \in {"ok", "failed"} : [net[i] EXCEPT !.state = s] \in Asked
      /\ \A a \in Pages \cup Heads \cup Names \cup {null} : [net[i] EXCEPT !.state = "ok", !.ans = a] \in Asked
  BY <1>1 DEF Asked
<1>5. \A a : R!Says(i, a) => net' = [net EXCEPT ![i] = [net[i] EXCEPT !.state = "ok", !.ans = a]]
  BY <1>1 DEF R!Says, ListTypes
<1>6. R!Fails(i) => net' = [net EXCEPT ![i] = [net[i] EXCEPT !.state = "failed"]]
  BY <1>1 DEF R!Fails, ListTypes
<1>7. ASSUME R!Fails(i), UNCHANGED <<db, cause>> PROVE ListInv'
  <2> DEFINE r == [net[i] EXCEPT !.state = "failed"]
  <2>1. /\ r \in Asked /\ Proper(r) /\ r.kind = net[i].kind /\ r.what = net[i].what /\ r.state = "failed"
        /\ r.role = net[i].role /\ r.no = net[i].no /\ net' = [net EXCEPT ![i] = r]
    BY <1>1, <1>4, <1>6, <1>7 DEF Asked, Proper
  <2>2. db' \in ListStates
    BY <1>1, <1>7 DEF ListTypes
  <2> HIDE DEF r
  <2> QED BY <1>2, <1>3, <1>7, <2>1, <2>2
<1>8. ASSUME NEW a \in Pages \cup Heads \cup Names, R!Says(i, a), UNCHANGED <<db, cause>>, net[i].kind # "change",
             net[i].kind = "people"
               => a \in Pages /\ a = [items |-> R!PageOf(db, net[i].role, net[i].no), total |-> Cardinality(R!Fits(db, net[i].role))],
             net[i].kind = "refresh" => a \in Heads, net[i].kind = "suggest" => a \in Names
      PROVE  ListInv'
  <2> DEFINE r == [net[i] EXCEPT !.state = "ok", !.ans = a]
  <2>1. /\ r \in Asked /\ r.kind = net[i].kind /\ r.what = net[i].what /\ r.ans = a
        /\ r.role = net[i].role /\ r.no = net[i].no /\ net' = [net EXCEPT ![i] = r]
    BY <1>1, <1>4, <1>5, <1>8 DEF Asked
  <2>2. db' \in ListStates
    BY <1>1, <1>8 DEF ListTypes
  <2> HIDE DEF r
  <2>3. Proper(r)
    BY <1>1, <1>8, <2>1 DEF Proper
  <2> QED BY <1>2, <1>3, <1>8, <2>1, <2>2, <2>3
<1>9. CASE /\ net[i].kind = "people" /\ R!Sees(db) /\ UNCHANGED <<db, cause>>
           /\ R!Says(i, [items |-> R!PageOf(db, net[i].role, net[i].no), total |-> R!Cardinality(R!Fits(db, net[i].role))])
  <2>1. [items |-> R!PageOf(db, net[i].role, net[i].no), total |-> Cardinality(R!Fits(db, net[i].role))] \in Pages
    BY <1>1, ListAnswers DEF ListTypes, Pages
  <2> QED BY <1>8, <1>9, <2>1, CountsAlike
<1>10. CASE /\ net[i].kind = "refresh" /\ UNCHANGED <<db, cause>>
            /\ R!Says(i, [mine |-> db.role[R!Viewer], leads |-> R!Leads(db), invites |-> R!Invites(db)])
  <2>1. [mine |-> db.role[R!Viewer], leads |-> R!Leads(db), invites |-> R!Invites(db)] \in Heads
    <3>1. db.role[R!Viewer] \in {"none", "member", "lead"} /\ db.boss \in BOOLEAN
      BY <1>1 DEF ListTypes, ListStates, R!Viewer
    <3>2. R!Leads(db) \in BOOLEAN /\ R!Invites(db) \in BOOLEAN
      BY <3>1 DEF R!Leads, R!Invites
    <3> QED BY <3>1, <3>2 DEF Heads
  <2> QED BY <1>8, <1>10, <2>1
<1>11. CASE /\ net[i].kind = "suggest" /\ UNCHANGED <<db, cause>>
            /\ R!Says(i, [items |-> {u \in R!Matching[net[i].what] : db.role[u] = "none"}])
  <2>1. [items |-> {u \in R!Matching[net[i].what] : db.role[u] = "none"}] \in Names
    BY <1>1, <1>11 DEF Proper, R!Matching, Names
  <2> QED BY <1>8, <1>11, <2>1
<1>12. CASE /\ net[i].kind = "change"
            /\ \E d \in R!Changed(db, net[i].what, net[i].who) : db' = d
            /\ (R!Says(i, null) /\ UNCHANGED cause) \/ (R!Fails(i) /\ cause' = cause \cup {"lost"})
  <2>1. db' \in ListStates
    BY <1>1, <1>12, ChangedStates DEF Proper, ListTypes
  <2>2. CASE R!Says(i, null) /\ UNCHANGED cause
    <3> DEFINE r == [net[i] EXCEPT !.state = "ok", !.ans = null]
    <3>1. /\ r \in Asked /\ Proper(r) /\ r.kind = net[i].kind /\ r.what = net[i].what /\ r.state = "ok"
          /\ net' = [net EXCEPT ![i] = r]
      BY <1>1, <1>4, <1>5, <1>12, <2>2 DEF Asked, Proper
    <3> HIDE DEF r
    <3>2. ASSUME page.here PROVE Current'
      <4>1. DOMAIN net' = DOMAIN net /\ net'[i] = r /\ \A j \in DOMAIN net \ {i} : net'[j] = net[j]
        BY <1>1, <3>1 DEF ListTypes
      <4>2. Reloads(net'[i])
        BY <1>12, <3>1, <4>1 DEF Reloads
      <4>3. \A j \in DOMAIN net : net'[j].kind = net[j].kind
        BY <3>1, <4>1
      <4>4. cause = {} => OneAsked'
        BY <3>2, <4>1, <4>3 DEF ListInv, Current, OneAsked
      <4> QED BY <2>2, <4>1, <4>2, <4>4 DEF Current
    <3> QED BY <1>2, <2>1, <3>1, <3>2
  <2>3. CASE R!Fails(i) /\ cause' = cause \cup {"lost"}
    <3> DEFINE r == [net[i] EXCEPT !.state = "failed"]
    <3>1. /\ r \in Asked /\ Proper(r) /\ r.kind = net[i].kind /\ r.what = net[i].what
          /\ net' = [net EXCEPT ![i] = r]
      BY <1>1, <1>4, <1>6, <2>3 DEF Asked, Proper
    <3> HIDE DEF r
    <3>2. Current'
      BY <2>3 DEF Current
    <3> QED BY <1>2, <2>1, <3>1, <3>2
  <2> QED BY <1>12, <2>2, <2>3
<1> QED BY <1>7, <1>9, <1>10, <1>11, <1>12 DEF R!Serve

\* What the viewer does.
LEMMA ListActs ==
  ASSUME ListInv, R!Acts
  PROVE  ListInv'
<1>1. /\ ListTypes /\ (page.here => Suggesting) /\ page \in ListPages
      /\ screen \in {"members", "subgroup", "requests"}
  BY DEF ListInv, ListTypes
<1>2. ASSUME NEW s, R!May(s) PROVE page.here /\ UNCHANGED <<screen, db>>
  BY <1>2 DEF R!May
<1>3. ASSUME NEW s, R!Act(s) PROVE page.here /\ UNCHANGED <<screen, db>>
  BY <1>2, <1>3 DEF R!Act
<1>4. ASSUME page.here, UNCHANGED <<screen, db, timer>>, NEW p \in ListPages, R!LoadPeople(p, net),
             p.suggested = page.suggested, p.suggestedFor = page.suggestedFor, p.text = page.text
      PROVE  ListInv'
  <2>1. /\ screen' \in {"members", "subgroup", "requests"} /\ db' \in ListStates /\ timer' \in Texts
        /\ net \in Seq(Asked) /\ \A j \in DOMAIN net : Proper(net[j])
    BY <1>1, <1>4 DEF ListTypes
  <2>2. p.suggested # {} => \/ p.suggestedFor = p.text
                            \/ timer' = p.text /\ timer' # null
                            \/ \E j \in DOMAIN net : net[j].kind = "suggest" /\ net[j].what = p.text
    BY <1>1, <1>4 DEF Suggesting
  <2> QED BY <1>1, <1>4, <2>1, <2>2, AskingForPeople
<1>5. ASSUME page.here, UNCHANGED <<screen, db>>, NEW what \in Changes, NEW u \in 1 .. 3, R!Change(what, u)
      PROVE  ListInv'
  <2> DEFINE r == R!Ask("change", what, u)
  <2>1. r \in Asked /\ Proper(r) /\ r.kind = "change" /\ r.state = "sent"
    BY <1>1 DEF R!Ask, ListPages, Asked, Kinds, Proper
  <2>2. page' = [page EXCEPT !.mutating = TRUE, !.candidate = null] /\ net' = Append(net, r) /\ UNCHANGED <<timer, cause>>
    BY <1>5 DEF R!Change, R!Sends
  <2>3. SameList /\ SameNames
    BY <1>1, <1>5, <2>2 DEF ListTypes, ListPages, SameList, SameNames
  <2> HIDE DEF r
  <2> QED BY <1>5, <2>1, <2>2, <2>3, OtherSent
<1>6. ASSUME page.here, UNCHANGED <<screen, db, net, timer, cause>>, page' \in ListPages,
             page'.shown = page.shown, page'.total = page.total, page'.role = page.role, page'.no = page.no,
             page'.mutating = page.mutating, SameNames
      PROVE  ListInv'
  <2>1. SameList /\ ListTypes'
    BY <1>1, <1>6 DEF SameList, ListTypes
  <2>2. Waiting /\ Suggesting /\ Current
    BY <1>6 DEF ListInv
  <2>3. Waiting' /\ Suggesting'
    BY <1>6, <2>2 DEF Waiting, Suggesting, SameNames
  <2>4. \A i : AsksRight(net[i]) => AsksRight(net[i])'
    BY <1>6, <2>1, StillRight DEF AsksRight
  <2>5. Current'
    BY <1>6, <2>1, <2>2, <2>4, StillRight DEF Current, OneAsked
  <2> QED BY <2>1, <2>3, <2>5 DEF ListInv
<1>7. ASSUME NEW which \in R!Roles \cup {"all"}, R!OnRoleFilter(which) PROVE ListInv'
  <2> PICK one \in Nat \ {0} : one = 1
    OBVIOUS
  <2> DEFINE p == [page EXCEPT !.role = which, !.no = one]
  <2>1. page.here /\ UNCHANGED <<screen, db, timer>> /\ R!LoadPeople(p, net)
    BY <1>3, <1>7 DEF R!OnRoleFilter
  <2>2. p \in ListPages /\ p.suggested = page.suggested /\ p.suggestedFor = page.suggestedFor /\ p.text = page.text
    BY <1>1 DEF ListPages, RoleFilters, R!Roles
  <2> HIDE DEF p
  <2> QED BY <1>4, <2>1, <2>2
<1>8. ASSUME NEW no \in R!Person, R!OnPage(no) PROVE ListInv'
  <2> DEFINE p == [page EXCEPT !.no = no]
  <2>1. page.here /\ UNCHANGED <<screen, db, timer>> /\ R!LoadPeople(p, net)
    BY <1>3, <1>8 DEF R!OnPage
  <2>2. p \in ListPages /\ p.suggested = page.suggested /\ p.suggestedFor = page.suggestedFor /\ p.text = page.text
    BY <1>1 DEF ListPages, R!Person
  <2> HIDE DEF p
  <2> QED BY <1>4, <2>1, <2>2
<1>9. ASSUME NEW u \in R!Person,
             \/ R!OnRemove(u) \/ R!OnInvite(u) \/ R!OnPick(u) \/ R!Decide("approve", u) \/ R!Decide("reject", u)
      PROVE  ListInv'
  <2>1. \E what \in Changes : R!Change(what, u)
    BY <1>9 DEF R!OnRemove, R!OnInvite, R!OnPick, R!Decide, Changes
  <2>2. \E s : R!Act(s)
    BY <1>9 DEF R!OnRemove, R!OnInvite, R!OnPick, R!Decide
  <2> QED BY <1>3, <1>5, <2>1, <2>2 DEF R!Person
<1>10. ASSUME NEW u \in R!Person, R!OnRoleToggle(u) PROVE ListInv'
  <2>1. page.here /\ UNCHANGED <<screen, db>>
    BY <1>3, <1>10 DEF R!OnRoleToggle
  <2>2. CASE R!Change("demote", u)
    BY <1>5, <2>1, <2>2 DEF Changes, R!Person
  <2>3. CASE page' = [page EXCEPT !.candidate = u] /\ UNCHANGED <<net, timer, cause>>
    <3>1. /\ page' \in ListPages /\ SameNames
          /\ page'.shown = page.shown /\ page'.total = page.total /\ page'.role = page.role /\ page'.no = page.no
          /\ page'.mutating = page.mutating
      BY <1>1, <2>3 DEF ListPages, SameNames, R!Person
    <3> QED BY <1>6, <2>1, <2>3, <3>1
  <2> QED BY <1>10, <2>2, <2>3 DEF R!OnRoleToggle
<1>11. CASE R!ConfirmPromote
  <2>1. page.here /\ UNCHANGED <<screen, db>> /\ page.candidate \in 1 .. 3 /\ R!Change("promote", page.candidate)
    BY <1>1, <1>2, <1>11 DEF R!ConfirmPromote, ListPages
  <2> QED BY <1>5, <2>1 DEF Changes
<1>12. CASE R!CancelPromote
  <2>1. /\ page.here /\ UNCHANGED <<screen, db, net, timer, cause>>
        /\ page' = [page EXCEPT !.candidate = null]
    BY <1>2, <1>12 DEF R!CancelPromote
  <2>2. /\ page' \in ListPages /\ SameNames
        /\ page'.shown = page.shown /\ page'.total = page.total /\ page'.role = page.role /\ page'.no = page.no
        /\ page'.mutating = page.mutating
    BY <1>1, <2>1 DEF ListPages, SameNames
  <2> QED BY <1>6, <2>1, <2>2
<1>13. ASSUME NEW text \in {null, "a", "b"}, R!OnQuery(text) PROVE ListInv'
  <2>1. /\ page.here /\ UNCHANGED <<screen, db, net, cause>> /\ timer' = text
        /\ page' = [page EXCEPT !.text = text, !.suggested = IF text = null THEN {} ELSE @]
    BY <1>3, <1>13 DEF R!OnQuery
  <2>2. /\ page' \in ListPages /\ SameList
        /\ page'.mutating = page.mutating /\ page'.text = text /\ (text = null => page'.suggested = {})
    BY <1>1, <2>1 DEF ListPages, SameList, Texts
  <2>3. Waiting /\ Current
    BY <2>1 DEF ListInv
  <2>4. ListTypes'
    BY <1>1, <2>1, <2>2 DEF ListTypes, Texts
  <2>5. Waiting' /\ Suggesting'
    BY <2>1, <2>2, <2>3 DEF Waiting, Suggesting
  <2>6. \A i : AsksRight(net[i]) => AsksRight(net[i])'
    BY <2>1, <2>2, StillRight DEF AsksRight
  <2>7. Current'
    BY <2>1, <2>2, <2>3, <2>6, StillRight DEF Current, OneAsked
  <2> QED BY <2>4, <2>5, <2>7 DEF ListInv
<1> QED BY <1>7, <1>8, <1>9, <1>10, <1>11, <1>12, <1>13 DEF R!Acts

\* What happens by itself.
LEMMA ListHappenings ==
  ASSUME ListInv, R!Happens
  PROVE  ListInv'
<1>1. ListTypes /\ page \in ListPages /\ db \in ListStates /\ screen \in {"members", "subgroup", "requests"}
  BY DEF ListInv, ListTypes
<1>2. CASE R!LoadSuggestions
  <2> DEFINE r == R!Ask("suggest", timer, null)
  <2>1. /\ page.here /\ timer # null /\ timer' = null /\ net' = Append(net, r)
        /\ UNCHANGED <<screen, db, page, cause>>
    BY <1>2 DEF R!LoadSuggestions, R!Sends
  <2>2. /\ r \in Asked /\ Proper(r) /\ r.kind = "suggest" /\ r.state = "sent" /\ r.what = timer
    BY <1>1, <2>1 DEF R!Ask, ListTypes, ListPages, Asked, Kinds, Texts, Proper
  <2>3. SameList /\ SameNames
    BY <1>1, <2>1 DEF SameList, SameNames, Texts
  <2> HIDE DEF r
  <2> QED BY <2>1, <2>2, <2>3, OtherSent
<1>3. CASE R!Moved
  <2>1. UNCHANGED <<screen, page, net, timer>> /\ cause' = cause \cup {"moved"}
    BY <1>3 DEF R!Moved
  <2>2. db' \in ListStates
    <3>1. \A u \in 1 .. 3, r \in {"none", "member", "lead"} : db' = [db EXCEPT !.role[u] = r] => db' \in ListStates
      BY <1>1 DEF ListStates
    <3>2. db' = [db EXCEPT !.boss = ~@] => db' \in ListStates
      BY <1>1 DEF ListStates
    <3>3. \A u : db' = [db EXCEPT !.asks = @ \ {u}] => db' \in ListStates
      BY <1>1 DEF ListStates
    <3> QED BY <1>3, <3>1, <3>2, <3>3 DEF R!Moved, R!Person
  <2>3. ListTypes'
    BY <1>1, <2>1, <2>2 DEF ListTypes
  <2>4. page.here => Waiting' /\ Suggesting'
    BY <2>1 DEF ListInv, Waiting, Suggesting
  <2>5. Current'
    BY <2>1 DEF Current
  <2> QED BY <2>1, <2>3, <2>4, <2>5 DEF ListInv
<1>4. ASSUME NEW i \in DOMAIN net, R!PeopleCome(i) PROVE ListInv'
  BY <1>4, PeopleShown DEF R!PeopleCome, R!Answered
\* The list is loaded anew, beside what else is under way.
<1>5. ASSUME NEW i \in DOMAIN net, net[i].kind # "suggest", page.here, UNCHANGED <<screen, db, timer>>,
             NEW p \in ListPages, R!LoadPeople(p, R!RemoveAt(net, i)),
             p.suggested = page.suggested, p.suggestedFor = page.suggestedFor, p.text = page.text
      PROVE  ListInv'
  <2> DEFINE rest == R!RemoveAt(net, i)
  <2>1. /\ rest \in Seq(Asked)
        /\ \A j \in DOMAIN rest : \E k \in DOMAIN net : rest[j] = net[k]
        /\ \A k \in DOMAIN net \ {i} : \E j \in DOMAIN rest : rest[j] = net[k]
    <3> DEFINE Old(j) == IF j < i THEN j ELSE j + 1
    <3>1. /\ rest \in Seq(Asked)
          /\ \A j \in DOMAIN rest : Old(j) \in DOMAIN net \ {i} /\ rest[j] = net[Old(j)]
          /\ \A k \in DOMAIN net \ {i} : \E j \in DOMAIN rest : rest[j] = net[k]
      BY <1>1, Removal DEF ListTypes
    <3> HIDE DEF rest, Old
    <3> QED BY <3>1
  <2>2. R!LoadPeople(p, rest)
    BY <1>5
  <2> HIDE DEF rest
  <2>3. \A j \in DOMAIN rest : Proper(rest[j])
    BY <1>1, <2>1 DEF ListTypes
  <2>4. p.suggested # {} => \/ p.suggestedFor = p.text
                            \/ timer' = p.text /\ timer' # null
                            \/ \E j \in DOMAIN rest : rest[j].kind = "suggest" /\ rest[j].what = p.text
    BY <1>5, <2>1 DEF ListInv, Suggesting
  <2>5. screen' \in {"members", "subgroup", "requests"} /\ db' \in ListStates /\ timer' \in Texts
    BY <1>1, <1>5 DEF ListTypes
  <2> QED BY <1>1, <2>1, <2>2, <2>3, <2>4, <2>5, AskingForPeople
<1>6. ASSUME NEW i \in DOMAIN net, R!ChangeDone(i) PROVE ListInv'
  <2>1. /\ page.here /\ net[i].kind = "change" /\ net[i].state # "sent" /\ UNCHANGED <<screen, db, timer>>
    BY <1>6 DEF R!ChangeDone, R!Answered
  <2>2. CASE net[i].state = "failed"
    <3>1. page' = [page EXCEPT !.mutating = FALSE] /\ net' = R!RemoveAt(net, i) /\ UNCHANGED cause
      BY <1>6, <2>2 DEF R!ChangeDone
    <3>2. SameList /\ SameNames /\ ~page'.mutating
      BY <1>1, <2>1, <3>1 DEF ListTypes, ListPages, SameList, SameNames
    <3> QED BY <2>1, <2>2, <3>1, <3>2, OtherTaken
  <2>3. CASE net[i].state # "failed" /\ screen = "requests"
    <3>1. R!LoadPeople(page, R!RemoveAt(net, i))
      BY <1>6, <2>3 DEF R!ChangeDone
    <3> QED BY <1>1, <1>5, <2>1, <3>1
  <2>4. CASE net[i].state # "failed" /\ screen # "requests"
    <3>1. /\ page' = IF screen = "subgroup" /\ net[i].what = "invite"
                     THEN [page EXCEPT !.text = null, !.suggested = {}] ELSE page
          /\ net' = Append(R!RemoveAt(net, i), R!Ask("refresh", null, null)) /\ UNCHANGED cause
      BY <1>6, <2>4 DEF R!ChangeDone
    <3>2. SameList /\ SameNames
      BY <1>1, <2>1, <3>1 DEF ListTypes, ListPages, SameList, SameNames, Texts
    <3> QED BY <2>1, <3>1, <3>2, RefreshSent
  <2> QED BY <2>2, <2>3, <2>4
<1>7. ASSUME NEW i \in DOMAIN net, R!Refreshed(i) PROVE ListInv'
  <2>1. /\ page.here /\ net[i].kind = "refresh" /\ net[i].state # "sent" /\ UNCHANGED <<screen, db>>
        /\ net[i] \in Asked /\ Proper(net[i])
    BY <1>1, <1>7 DEF R!Refreshed, R!Answered, ListTypes
  <2>2. CASE net[i].state = "failed" \/ (screen = "members" /\ net[i].ans.mine = "none")
    <3>1. page' = [page EXCEPT !.here = FALSE] /\ net' = <<>> /\ timer' = null
      BY <1>7, <2>2 DEF R!Refreshed
    <3>2. page' \in ListPages /\ ~page'.here
      BY <1>1, <3>1 DEF ListPages
    <3>3. ListTypes'
      BY <1>1, <2>1, <3>1, <3>2 DEF ListTypes, Texts
    <3> QED BY <3>2, <3>3 DEF ListInv
  <2>3. CASE ~(net[i].state = "failed" \/ (screen = "members" /\ net[i].ans.mine = "none"))
    <3> DEFINE p == [page EXCEPT !.leads = net[i].ans.leads, !.invites = net[i].ans.invites]
    <3>1. R!LoadPeople(p, R!RemoveAt(net, i)) /\ UNCHANGED timer
      BY <1>7, <2>3 DEF R!Refreshed
    <3>2. net[i].ans \in Heads
      BY <2>1, <2>3 DEF Proper, Asked
    <3>3. p \in ListPages /\ p.suggested = page.suggested /\ p.suggestedFor = page.suggestedFor /\ p.text = page.text
      BY <1>1, <3>2 DEF ListPages, Heads
    <3> HIDE DEF p
    <3> QED BY <1>5, <2>1, <3>1, <3>3
  <2> QED BY <2>2, <2>3
<1>8. ASSUME NEW i \in DOMAIN net, R!SuggestionsCome(i) PROVE ListInv'
  <2>1. /\ page.here /\ net[i].kind = "suggest" /\ net[i].state # "sent" /\ UNCHANGED <<screen, db, timer, cause>>
        /\ net[i] \in Asked /\ Proper(net[i]) /\ net' = R!RemoveAt(net, i)
    BY <1>1, <1>8 DEF R!SuggestionsCome, R!Answered, ListTypes
  <2>2. /\ net[i].what \in Texts
        /\ net[i].state = "ok" => net[i].ans.items \in SUBSET (1 .. 3)
        /\ net[i].state \in {"ok", "failed"}
    BY <2>1 DEF Proper, Asked, Texts, Names
  <2>3. page' = [page EXCEPT !.suggested = IF net[i].state = "failed" THEN {}
                                           ELSE IF page.text = net[i].what THEN net[i].ans.items ELSE @,
                             !.suggestedFor = IF net[i].state = "ok" /\ page.text = net[i].what THEN net[i].what ELSE @]
    BY <1>8 DEF R!SuggestionsCome
  <2>4. SameList /\ page'.mutating = page.mutating
    BY <1>1, <2>1, <2>2, <2>3 DEF ListTypes, ListPages, SameList
  <2>5. \/ page'.suggested = {}
        \/ page'.suggestedFor = page'.text
        \/ SameNames /\ net[i].what # page.text
    BY <1>1, <2>2, <2>3 DEF ListPages, SameNames
  <2> QED BY <2>1, <2>4, <2>5, OtherTaken
<1> QED BY <1>2, <1>3, <1>4, <1>6, <1>7, <1>8, ListServed DEF R!Happens

\* The first list is being loaded.
LEMMA ListsStart ==
  ASSUME R!Init
  PROVE  ListInv
<1> PICK one \in Nat \ {0} : one = 1
  OBVIOUS
<1>1. /\ screen \in {"members", "subgroup", "requests"} /\ timer = null
      /\ page = [shown |-> <<>>, total |-> 0, role |-> "all", no |-> one, mutating |-> FALSE, candidate |-> null,
                 text |-> null, suggested |-> {}, suggestedFor |-> null, leads |-> TRUE, invites |-> TRUE, here |-> TRUE]
      /\ net = <<R!Ask("people", null, null)>>
  BY ScreensAssumption DEF R!Init
<1>2. db \in ListStates
  <2>1. PICK r \in {"none", "lead"} :
             db = [role |-> <<"lead", r, IF r = "none" THEN r ELSE "member">>, boss |-> TRUE,
                   asks |-> IF screen = "requests" /\ r = "none" THEN {2, 3} ELSE {}]
    BY DEF R!Init
  <2>2. <<"lead", r, IF r = "none" THEN r ELSE "member">> \in [1 .. 3 -> {"none", "member", "lead"}]
    OBVIOUS
  <2> QED BY <2>1, <2>2 DEF ListStates
<1>3. page \in ListPages
  <2>1. <<>> \in Rows
    <3>1. <<>> \in [{} -> {"none", "member", "lead"}]
      OBVIOUS
    <3> QED BY <3>1 DEF Rows
  <2> QED BY <1>1, <2>1 DEF ListPages, Texts, RoleFilters
<1> DEFINE r == R!Ask("people", null, null)
<1>4. r \in Asked /\ Proper(r) /\ r.kind = "people" /\ r.state = "sent" /\ r.role = page.role /\ r.no = page.no
  BY <1>3 DEF R!Ask, ListPages, Asked, Kinds, Texts, Proper
<1>5. net = <<r>>
  BY <1>1
<1> HIDE DEF r
<1>6. net \in Seq(Asked) /\ DOMAIN net = {1} /\ net[1] = r
  BY <1>4, <1>5
<1>7. ListTypes
  BY <1>1, <1>2, <1>3, <1>4, <1>6 DEF ListTypes, Texts
<1>8. Waiting /\ Suggesting
  BY <1>1 DEF Waiting, Suggesting
<1>9. OneAsked /\ AsksRight(net[1])
  BY <1>4, <1>6 DEF OneAsked, AsksRight
<1> QED BY <1>4, <1>6, <1>7, <1>8, <1>9 DEF ListInv, Current

\* Whenever nothing is under way, the list of members, or of those who ask, is the server's
\* for the filter and the page that are set, the buttons are back, and the names suggested
\* are for the text in the box, unless answers crossed, one failed, or others changed it.
THEOREM ListsFit == HostSpec => []RosterFits
<1> DEFINE I == part = "rosters" => ListInv
<1>1. HostInit => I
  BY ListsStart DEF HostInit, CommunitiesInit, DetailsInit, RostersInit
<1>2. I /\ [CommunitiesStep \/ DetailsStep \/ RostersStep]_all => I'
  <2> SUFFICES ASSUME I, [CommunitiesStep \/ DetailsStep \/ RostersStep]_all, part' = "rosters" PROVE ListInv'
    OBVIOUS
  <2>1. CASE CommunitiesStep \/ DetailsStep
    BY <2>1 DEF CommunitiesStep, DetailsStep
  <2>2. CASE RostersStep
    BY <2>2, ListActs, ListHappenings DEF RostersStep, R!Next
  <2>3. CASE UNCHANGED all
    <3>1. UNCHANGED <<part, screen, db, page, net, timer, cause>>
      BY <2>3 DEF all, pages
    <3>2. ListInv
      BY <3>1
    <3>3. SameList
      BY <3>1, <3>2 DEF SameList, ListInv, ListTypes
    <3>4. \A i : AsksRight(net[i]) => AsksRight(net[i])'
      BY <3>1, <3>3, StillRight DEF AsksRight
    <3>5. page.here => Waiting' /\ Suggesting' /\ Current'
      BY <3>1, <3>2, <3>3, <3>4, StillRight DEF ListInv, Waiting, Suggesting, Current, OneAsked
    <3> QED BY <3>1, <3>2, <3>5 DEF ListInv, ListTypes
  <2> QED BY <2>1, <2>2, <2>3
<1>3. I => RosterFits
  <2> SUFFICES ASSUME ListInv PROVE R!RosterFits
    BY DEF RosterFits
  <2> SUFFICES ASSUME R!Quiet
               PROVE  /\ ~page.mutating
                      /\ page.suggested # {} => page.suggestedFor = page.text
                      /\ cause = {} => ShowsRight
    BY CountsAlike DEF R!RosterFits, ShowsRight
  <2>1. DOMAIN net = {} /\ timer = null /\ page.here
    BY DEF R!Quiet
  <2>2. page \in ListPages /\ Waiting /\ Suggesting /\ Current
    BY <2>1 DEF ListInv, ListTypes
  <2> QED BY <2>1, <2>2 DEF ListPages, Waiting, Suggesting, Current
<1> HIDE DEF I
<1> QED BY <1>1, <1>2, <1>3, PTL DEF HostSpec
-----------------------------------------------------------------------------
(* The pages of one thing (Details).                                          *)
(*                                                                            *)
(* Each flag of the page stands for a request under way.  Per part of the     *)
(* page, as long as nothing crossed, was lost or was changed by others        *)
(* (spoiled), either the page has the server's part by now, or an answer      *)
(* under way brings it.                                                       *)
Statuses == {"going", "declined"}
Own == {null} \cup D!Option \cup Statuses
Notes == Seq(Nat \X {1, 2})
Relations == {"none", "member", "asked"}
Told ==
    [community |-> [mine : Relations], subgroup |-> [mine : Relations],
     poll |-> [opts : SUBSET D!Option, own : Own, canVote : BOOLEAN], post |-> [count : Nat],
     event |-> [mine : Own, canEdit : BOOLEAN], comments |-> [of : {"event"}]]
KindsOf ==
    [community |-> {"load", "join", "leave"}, subgroup |-> {"load", "join", "leave"},
     poll |-> {"load", "vote", "edit", "delete"}, post |-> {"load", "notes", "publish", "save", "drop", "delete"},
     event |-> {"load", "stars", "star", "rsvp", "delete"}, comments |-> {"notes", "publish", "drop"}]
Flags == {"acting", "voting", "savingEdit", "submitting", "savingComment", "favoriteLoading", "busy", "deleteLoading"}

Arguments == Own \cup (SUBSET D!Option) \cup Nat \cup BOOLEAN
Answers(s) == {null} \cup Told[s] \cup Notes \cup (Nat \X {1, 2}) \cup BOOLEAN

\* The argument and the answer of a request are of its kind.
Fits(s, r) ==
    /\ r.kind = "vote" => r.arg \in Own
    /\ r.kind = "edit" => r.arg \in SUBSET D!Option
    /\ r.kind \in {"save", "drop"} => r.arg \in Nat
    /\ r.kind = "star" => r.arg \in BOOLEAN
    /\ r.kind = "rsvp" => r.arg \in Own
    /\ r.state = "ok" => /\ r.kind \in {"load", "join", "vote", "edit"} => r.ans \in Told[s]
                         /\ r.kind = "notes" => r.ans \in Notes
                         /\ r.kind = "publish" => r.ans \in Nat \X {1, 2}
                         /\ r.kind = "stars" => r.ans \in BOOLEAN
Calls(s) == {r \in [kind : KindsOf[s], arg : Arguments, who : {"me", "nobody"},
                    state : {"sent", "ok", "failed"}, ans : Answers(s)] : Fits(s, r)}

ThingStates == [mine : Relations, secret : BOOLEAN, open : BOOLEAN, gone : BOOLEAN, closed : BOOLEAN,
                opts : SUBSET D!Option, own : Own, notes : Notes, next : Nat, star : BOOLEAN]
ThingPages(s) == [thing : Told[s] \cup {null}, who : {"me", "nobody"}, error : BOOLEAN, busy : SUBSET Flags,
                  selection : Own, notes : Notes, loading : BOOLEAN, star : BOOLEAN, mine : Own, here : BOOLEAN]

\* The requests under way: some of these kinds, at most one, and those whose answers are there.
Way(n) == {n[i] : i \in DOMAIN n}
Some(n, K) == \E r \in Way(n) : r.kind \in K
One(n, K) == \A i, j \in DOMAIN n : n[i].kind \in K /\ n[j].kind \in K => i = j
Ok(n, K) == {r \in Way(n) : r.kind \in K /\ r.state = "ok"}

DetailTypes ==
    /\ screen \in DOMAIN KindsOf /\ db \in ThingStates /\ page \in ThingPages(screen)
    /\ viewer \in {"waiting", "nobody", "me"} /\ spoiled \subseteq {"thing", "notes", "star", "rsvp"}
    /\ net \in Seq(Calls(screen))
    /\ screen = "post" /\ page.thing = null => \A r \in Way(net) : r.kind = "load"

\* What is under way behind a flag.
Behind ==
    [acting |-> {"join", "leave", "load"}, voting |-> {"vote"}, savingEdit |-> {"edit"}, submitting |-> {"publish"},
     savingComment |-> {"save"}, favoriteLoading |-> {"star"}, busy |-> {"rsvp"}, deleteLoading |-> {"delete"}]
FlagsIn(n, flags) ==
    /\ \A flag \in flags : Some(n, Behind[flag])
    /\ \A flag \in Flags \ {"acting", "deleteLoading"} :
          One(n, Behind[flag]) /\ (Some(n, Behind[flag]) => flag \in flags)
Flagged == FlagsIn(net, page.busy)

\* What an answer says of the thing, by the page.
Says(s, d, who) ==
    CASE s \in D!Joinable -> [mine |-> IF who = "me" THEN d.mine ELSE "none"]
      [] s = "poll"     -> [opts |-> d.opts, own |-> IF who = "me" THEN d.own ELSE null,
                            canVote |-> who = "me" /\ d.mine = "member" /\ ~d.closed]
      [] s = "post"     -> [count |-> Len(d.notes)]
      [] s = "comments" -> [of |-> "event"]
      [] s = "event"    -> [mine |-> IF who = "me" THEN d.own ELSE null, canEdit |-> who = "me"]

\* The thing itself, on the pages that take it whole.
Taken == {"load", "join", "leave", "vote", "edit"}
ThingCurrent ==
    /\ screen \in D!Joinable => One(net, Taken) /\ (Some(net, Taken) /\ page.thing # null => "acting" \in page.busy)
    /\ "thing" \notin spoiled =>
         /\ One(net, Taken)
         /\ \A r \in Ok(net, Taken \ {"leave"}) : r.ans = Says(screen, db, IF r.kind = "load" THEN r.who ELSE "me")
         /\ page.thing \in {null, Says(screen, db, page.who)} \/ Some(net, {"load"}) \/ Ok(net, Taken) # {}

\* The event, of which only the viewer is told.
AsksForViewer ==
    "thing" \notin spoiled =>
        /\ \A r \in Way(net) : r.kind = "load" => r.who = D!Who
        /\ page.who = D!Who \/ Some(net, {"load"}) \/ page.thing = null
StarCurrent ==
    /\ viewer # "me" => ~Some(net, {"star", "stars"}) /\ "star" \notin spoiled
    /\ "star" \notin spoiled =>
         /\ One(net, {"star", "stars"})
         /\ \A r \in Ok(net, {"stars"}) : r.ans = db.star
         /\ \A r \in Ok(net, {"star"}) : r.arg = db.star
         /\ page.star = db.star \/ Ok(net, {"star"}) # {}
RsvpCurrent ==
    "rsvp" \notin spoiled =>
        /\ \A r \in Ok(net, {"rsvp"}) : r.arg = db.own
        /\ page.mine \in {null, db.own} \/ Ok(net, {"rsvp"}) # {}
EventCurrent == AsksForViewer /\ StarCurrent /\ RsvpCurrent

\* Comments in the order they were written, the ids they have, and what is done to them.
Ids(notes) == {notes[k][1] : k \in DOMAIN notes}
Ascending(notes) == \A j, k \in DOMAIN notes : j < k => notes[j][1] < notes[k][1]
Publishing(n) == {r.ans[1] : r \in Ok(n, {"publish"})}
Dropping(n) == {r.arg : r \in Ok(n, {"drop"})}
Saving(n) == {r.arg : r \in Ok(n, {"save"})}
OnNotes == {"publish", "save", "drop"}
DroppedOnce(n) == \A i, j \in DOMAIN n : n[i] \in Ok(n, {"drop"}) /\ n[j] \in Ok(n, {"drop"}) /\ n[i].arg = n[j].arg => i = j

NotesKept ==
    /\ Ascending(db.notes) /\ \A n \in Ids(db.notes) : n < db.next
    /\ \A r \in Ok(net, {"publish"}) : r.ans[2] = 1 /\ r.ans[1] < db.next
    /\ \A n \in Dropping(net) : n \notin Ids(db.notes)
    /\ DroppedOnce(net)
    /\ \A n \in Ids(page.notes) : n < db.next
    /\ \A r \in Ok(net, {"notes"}) : \A n \in Ids(r.ans) : n < db.next
    /\ \A r \in Way(net) : r.kind \in {"save", "drop"} => r.arg < db.next

\* What is published and not shown yet is nobody's to change.
Unseen ==
    \A n \in Publishing(net) :
        /\ n \in Ids(db.notes)
        /\ \A k \in Ids(page.notes) : k < n
        /\ \A r \in Way(net) : r.kind \in {"save", "drop"} => r.arg # n

\* A comment that is there and shown is shown as it is, unless an answer under way brings its change.
Versions ==
    /\ \A j \in DOMAIN db.notes, k \in DOMAIN page.notes : db.notes[j][1] = page.notes[k][1]
          => db.notes[j][2] = IF db.notes[j][1] \in Saving(net) THEN 2 ELSE page.notes[k][2]
    /\ \A j \in DOMAIN db.notes : db.notes[j][1] \in Publishing(net) => db.notes[j][2] = 1
NotesCurrent ==
    "notes" \notin spoiled =>
        /\ Some(net, {"notes"}) => One(net, OnNotes \cup {"notes"})
        /\ \A r \in Way(net) : r.kind = "notes" => r.state # "failed"
        /\ \A r \in Ok(net, {"notes"}) : r.ans = db.notes
        /\ \/ Some(net, {"notes"}) \/ page.thing = null
           \/ /\ Ascending(page.notes) /\ Unseen /\ Versions
              /\ \A n : n \in Ids(db.notes) <=> n \in Ids(page.notes) \cup Publishing(net) /\ n \notin Dropping(net)

\* The post's page asks for its comments once, and shows nothing before they came.
PostOrder ==
    /\ page.thing = null => page.loading
    /\ page.loading => ~Some(net, OnNotes)
    /\ Some(net, {"load"}) => page.thing = null
    /\ Some(net, {"notes"}) => page.loading
    /\ One(net, {"load"}) /\ One(net, {"notes"})
CountCurrent ==
    /\ Unseen
    /\ "thing" \notin spoiled =>
         /\ \A r \in Ok(net, {"load"}) : r.ans = [count |-> Len(db.notes)]
         /\ \/ page.thing = null
            \/ page.thing.count + Cardinality(Publishing(net)) = Len(db.notes) + Cardinality(Dropping(net))

NotesHold == NotesKept /\ NotesCurrent /\ (screen = "post" => PostOrder /\ CountCurrent)

Shown ==
    /\ Flagged
    /\ screen \in D!Joinable \cup {"poll"} => ThingCurrent
    /\ screen = "event" => EventCurrent
    /\ screen \in D!WithNotes => NotesHold
    /\ screen # "event" => page.mine = null
DetailInv == DetailTypes /\ (page.here /\ ~page.error => Shown)

\* Requests under way after one more is sent, one is answered, and one is taken.
LEMMA NetSent ==
  ASSUME NEW S, NEW n \in Seq(S), NEW r \in S
  PROVE  LET m == Append(n, r)
         IN  /\ m \in Seq(S) /\ Way(m) = Way(n) \cup {r}
             /\ \E x : /\ x \notin DOMAIN n /\ DOMAIN m = DOMAIN n \cup {x}
                       /\ m[x] = r /\ \A j \in DOMAIN n : m[j] = n[j]
<1> DEFINE m == Append(n, r)
           x == Len(n) + 1
<1>1. /\ m \in Seq(S) /\ x \in Nat /\ x \in 1 .. x /\ DOMAIN n = 1 .. x - 1 /\ DOMAIN m = 1 .. x
      /\ m[x] = r /\ \A j \in DOMAIN n : m[j] = n[j]
  OBVIOUS
<1> HIDE DEF m, x
<1>2. x \notin DOMAIN n /\ DOMAIN m = DOMAIN n \cup {x}
  BY <1>1
<1>3. Way(m) = Way(n) \cup {r}
  BY <1>1, <1>2 DEF Way
<1> QED BY <1>1, <1>2, <1>3 DEF m

LEMMA OneSent ==
  ASSUME NEW S, NEW n \in Seq(S), NEW r \in S, NEW K, One(n, K), r.kind \in K => ~Some(n, K)
  PROVE  One(Append(n, r), K)
<1> DEFINE m == Append(n, r)
<1>1. PICK x : x \notin DOMAIN n /\ DOMAIN m = DOMAIN n \cup {x} /\ m[x] = r /\ \A j \in DOMAIN n : m[j] = n[j]
  BY NetSent
<1> HIDE DEF m
<1>2. One(m, K)
  BY <1>1 DEF One, Some, Way
<1> QED BY <1>2 DEF m

LEMMA NetServed ==
  ASSUME NEW S, NEW n \in Seq(S), NEW i \in DOMAIN n, NEW r \in S, r.kind = n[i].kind
  PROVE  LET m == [n EXCEPT ![i] = r]
         IN  /\ m \in Seq(S) /\ DOMAIN m = DOMAIN n /\ m[i] = r /\ \A j \in DOMAIN n \ {i} : m[j] = n[j]
             /\ r \in Way(m) /\ n[i] \in Way(n) /\ Way(m) \subseteq Way(n) \cup {r} /\ Way(n) \subseteq Way(m) \cup {n[i]}
<1> DEFINE m == [n EXCEPT ![i] = r]
<1>1. m \in Seq(S) /\ DOMAIN m = DOMAIN n /\ m[i] = r /\ \A j \in DOMAIN n \ {i} : m[j] = n[j]
  OBVIOUS
<1> HIDE DEF m
<1>2. r \in Way(m) /\ n[i] \in Way(n)
  BY <1>1 DEF Way
<1>3. Way(m) \subseteq Way(n) \cup {r} /\ Way(n) \subseteq Way(m) \cup {n[i]}
  BY <1>1 DEF Way
<1> QED BY <1>1, <1>2, <1>3 DEF m

LEMMA OneServed ==
  ASSUME NEW S, NEW n \in Seq(S), NEW i \in DOMAIN n, NEW r \in S, r.kind = n[i].kind, NEW K, One(n, K)
  PROVE  LET m == [n EXCEPT ![i] = r]
         IN  One(m, K) /\ (r.kind \in K => \A q \in Way(m) : q.kind \in K => q = r)
<1> DEFINE m == [n EXCEPT ![i] = r]
<1>1. DOMAIN m = DOMAIN n /\ m[i] = r /\ \A j \in DOMAIN n \ {i} : m[j] = n[j]
  BY NetServed
<1> HIDE DEF m
<1>2. One(m, K)
  BY <1>1 DEF One
<1>3. r.kind \in K => \A q \in Way(m) : q.kind \in K => q = r
  BY <1>1, <1>2 DEF One, Way
<1> QED BY <1>2, <1>3 DEF m

LEMMA NetTaken ==
  ASSUME NEW S, NEW n \in Seq(S), NEW i \in DOMAIN n
  PROVE  LET m == D!RemoveAt(n, i)
         IN  /\ m \in Seq(S) /\ n[i] \in Way(n) /\ n[i] \in S
             /\ Way(m) \subseteq Way(n) /\ Way(n) \subseteq Way(m) \cup {n[i]}
             /\ \A q \in Way(m) : \E k \in DOMAIN n \ {i} : q = n[k]
             /\ \A a, b \in DOMAIN m : a # b
                  => \E k, l \in DOMAIN n \ {i} : k # l /\ m[a] = n[k] /\ m[b] = n[l]
<1> DEFINE m == D!RemoveAt(n, i)
           Old(j) == IF j < i THEN j ELSE j + 1
<1>1. m = R!RemoveAt(n, i)
  BY DEF D!RemoveAt, R!RemoveAt
<1>2. /\ m \in Seq(S)
      /\ \A j \in DOMAIN m : Old(j) \in DOMAIN n \ {i} /\ m[j] = n[Old(j)]
      /\ \A k \in DOMAIN n \ {i} : \E j \in DOMAIN m : m[j] = n[k]
  BY <1>1, Removal
<1>3. n[i] \in S /\ DOMAIN m = 1 .. Len(m) /\ i \in Nat
  BY <1>2
<1>4. \A j, k \in DOMAIN m : Old(j) = Old(k) => j = k
  BY <1>3
<1> HIDE DEF Old, m
<1>5. n[i] \in Way(n) /\ Way(m) \subseteq Way(n) /\ Way(n) \subseteq Way(m) \cup {n[i]}
  <2>1. \A j \in DOMAIN m : \E k \in DOMAIN n : m[j] = n[k]
    BY <1>2
  <2>2. \A k \in DOMAIN n : k = i \/ \E j \in DOMAIN m : m[j] = n[k]
    BY <1>2
  <2> QED BY <2>1, <2>2 DEF Way
<1>6. \A q \in Way(m) : \E k \in DOMAIN n \ {i} : q = n[k]
  BY <1>2 DEF Way
<1>7. \A a, b \in DOMAIN m : a # b => \E k, l \in DOMAIN n \ {i} : k # l /\ m[a] = n[k] /\ m[b] = n[l]
  BY <1>2, <1>4
<1> QED BY <1>2, <1>3, <1>5, <1>6, <1>7 DEF m

LEMMA OneTaken ==
  ASSUME NEW S, NEW n \in Seq(S), NEW i \in DOMAIN n, NEW K, One(n, K)
  PROVE  LET m == D!RemoveAt(n, i)
         IN  One(m, K) /\ (n[i].kind \in K => ~Some(m, K))
<1> DEFINE m == D!RemoveAt(n, i)
<1>1. /\ \A q \in Way(m) : \E k \in DOMAIN n \ {i} : q = n[k]
      /\ \A a, b \in DOMAIN m : a # b => \E k, l \in DOMAIN n \ {i} : k # l /\ m[a] = n[k] /\ m[b] = n[l]
  BY NetTaken
<1> HIDE DEF m
<1>2. One(m, K)
  BY <1>1 DEF One
<1>3. n[i].kind \in K => ~Some(m, K)
  BY <1>1 DEF One, Some
<1> QED BY <1>2, <1>3 DEF m

\* What a request may spoil.
LEMMA Parts ==
  /\ \A kind \in Taken \cup {"delete"} : D!Part(kind) = {"thing"}
  /\ \A kind \in {"publish", "drop"} : D!Part(kind) = IF screen = "post" THEN {"notes", "thing"} ELSE {"notes"}
  /\ \A kind \in {"notes", "save"} : D!Part(kind) = {"notes"}
  /\ \A kind \in {"stars", "star"} : D!Part(kind) = {"star"}
  /\ D!Part("rsvp") = {"rsvp"}
BY DEF D!Part, Taken

\* What sending one request may spoil.
LEMMA Sending ==
  ASSUME NEW rest \in Seq(Calls(screen)), NEW r \in Calls(screen), D!SendsAll(rest, <<r>>)
  PROVE  /\ net' = Append(rest, r) /\ net' \in Seq(Calls(screen)) /\ Way(net') = Way(rest) \cup {r}
         /\ r.kind \notin D!Loads => spoiled \subseteq spoiled'
         /\ \A x : x \in spoiled' => x \in spoiled \/ x \in D!Part(r.kind)
         /\ \A x : x \in spoiled /\ x \notin spoiled' => r.kind \in D!Loads /\ x \in D!Part(r.kind)
         /\ \A x \in D!Part(r.kind) : x \notin spoiled'
              => \A q \in Way(rest) : x \in D!Part(q.kind) => {r.kind, q.kind} \cap D!Whole = {}
<1> DEFINE one == <<r>>
<1>1. DOMAIN one = {1} /\ one[1] = r
  OBVIOUS
<1>2. net' = Append(rest, r)
  BY DEF D!SendsAll
<1>3. spoiled' = (spoiled \ UNION {D!Part(one[i].kind) : i \in {j \in DOMAIN one : one[j].kind \in D!Loads}})
                 \cup UNION {D!Spoils(one[i].kind, rest) : i \in DOMAIN one}
  BY DEF D!SendsAll
<1>4. UNION {D!Spoils(one[i].kind, rest) : i \in DOMAIN one} = D!Spoils(r.kind, rest)
  BY <1>1
<1>5. UNION {D!Part(one[i].kind) : i \in {j \in DOMAIN one : one[j].kind \in D!Loads}}
      = IF r.kind \in D!Loads THEN D!Part(r.kind) ELSE {}
  BY <1>1
<1> HIDE DEF one
<1>6. D!Spoils(r.kind, rest) \subseteq D!Part(r.kind)
  BY DEF D!Spoils
<1>7. ASSUME NEW x \in D!Part(r.kind), x \notin D!Spoils(r.kind, rest), NEW j \in DOMAIN rest, x \in D!Part(rest[j].kind)
      PROVE  {r.kind, rest[j].kind} \cap D!Whole = {}
  BY <1>7 DEF D!Spoils
<1>8. \A x \in D!Part(r.kind) : x \notin spoiled'
        => \A q \in Way(rest) : x \in D!Part(q.kind) => {r.kind, q.kind} \cap D!Whole = {}
  BY <1>3, <1>4, <1>7 DEF Way
<1>9. net' \in Seq(Calls(screen)) /\ Way(net') = Way(rest) \cup {r}
  BY <1>2, NetSent
<1> QED BY <1>2, <1>3, <1>4, <1>5, <1>6, <1>8, <1>9

\* What an answer says of the thing.
LEMMA ViewTypes ==
  ASSUME NEW s \in DOMAIN KindsOf, NEW d \in ThingStates, NEW who \in {"me", "nobody"}
  PROVE  Says(s, d, who) \in Told[s]
<1>1. d.mine \in Relations /\ d.own \in Own /\ d.opts \in SUBSET D!Option /\ d.notes \in Notes
  BY DEF ThingStates
<1>2. CASE s \in D!Joinable
  <2>1. Says(s, d, who) = [mine |-> IF who = "me" THEN d.mine ELSE "none"]
    BY <1>2 DEF Says, D!Joinable
  <2>2. Says(s, d, who) \in [mine : Relations]
    BY <1>1, <2>1 DEF Relations
  <2>3. s = "community" \/ s = "subgroup"
    BY <1>2 DEF D!Joinable
  <2>4. Told["community"] = [mine : Relations] /\ Told["subgroup"] = [mine : Relations]
    BY DEF Told
  <2> QED BY <2>2, <2>3, <2>4
<1>3. CASE s = "poll"
  <2>1. Says(s, d, who) = [opts |-> d.opts, own |-> IF who = "me" THEN d.own ELSE null,
                          canVote |-> who = "me" /\ d.mine = "member" /\ ~d.closed]
    BY <1>3 DEF Says, D!Joinable
  <2>2. (who = "me" /\ d.mine = "member" /\ ~d.closed) \in BOOLEAN /\ (IF who = "me" THEN d.own ELSE null) \in Own
    BY <1>1 DEF Own
  <2>3. Says(s, d, who) \in [opts : SUBSET D!Option, own : Own, canVote : BOOLEAN]
    BY <1>1, <2>1, <2>2
  <2>4. Told["poll"] = [opts : SUBSET D!Option, own : Own, canVote : BOOLEAN]
    BY DEF Told
  <2> QED BY <1>3, <2>3, <2>4
<1>4. CASE s = "post"
  <2>1. Says(s, d, who) = [count |-> Len(d.notes)]
    BY <1>4 DEF Says, D!Joinable
  <2>2. Len(d.notes) \in Nat
    BY <1>1 DEF Notes
  <2> QED BY <1>4, <2>1, <2>2 DEF Told
<1>5. CASE s = "comments"
  BY <1>5 DEF Says, D!Joinable, Told
<1>6. CASE s = "event"
  <2>1. Says(s, d, who) = [mine |-> IF who = "me" THEN d.own ELSE null, canEdit |-> who = "me"]
    BY <1>6 DEF Says, D!Joinable
  <2>2. (who = "me") \in BOOLEAN /\ (IF who = "me" THEN d.own ELSE null) \in Own
    BY <1>1 DEF Own
  <2>3. Says(s, d, who) \in [mine : Own, canEdit : BOOLEAN]
    BY <2>1, <2>2
  <2>4. Told["event"] = [mine : Own, canEdit : BOOLEAN]
    BY DEF Told
  <2> QED BY <1>6, <2>3, <2>4
<1> QED BY <1>2, <1>3, <1>4, <1>5, <1>6 DEF KindsOf, D!Joinable

LEMMA ViewIs ==
  ASSUME NEW d, NEW who
  PROVE  D!View(d, who) = Says(screen, d, who)
BY DEF D!View, Says, D!Joinable

\* What the server makes of a request, by its kind: the state e and the answer a.
Outcome(d, r, e, a) ==
    /\ r.kind \in {"leave", "delete", "drop", "save", "star", "rsvp"} => a = null
    /\ r.kind = "load" => e = d /\ a = Says(screen, d, r.who)
    /\ r.kind = "join" => e = D!Joined(d) /\ a = Says(screen, e, "me")
    /\ r.kind = "leave" => e = [d EXCEPT !.mine = "none"]
    /\ r.kind = "vote" => e = [d EXCEPT !.own = r.arg] /\ a = Says(screen, e, "me")
    /\ r.kind = "edit" => e = [d EXCEPT !.opts = r.arg, !.own = IF @ \in r.arg THEN @ ELSE null] /\ a = Says(screen, e, "me")
    /\ r.kind = "delete" => e = [d EXCEPT !.gone = TRUE]
    /\ r.kind = "notes" => e = d /\ a = d.notes
    /\ r.kind = "publish" => /\ e = [d EXCEPT !.notes = Append(@, <<d.next, 1>>), !.next = @ + 1]
                             /\ a = <<d.next, 1>>
    /\ r.kind = "drop" => e = [d EXCEPT !.notes = D!Without(@, r.arg)] /\ r.arg \in Ids(d.notes)
    /\ r.kind = "save" => e = [d EXCEPT !.notes = [i \in DOMAIN @ |-> IF @[i][1] = r.arg THEN <<r.arg, 2>> ELSE @[i]]]
    /\ r.kind = "stars" => e = d /\ a = d.star
    /\ r.kind = "star" => e = [d EXCEPT !.star = r.arg]
    /\ r.kind = "rsvp" => e = [d EXCEPT !.own = r.arg]

LEMMA EffectsOf ==
  ASSUME NEW d, NEW r, NEW e \in D!Effects(d, r)
  PROVE  Outcome(d, r, e.db, e.ans)
<1>1. CASE r.kind = "load"
  BY <1>1, ViewIs DEF D!Effects, Outcome
<1>2. CASE r.kind = "leave"
  BY <1>2 DEF D!Effects, Outcome
<1>3. CASE r.kind = "delete"
  <2> DEFINE f == [d EXCEPT !.gone = TRUE]
  <2>1. D!Effects(d, r) = IF ~d.gone THEN {[db |-> f, ans |-> null]} ELSE {}
    BY <1>3 DEF D!Effects
  <2> HIDE DEF f
  <2>2. e.db = f /\ e.ans = null
    BY <2>1
  <2> QED BY <1>3, <2>2 DEF f, Outcome
<1>4. CASE r.kind = "join"
  BY <1>4, ViewIs DEF D!Effects, Outcome
<1>5. CASE r.kind \in {"vote", "edit"}
  BY <1>5, ViewIs DEF D!Effects, Outcome
<1>6. CASE r.kind \in {"notes", "stars", "star", "rsvp"}
  BY <1>6 DEF D!Effects, Outcome
<1>7. CASE r.kind = "publish"
  BY <1>7 DEF D!Effects, Outcome
<1>8. CASE r.kind = "drop"
  BY <1>8 DEF D!Effects, Outcome, Ids
<1>9. CASE r.kind = "save"
  BY <1>9 DEF D!Effects, Outcome
<1>10. CASE r.kind \notin {"load", "leave", "delete", "join", "vote", "edit", "notes", "stars", "star", "rsvp", "publish", "drop", "save"}
  BY <1>10 DEF Outcome
<1> QED BY <1>1, <1>2, <1>3, <1>4, <1>5, <1>6, <1>7, <1>8, <1>9, <1>10

\* Comments without one of them.
LEMMA NoteDropped ==
  ASSUME NEW notes \in Notes, NEW n
  PROVE  LET rest == D!Without(notes, n)
         IN  /\ rest \in Notes
             /\ \A j \in DOMAIN rest : \E k \in DOMAIN notes : rest[j] = notes[k]
             /\ Ascending(notes) =>
                  /\ Ascending(rest) /\ Ids(rest) = Ids(notes) \ {n}
                  /\ Len(rest) = IF n \in Ids(notes) THEN Len(notes) - 1 ELSE Len(notes)
<1> DEFINE rest == D!Without(notes, n)
<1>1. CASE n \notin Ids(notes)
  <2>1. rest = notes
    BY <1>1 DEF D!Without, Ids
  <2> QED BY <1>1, <2>1 DEF Ids
<1>2. CASE n \in Ids(notes)
  <2> DEFINE i == CHOOSE k \in DOMAIN notes : notes[k][1] = n
             Old(j) == IF j < i THEN j ELSE j + 1
  <2>1. i \in DOMAIN notes /\ notes[i][1] = n
    BY <1>2 DEF Ids
  <2>2. rest = D!RemoveAt(notes, i)
    BY <1>2 DEF D!Without, Ids
  <2> HIDE DEF i, rest
  <2>3. rest = R!RemoveAt(notes, i)
    BY <2>2 DEF D!RemoveAt, R!RemoveAt
  <2>4. /\ rest \in Notes /\ Len(rest) = Len(notes) - 1
        /\ \A j \in DOMAIN rest : Old(j) \in DOMAIN notes \ {i} /\ rest[j] = notes[Old(j)]
        /\ \A k \in DOMAIN notes \ {i} : \E j \in DOMAIN rest : rest[j] = notes[k]
    <3> DEFINE T == Nat \X {1, 2}
    <3>1. Notes = Seq(T)
      BY DEF Notes
    <3> HIDE DEF T
    <3> QED BY <2>1, <2>3, <3>1, Removal
  <2>5. ASSUME Ascending(notes) PROVE Ascending(rest) /\ Ids(rest) = Ids(notes) \ {n}
    <3>1. \A j, k \in DOMAIN rest : j < k => Old(j) < Old(k)
      <4>1. i \in Nat /\ \A j \in DOMAIN rest : j \in Nat
        BY <2>1, <2>4 DEF Notes
      <4> QED BY <4>1
    <3>2. Ascending(rest)
      BY <2>4, <2>5, <3>1 DEF Ascending
    <3>3. \A k \in DOMAIN notes : notes[k][1] = n => k = i
      <4>1. \A k \in DOMAIN notes : notes[k][1] \in Nat /\ k \in Nat
        BY DEF Notes
      <4> QED BY <2>1, <2>5, <4>1 DEF Ascending
    <3>4. Ids(rest) = Ids(notes) \ {n}
      BY <2>1, <2>4, <3>3 DEF Ids
    <3> QED BY <3>2, <3>4
  <2> QED BY <1>2, <2>4, <2>5 DEF rest
<1> QED BY <1>1, <1>2

\* What the server makes of a request is a state, and its answer fits.
LEMMA EffectTypes ==
  ASSUME screen \in DOMAIN KindsOf, NEW d \in ThingStates, NEW r \in Calls(screen), NEW e, NEW a, Outcome(d, r, e, a)
  PROVE  /\ e \in ThingStates
         /\ r.kind \in {"load", "join", "vote", "edit"} => a \in Told[screen]
         /\ r.kind = "notes" => a \in Notes
         /\ r.kind = "publish" => a \in Nat \X {1, 2}
         /\ r.kind = "stars" => a \in BOOLEAN
<1>1. /\ r.who \in {"me", "nobody"} /\ Fits(screen, r)
      /\ d.notes \in Notes /\ d.next \in Nat /\ d.star \in BOOLEAN
  BY DEF Calls, ThingStates
<1>2. \A m \in Relations : [d EXCEPT !.mine = m] \in ThingStates
  BY DEF ThingStates
<1>3. \A o \in Own : [d EXCEPT !.own = o] \in ThingStates
  BY DEF ThingStates
<1>4. \A s \in Notes, n \in Nat : [d EXCEPT !.notes = s, !.next = n] \in ThingStates /\ [d EXCEPT !.notes = s] \in ThingStates
  BY DEF ThingStates
<1>5. CASE r.kind = "load"
  BY <1>1, <1>5, ViewTypes DEF Outcome
<1>6. CASE r.kind \in {"join", "leave"}
  <2>1. D!Joined(d) \in ThingStates /\ [d EXCEPT !.mine = "none"] \in ThingStates
    BY <1>2 DEF D!Joined, Relations
  <2> QED BY <1>6, <2>1, ViewTypes DEF Outcome
<1>7. CASE r.kind = "vote"
  <2>1. [d EXCEPT !.own = r.arg] \in ThingStates
    BY <1>1, <1>3, <1>7 DEF Fits
  <2> QED BY <1>7, <2>1, ViewTypes DEF Outcome
<1>8. CASE r.kind = "edit"
  <2> DEFINE f == [d EXCEPT !.opts = r.arg, !.own = IF @ \in r.arg THEN @ ELSE null]
  <2>1. f \in ThingStates
    BY <1>1, <1>8 DEF Fits, ThingStates, Own
  <2>2. e = f /\ a = Says(screen, e, "me")
    BY <1>8 DEF Outcome
  <2> HIDE DEF f
  <2> QED BY <1>8, <2>1, <2>2, ViewTypes
<1>9. CASE r.kind = "delete"
  <2> DEFINE f == [d EXCEPT !.gone = TRUE]
  <2>1. f \in ThingStates
    BY DEF ThingStates
  <2>2. e = f
    BY <1>9 DEF Outcome
  <2> QED BY <1>9, <2>1, <2>2
<1>10. CASE r.kind \in {"notes", "stars"}
  BY <1>1, <1>10 DEF Outcome
<1>11. CASE r.kind = "publish"
  <2>1. <<d.next, 1>> \in Nat \X {1, 2}
    BY <1>1
  <2>2. Append(d.notes, <<d.next, 1>>) \in Notes /\ d.next + 1 \in Nat
    BY <1>1, <2>1 DEF Notes
  <2>3. [d EXCEPT !.notes = Append(@, <<d.next, 1>>), !.next = @ + 1] \in ThingStates
    BY <2>2, <1>4
  <2> QED BY <1>11, <2>1, <2>3 DEF Outcome
<1>12. CASE r.kind = "drop"
  <2>1. [d EXCEPT !.notes = D!Without(@, r.arg)] \in ThingStates
    BY <1>1, <1>4, NoteDropped
  <2> QED BY <1>12, <2>1 DEF Outcome
<1>13. CASE r.kind = "save"
  <2> DEFINE f == [i \in DOMAIN d.notes |-> IF d.notes[i][1] = r.arg THEN <<r.arg, 2>> ELSE d.notes[i]]
  <2>1. r.arg \in Nat
    BY <1>1, <1>13 DEF Fits
  <2>2. <<r.arg, 2>> \in Nat \X {1, 2}
    BY <2>1
  <2>3. f \in Notes
    <3>1. Len(d.notes) \in Nat /\ DOMAIN d.notes = 1 .. Len(d.notes) /\ \A k \in 1 .. Len(d.notes) : d.notes[k] \in Nat \X {1, 2}
      BY <1>1 DEF Notes
    <3>2. f \in [1 .. Len(d.notes) -> Nat \X {1, 2}]
      BY <2>2, <3>1
    <3> HIDE DEF f
    <3> QED BY <3>1, <3>2 DEF Notes
  <2>4. e = [d EXCEPT !.notes = f]
    BY <1>13 DEF Outcome
  <2> HIDE DEF f
  <2> QED BY <1>4, <1>13, <2>3, <2>4
<1>14. CASE r.kind = "star"
  <2>1. [d EXCEPT !.star = r.arg] \in ThingStates
    BY <1>1, <1>14 DEF Fits, ThingStates
  <2> QED BY <1>14, <2>1 DEF Outcome
<1>15. CASE r.kind = "rsvp"
  <2>1. [d EXCEPT !.own = r.arg] \in ThingStates
    BY <1>1, <1>3, <1>15 DEF Fits
  <2> QED BY <1>15, <2>1 DEF Outcome
<1>16. r.kind \in {"load", "join", "leave", "vote", "edit", "delete", "notes", "stars", "publish", "drop", "save", "star", "rsvp"}
  BY DEF Calls, KindsOf
<1> QED BY <1>5, <1>6, <1>7, <1>8, <1>9, <1>10, <1>11, <1>12, <1>13, <1>14, <1>15, <1>16

\* The server answers request i, which is then r.
ServedAs(i, r) ==
    /\ net[i].state = "sent" /\ net' = [net EXCEPT ![i] = r]
    /\ r.kind = net[i].kind /\ r.arg = net[i].arg /\ r.who = net[i].who
    /\ UNCHANGED <<screen, viewer, page>>
    /\ \/ r.state = "ok" /\ Outcome(db, net[i], db', r.ans) /\ UNCHANGED spoiled
       \/ /\ r.state = "failed" /\ UNCHANGED db /\ spoiled' \in {spoiled, spoiled \cup D!Part(r.kind)}
          /\ r.kind \in {"notes", "stars"} => D!Part(r.kind) \subseteq spoiled'
       \/ r.state = "failed" /\ (\E a : Outcome(db, net[i], db', a)) /\ spoiled' = spoiled \cup D!Part(r.kind)

LEMMA Serves ==
  ASSUME DetailTypes, NEW i \in DOMAIN net, D!Serve(i)
  PROVE  db' \in ThingStates /\ \E r \in Calls(screen) : ServedAs(i, r)
<1>0. /\ net \in Seq(Calls(screen)) /\ db \in ThingStates /\ screen \in DOMAIN KindsOf
      /\ net[i].state = "sent" /\ UNCHANGED <<screen, viewer, page>>
  BY DEF DetailTypes, D!Serve
<1>1. /\ net \in Seq(Calls(screen)) /\ db \in ThingStates /\ screen \in DOMAIN KindsOf /\ net[i] \in Calls(screen)
      /\ net[i].state = "sent" /\ UNCHANGED <<screen, viewer, page>>
  BY <1>0
<1> DEFINE failed == [net[i] EXCEPT !.state = "failed"]
<1>2. failed \in Calls(screen) /\ failed.state = "failed" /\ failed.kind = net[i].kind /\ failed.arg = net[i].arg /\ failed.who = net[i].who
  BY <1>1 DEF Calls, Fits
<1>3. CASE /\ net' = [net EXCEPT ![i].state = "failed"] /\ UNCHANGED db
           /\ spoiled' = IF net[i].kind \in D!Loads /\ (D!Effects(db, net[i]) # {} \/ net[i].kind = "notes")
                         THEN spoiled \cup D!Part(net[i].kind) ELSE spoiled
  <2>1. net[i].kind = "stars" => D!Effects(db, net[i]) # {}
    BY DEF D!Effects
  <2>2. net' = [net EXCEPT ![i] = failed]
    BY <1>3
  <2>3. /\ spoiled' \in {spoiled, spoiled \cup D!Part(net[i].kind)}
        /\ net[i].kind \in {"notes", "stars"} => D!Part(net[i].kind) \subseteq spoiled'
    BY <1>3, <2>1 DEF D!Loads
  <2> HIDE DEF failed
  <2> QED BY <1>1, <1>2, <1>3, <2>2, <2>3 DEF ServedAs
<1>4. ASSUME NEW e \in D!Effects(db, net[i]), db' = e.db,
             \/ net' = [net EXCEPT ![i].state = "ok", ![i].ans = e.ans] /\ UNCHANGED spoiled
             \/ net' = [net EXCEPT ![i].state = "failed"] /\ spoiled' = spoiled \cup D!Part(net[i].kind)
      PROVE  db' \in ThingStates /\ \E r \in Calls(screen) : ServedAs(i, r)
  <2>1. Outcome(db, net[i], db', e.ans)
    BY <1>4, EffectsOf
  <2>2. db' \in ThingStates
    BY <1>1, <2>1, EffectTypes
  <2>3. CASE net' = [net EXCEPT ![i].state = "failed"] /\ spoiled' = spoiled \cup D!Part(net[i].kind)
    <3>1. net' = [net EXCEPT ![i] = failed]
      BY <2>3
    <3> HIDE DEF failed
    <3> QED BY <1>1, <1>2, <2>1, <2>2, <2>3, <3>1 DEF ServedAs
  <2>4. CASE net' = [net EXCEPT ![i].state = "ok", ![i].ans = e.ans] /\ UNCHANGED spoiled
    <3> DEFINE ok == [net[i] EXCEPT !.state = "ok", !.ans = e.ans]
    <3>1. net' = [net EXCEPT ![i] = ok]
      BY <2>4
    <3>2. ok.state = "ok" /\ ok.ans = e.ans /\ ok.kind = net[i].kind /\ ok.arg = net[i].arg /\ ok.who = net[i].who
      BY <1>1 DEF Calls
    <3>3. ok \in Calls(screen)
      <4>0. net[i].kind \in {"load", "join", "leave", "vote", "edit", "delete", "notes", "stars", "publish", "drop", "save", "star", "rsvp"}
        BY <1>1 DEF Calls, KindsOf
      <4>1. /\ net[i].kind \in {"load", "join", "vote", "edit"} => e.ans \in Told[screen]
            /\ net[i].kind = "notes" => e.ans \in Notes
            /\ net[i].kind = "publish" => e.ans \in Nat \X {1, 2}
            /\ net[i].kind = "stars" => e.ans \in BOOLEAN
        BY <1>1, <2>1, EffectTypes
      <4>2. e.ans \in Answers(screen)
        BY <1>1, <2>1, <4>1, <4>0 DEF Answers, Outcome
      <4>3. Fits(screen, ok)
        BY <1>1, <3>2, <4>1 DEF Calls, Fits
      <4> QED BY <1>1, <4>2, <4>3 DEF Calls
    <3> HIDE DEF ok
    <3> QED BY <1>1, <2>1, <2>2, <2>4, <3>1, <3>2, <3>3 DEF ServedAs
  <2> QED BY <1>4, <2>3, <2>4
<1> QED BY <1>3, <1>4 DEF D!Serve

\* The flags, after a request is sent, answered or taken.
LEMMA FlagsSent ==
  ASSUME NEW S, NEW n \in Seq(S), NEW r \in S, NEW flags \in SUBSET Flags, FlagsIn(n, flags), NEW after,
         \/ after = flags /\ r.kind \in {"drop", "delete", "load", "notes", "stars"}
         \/ \E f \in Flags : r.kind \in Behind[f] /\ f \notin flags /\ after = flags \cup {f}
  PROVE  FlagsIn(Append(n, r), after)
<1> DEFINE m == Append(n, r)
<1>1. Way(m) = Way(n) \cup {r}
  BY NetSent
<1>2. \A flag : Some(m, Behind[flag]) <=> Some(n, Behind[flag]) \/ r.kind \in Behind[flag]
  BY <1>1 DEF Some
<1>3. \A flag \in after : Some(m, Behind[flag])
  BY <1>2 DEF FlagsIn
<1>4. ASSUME NEW flag \in Flags \ {"acting", "deleteLoading"}
      PROVE  r.kind \in Behind[flag] => ~Some(n, Behind[flag]) /\ flag \in after
  <2>1. CASE after = flags /\ r.kind \in {"drop", "delete", "load", "notes", "stars"}
    BY <2>1 DEF Flags, Behind
  <2>2. ASSUME NEW f \in Flags, r.kind \in Behind[f], f \notin flags, after = flags \cup {f}, r.kind \in Behind[flag]
        PROVE  ~Some(n, Behind[flag]) /\ flag \in after
    <3>1. f = flag
      BY <2>2 DEF Flags, Behind
    <3> QED BY <2>2, <3>1 DEF FlagsIn
  <2> QED BY <2>1, <2>2
<1>5. ASSUME NEW flag \in Flags \ {"acting", "deleteLoading"}
      PROVE  One(m, Behind[flag]) /\ (Some(m, Behind[flag]) => flag \in after)
  <2>1. One(n, Behind[flag]) /\ (Some(n, Behind[flag]) => flag \in flags) /\ flags \subseteq after
    BY DEF FlagsIn
  <2>2. One(m, Behind[flag])
    BY <1>4, <2>1, OneSent
  <2> HIDE DEF m
  <2> QED BY <1>2, <1>4, <2>1, <2>2
<1> HIDE DEF m
<1>6. FlagsIn(m, after)
  BY <1>3, <1>5 DEF FlagsIn
<1> QED BY <1>6 DEF m

LEMMA FlagsServed ==
  ASSUME NEW S, NEW n \in Seq(S), NEW i \in DOMAIN n, NEW r \in S, r.kind = n[i].kind, NEW flags \in SUBSET Flags, FlagsIn(n, flags)
  PROVE  FlagsIn([n EXCEPT ![i] = r], flags)
<1> DEFINE m == [n EXCEPT ![i] = r]
<1>1. r \in Way(m) /\ n[i] \in Way(n) /\ Way(m) \subseteq Way(n) \cup {r} /\ Way(n) \subseteq Way(m) \cup {n[i]}
  <2>1. DOMAIN m = DOMAIN n /\ m[i] = r /\ \A j \in DOMAIN n \ {i} : m[j] = n[j]
    OBVIOUS
  <2> HIDE DEF m
  <2> QED BY <2>1 DEF Way
<1>2. \A K : Some(m, K) <=> Some(n, K)
  BY <1>1 DEF Some
<1>3. \A K : One(n, K) => One(m, K)
  BY OneServed
<1> HIDE DEF m
<1>4. FlagsIn(m, flags)
  BY <1>2, <1>3 DEF FlagsIn
<1> QED BY <1>4 DEF m

LEMMA FlagsTaken ==
  ASSUME NEW S, NEW n \in Seq(S), NEW i \in DOMAIN n, NEW flags \in SUBSET Flags, FlagsIn(n, flags), NEW after,
         \/ after = flags /\ n[i].kind \in {"notes", "stars", "drop"}
         \/ \E f \in Flags : n[i].kind \in Behind[f] /\ after = flags \ {f}
  PROVE  FlagsIn(D!RemoveAt(n, i), after)
<1> DEFINE m == D!RemoveAt(n, i)
<1>1. Way(m) \subseteq Way(n) /\ Way(n) \subseteq Way(m) \cup {n[i]}
  BY NetTaken
<1>2. /\ \A K : Some(m, K) => Some(n, K)
      /\ \A K : Some(n, K) /\ n[i].kind \notin K => Some(m, K)
  BY <1>1 DEF Some
<1>3. \A K : One(n, K) => One(m, K) /\ (n[i].kind \in K => ~Some(m, K))
  BY OneTaken
<1> HIDE DEF m
<1>4. ASSUME NEW flag \in after PROVE flag \in flags /\ n[i].kind \notin Behind[flag]
  <2>1. CASE after = flags /\ n[i].kind \in {"notes", "stars", "drop"}
    BY <2>1 DEF Flags, Behind
  <2>2. ASSUME NEW f \in Flags, n[i].kind \in Behind[f], after = flags \ {f}
        PROVE  flag \in flags /\ n[i].kind \notin Behind[flag]
    <3>1. flag \in Flags /\ flag # f
      BY <2>2
    <3> QED BY <2>2, <3>1 DEF Flags, Behind
  <2> QED BY <2>1, <2>2
<1>5. \A flag \in flags \ after : n[i].kind \in Behind[flag]
  OBVIOUS
<1>6. ASSUME NEW flag \in after PROVE Some(m, Behind[flag])
  BY <1>2, <1>4 DEF FlagsIn
<1>7. ASSUME NEW flag \in Flags \ {"acting", "deleteLoading"}
      PROVE  One(m, Behind[flag]) /\ (Some(m, Behind[flag]) => flag \in after)
  <2>1. One(n, Behind[flag]) /\ (Some(n, Behind[flag]) => flag \in flags)
    BY DEF FlagsIn
  <2> QED BY <1>2, <1>3, <1>5, <2>1
<1>8. FlagsIn(m, after)
  BY <1>6, <1>7 DEF FlagsIn
<1> QED BY <1>8 DEF m

\* Requests under way after an answer, in terms of the variables.
LEMMA NetAnswered ==
  ASSUME DetailTypes, NEW i \in DOMAIN net, NEW r \in Calls(screen), ServedAs(i, r)
  PROVE  /\ net' \in Seq(Calls(screen)) /\ r \in Way(net') /\ net[i] \in Way(net) /\ net[i].state = "sent"
         /\ r.kind = net[i].kind /\ r.arg = net[i].arg /\ r.who = net[i].who
         /\ Way(net') \subseteq Way(net) \cup {r} /\ Way(net) \subseteq Way(net') \cup {net[i]}
         /\ \A K : Some(net', K) <=> Some(net, K)
<1>1. /\ net \in Seq(Calls(screen)) /\ net' = [net EXCEPT ![i] = r] /\ net[i].state = "sent"
      /\ r.kind = net[i].kind /\ r.arg = net[i].arg /\ r.who = net[i].who
  BY DEF DetailTypes, ServedAs
<1>2. /\ net' \in Seq(Calls(screen)) /\ r \in Way(net') /\ net[i] \in Way(net)
      /\ Way(net') \subseteq Way(net) \cup {r} /\ Way(net) \subseteq Way(net') \cup {net[i]}
  BY <1>1, NetServed
<1>3. ASSUME NEW K PROVE Some(net', K) <=> Some(net, K)
  BY <1>1, <1>2 DEF Some
<1> QED BY <1>1, <1>2, <1>3

LEMMA OneAnswered ==
  ASSUME DetailTypes, NEW i \in DOMAIN net, NEW r \in Calls(screen), ServedAs(i, r), NEW K, One(net, K)
  PROVE  One(net', K) /\ (r.kind \in K => /\ \A q \in Way(net') : q.kind \in K => q = r
                                          /\ \A q \in Way(net) : q.kind \in K => q = net[i])
<1>1. net \in Seq(Calls(screen)) /\ net' = [net EXCEPT ![i] = r] /\ r.kind = net[i].kind
  BY DEF DetailTypes, ServedAs
<1>2. \A q \in Way(net) : q.kind \in K /\ r.kind \in K => q = net[i]
  BY <1>1 DEF One, Way
<1> QED BY <1>1, <1>2, OneServed

\* Requests under way after the answer of request i was taken.
LEMMA NetLeft ==
  ASSUME DetailTypes, NEW i \in DOMAIN net, NEW rest, rest = D!RemoveAt(net, i)
  PROVE  /\ rest \in Seq(Calls(screen)) /\ net[i] \in Way(net) /\ net[i] \in Calls(screen)
         /\ Way(rest) \subseteq Way(net) /\ Way(net) \subseteq Way(rest) \cup {net[i]}
<1>1. net \in Seq(Calls(screen))
  BY DEF DetailTypes
<1> QED BY <1>1, NetTaken

LEMMA OneLeft ==
  ASSUME DetailTypes, NEW i \in DOMAIN net, NEW rest, rest = D!RemoveAt(net, i), NEW K, One(net, K)
  PROVE  /\ One(rest, K)
         /\ net[i].kind \in K => ~Some(rest, K) /\ \A q \in Way(net) : q.kind \in K => q = net[i]
<1>1. net \in Seq(Calls(screen))
  BY DEF DetailTypes
<1>2. net[i].kind \in K => \A q \in Way(net) : q.kind \in K => q = net[i]
  BY DEF One, Way
<1> QED BY <1>1, <1>2, OneTaken

\* A copy of the thing stays true, or on its way.
LEMMA ThingServed ==
  ASSUME DetailTypes, ThingCurrent, screen \in D!Joinable \cup {"poll"},
         NEW i \in DOMAIN net, NEW r \in Calls(screen), ServedAs(i, r)
  PROVE  ThingCurrent'
<1>1. /\ r.kind \in Taken \cup {"delete"} /\ D!Part(r.kind) = {"thing"} /\ r.state \in {"ok", "failed"}
      /\ UNCHANGED <<screen, page>> /\ db \in ThingStates
  BY Parts DEF Calls, KindsOf, D!Joinable, Taken, ServedAs, DetailTypes
<1>2. /\ r \in Way(net') /\ net[i] \in Way(net) /\ net[i].state = "sent" /\ r.kind = net[i].kind /\ r.who = net[i].who
      /\ Way(net') \subseteq Way(net) \cup {r} /\ Way(net) \subseteq Way(net') \cup {net[i]}
      /\ \A K : Some(net', K) <=> Some(net, K)
  BY NetAnswered
<1>3. One(net, Taken) => /\ One(net', Taken)
                         /\ r.kind \in Taken => /\ \A q \in Way(net') : q.kind \in Taken => q = r
                                                /\ \A q \in Way(net) : q.kind \in Taken => q = net[i]
  BY OneAnswered
<1>4. (screen \in D!Joinable => One(net, Taken) /\ (Some(net, Taken) /\ page.thing # null => "acting" \in page.busy))'
  BY <1>1, <1>2, <1>3 DEF ThingCurrent
<1>5. ASSUME "thing" \notin spoiled'
      PROVE  /\ One(net', Taken)
             /\ \A q \in Ok(net', Taken \ {"leave"}) : q.ans = Says(screen, db', IF q.kind = "load" THEN q.who ELSE "me")
             /\ page.thing \in {null, Says(screen, db', page.who)} \/ Some(net', {"load"}) \/ Ok(net', Taken) # {}
  <2>1. "thing" \notin spoiled /\ ((r.state = "ok" /\ Outcome(db, net[i], db', r.ans)) \/ (r.state = "failed" /\ UNCHANGED db))
    BY <1>1, <1>5 DEF ServedAs
  <2>2. /\ One(net, Taken)
        /\ \A q \in Ok(net, Taken \ {"leave"}) : q.ans = Says(screen, db, IF q.kind = "load" THEN q.who ELSE "me")
        /\ page.thing \in {null, Says(screen, db, page.who)} \/ Some(net, {"load"}) \/ Ok(net, Taken) # {}
    BY <2>1 DEF ThingCurrent
  <2>3. CASE r.kind = "delete"
    <3>1. \A w : Says(screen, db', w) = Says(screen, db, w)
      <4>1. CASE r.state = "failed"
        BY <2>1, <4>1
      <4>2. CASE r.state = "ok"
        <5>1. db' = [db EXCEPT !.gone = TRUE]
          BY <1>2, <2>1, <2>3, <4>2 DEF Outcome
        <5>2. /\ db'.mine = db.mine /\ db'.opts = db.opts /\ db'.own = db.own /\ db'.closed = db.closed
              /\ db'.notes = db.notes
          BY <1>1, <5>1 DEF ThingStates
        <5> QED BY <5>2 DEF Says
      <4> QED BY <1>1, <4>1, <4>2
    <3>2. \A K : "delete" \notin K => Ok(net', K) = Ok(net, K)
      BY <1>2, <2>3 DEF Ok
    <3>3. "delete" \notin Taken
      BY DEF Taken
    <3> QED BY <1>2, <1>3, <2>2, <3>1, <3>2, <3>3
  <2>4. CASE r.kind \in Taken /\ r.state = "failed"
    <3>1. Ok(net', Taken) = {} /\ Ok(net, Taken) = {} /\ db' = db
      BY <1>2, <1>3, <2>1, <2>2, <2>4 DEF Ok
    <3>2. \A q \in Ok(net', Taken \ {"leave"}) : q \in Ok(net', Taken)
      BY DEF Ok
    <3> QED BY <1>2, <1>3, <2>2, <3>1, <3>2
  <2>5. CASE r.kind \in Taken /\ r.state = "ok"
    <3>1. r \in Ok(net', Taken)
      BY <1>2, <2>5 DEF Ok
    <3>2. \A q \in Ok(net', Taken \ {"leave"}) : q = r /\ r.kind # "leave"
      BY <1>3, <2>2, <2>5 DEF Ok
    <3>3. r.kind \in Taken \ {"leave"} => r.ans = Says(screen, db', IF r.kind = "load" THEN r.who ELSE "me")
      BY <1>2, <2>1, <2>5 DEF Outcome, Taken
    <3> QED BY <1>3, <2>2, <2>5, <3>1, <3>2, <3>3
  <2> QED BY <1>1, <2>3, <2>4, <2>5
<1> QED BY <1>1, <1>4, <1>5 DEF ThingCurrent

LEMMA ThingSent ==
  ASSUME DetailTypes, ThingCurrent, screen \in D!Joinable \cup {"poll"}, NEW r \in Calls(screen),
         D!SendsAll(net, <<r>>), r.state = "sent", r.kind # "load", UNCHANGED <<screen, db>>,
         page'.thing = page.thing, page'.who = page.who, page.thing # null,
         screen \in D!Joinable => "acting" \notin page.busy /\ "acting" \in page'.busy
  PROVE  ThingCurrent'
<1>1. /\ r.kind \in Taken \cup {"delete"} /\ D!Part(r.kind) = {"thing"} /\ net \in Seq(Calls(screen))
      /\ \A q \in Way(net) : D!Part(q.kind) = {"thing"}
      /\ screen \in D!Joinable => r.kind \in {"join", "leave"}
  <2>1. net \in Seq(Calls(screen)) /\ \A q \in Way(net) : q \in Calls(screen)
    BY DEF DetailTypes, Way
  <2>2. \A q \in Calls(screen) : q.kind \in Taken \cup {"delete"} /\ (screen \in D!Joinable => q.kind \in {"load", "join", "leave"})
    BY DEF Calls, KindsOf, D!Joinable, Taken
  <2> QED BY <2>1, <2>2, Parts
<1>2. /\ net' = Append(net, r) /\ Way(net') = Way(net) \cup {r}
      /\ r.kind \notin D!Loads => spoiled \subseteq spoiled'
      /\ "thing" \notin spoiled' => \A q \in Way(net) : {r.kind, q.kind} \cap D!Whole = {}
  BY <1>1, Sending
<1>3. One(net, Taken) /\ (r.kind \in Taken => ~Some(net, Taken)) => One(net', Taken)
  BY <1>1, <1>2, OneSent
<1>4. (screen \in D!Joinable => One(net, Taken) /\ (Some(net, Taken) /\ page.thing # null => "acting" \in page.busy))'
  BY <1>3 DEF ThingCurrent
<1>5. ASSUME "thing" \notin spoiled'
      PROVE  /\ One(net', Taken)
             /\ \A q \in Ok(net', Taken \ {"leave"}) : q.ans = Says(screen, db, IF q.kind = "load" THEN q.who ELSE "me")
             /\ page.thing \in {null, Says(screen, db, page.who)} \/ Some(net', {"load"}) \/ Ok(net', Taken) # {}
  <2>1. "thing" \notin spoiled
    BY <1>1, <1>2, <1>5 DEF D!Loads, Taken, Calls, KindsOf, D!Joinable
  <2>2. /\ One(net, Taken)
        /\ \A q \in Ok(net, Taken \ {"leave"}) : q.ans = Says(screen, db, IF q.kind = "load" THEN q.who ELSE "me")
        /\ page.thing \in {null, Says(screen, db, page.who)} \/ Some(net, {"load"}) \/ Ok(net, Taken) # {}
    BY <2>1 DEF ThingCurrent
  <2>3. r.kind \in Taken => ~Some(net, Taken)
    <3>1. CASE screen \in D!Joinable
      BY <3>1 DEF ThingCurrent
    <3>2. CASE screen = "poll" /\ r.kind \in Taken
      <4>1. r.kind \in D!Whole
        BY <3>2 DEF Calls, KindsOf, Taken, D!Whole, D!Loads
      <4> QED BY <1>2, <1>5, <4>1 DEF Some
    <3> QED BY <3>1, <3>2
  <2>4. \A K : Ok(net', K) = Ok(net, K) /\ (Some(net, K) => Some(net', K))
    BY <1>2 DEF Ok, Some
  <2> QED BY <1>3, <2>2, <2>3, <2>4
<1> QED BY <1>4, <1>5 DEF ThingCurrent

LEMMA ThingTaken ==
  ASSUME DetailTypes, ThingCurrent, screen \in D!Joinable \cup {"poll"}, NEW i \in DOMAIN net,
         net' = D!RemoveAt(net, i), UNCHANGED <<screen, db, spoiled>>,
         \/ /\ net[i].kind \in Taken \ {"leave"} /\ net[i].state = "ok" /\ page'.thing = net[i].ans
            /\ page'.who = IF net[i].kind = "load" THEN net[i].who ELSE "me"
         \/ net[i].kind # "load" /\ net[i].state = "failed" /\ page'.thing = page.thing /\ page'.who = page.who
  PROVE  ThingCurrent'
<1>1. net[i].kind \in Taken \cup {"delete"} /\ (screen \in D!Joinable => net[i].kind \in Taken)
  <2>1. net[i] \in Calls(screen)
    BY NetLeft
  <2> QED BY <2>1 DEF Calls, KindsOf, D!Joinable, Taken
<1>2. net[i] \in Way(net) /\ Way(net') \subseteq Way(net) /\ Way(net) \subseteq Way(net') \cup {net[i]}
  BY NetLeft
<1>3. One(net, Taken) => /\ One(net', Taken)
                         /\ net[i].kind \in Taken => ~Some(net', Taken) /\ \A q \in Way(net) : q.kind \in Taken => q = net[i]
  BY OneLeft
<1>4. (screen \in D!Joinable => One(net, Taken) /\ (Some(net, Taken) /\ page.thing # null => "acting" \in page.busy))'
  BY <1>1, <1>3 DEF ThingCurrent
<1>5. ASSUME "thing" \notin spoiled
      PROVE  /\ One(net', Taken)
             /\ \A q \in Ok(net', Taken \ {"leave"}) : q.ans = Says(screen, db, IF q.kind = "load" THEN q.who ELSE "me")
             /\ page'.thing \in {null, Says(screen, db, page'.who)} \/ Some(net', {"load"}) \/ Ok(net', Taken) # {}
  <2>1. /\ One(net, Taken)
        /\ \A q \in Ok(net, Taken \ {"leave"}) : q.ans = Says(screen, db, IF q.kind = "load" THEN q.who ELSE "me")
        /\ page.thing \in {null, Says(screen, db, page.who)} \/ Some(net, {"load"}) \/ Ok(net, Taken) # {}
    BY <1>5 DEF ThingCurrent
  <2>2. Ok(net', Taken \ {"leave"}) \subseteq Ok(net, Taken \ {"leave"})
    BY <1>2 DEF Ok
  <2>3. CASE net[i].kind \in Taken \ {"leave"} /\ net[i].state = "ok"
    <3>1. net[i] \in Ok(net, Taken \ {"leave"})
      BY <1>2, <2>3 DEF Ok
    <3>2. page'.thing = Says(screen, db, page'.who)
      BY <2>1, <2>3, <3>1
    <3> QED BY <1>3, <2>1, <2>2, <3>2
  <2>4. CASE net[i].kind \in Taken \ {"load"} /\ net[i].state = "failed"
    <3>1. ~Some(net, {"load"}) /\ Ok(net, Taken) = {}
      BY <1>3, <2>1, <2>4 DEF Some, Ok, Taken
    <3> QED BY <1>3, <2>1, <2>2, <2>4, <3>1
  <2>5. CASE net[i].kind = "delete" /\ net[i].state = "failed"
    <3>1. Ok(net', Taken) = Ok(net, Taken) /\ (Some(net, {"load"}) => Some(net', {"load"}))
      BY <1>2, <2>5 DEF Ok, Some
    <3> QED BY <1>3, <2>1, <2>2, <2>5, <3>1
  <2> QED BY <1>1, <2>3, <2>4, <2>5
<1> QED BY <1>4, <1>5 DEF ThingCurrent

\* Who left a community is told of it again.
LEMMA ThingAsked ==
  ASSUME DetailTypes, ThingCurrent, screen = "community", NEW i \in DOMAIN net, net[i].kind = "leave",
         NEW r \in Calls(screen), r.kind = "load", r.state = "sent", D!SendsAll(D!RemoveAt(net, i), <<r>>),
         UNCHANGED <<screen, db, page>>
  PROVE  ThingCurrent'
<1> DEFINE rest == D!RemoveAt(net, i)
<1>1. rest \in Seq(Calls(screen)) /\ net[i] \in Way(net)
  BY NetLeft
<1>2. One(net, Taken) /\ (Some(net, Taken) /\ page.thing # null => "acting" \in page.busy)
  BY DEF ThingCurrent, D!Joinable
<1>3. One(rest, Taken) /\ ~Some(rest, Taken)
  BY <1>2, OneLeft DEF Taken
<1> HIDE DEF rest
<1>4. net' = Append(rest, r) /\ Way(net') = Way(rest) \cup {r}
  BY <1>1, Sending DEF rest
<1>5. One(net', Taken)
  BY <1>1, <1>3, <1>4, OneSent
<1>6. Ok(net', Taken \ {"leave"}) = {}
  BY <1>3, <1>4 DEF Ok, Some
<1>7. Some(net', {"load"})
  BY <1>4 DEF Some
<1>8. Some(net, Taken)
  BY <1>1 DEF Some, Taken
<1> QED BY <1>2, <1>5, <1>6, <1>7, <1>8 DEF ThingCurrent

LEMMA ThingRests ==
  ASSUME ThingCurrent, UNCHANGED <<screen, net>>, page'.thing = page.thing, page'.who = page.who, page'.busy = page.busy,
         spoiled \subseteq spoiled', "thing" \in spoiled' \/ \A who : Says(screen, db', who) = Says(screen, db, who)
  PROVE  ThingCurrent'
<1>1. (screen \in D!Joinable => One(net, Taken) /\ (Some(net, Taken) /\ page.thing # null => "acting" \in page.busy))'
  BY DEF ThingCurrent
<1>2. ASSUME "thing" \notin spoiled'
      PROVE  /\ One(net', Taken)
             /\ \A q \in Ok(net', Taken \ {"leave"}) : q.ans = Says(screen, db', IF q.kind = "load" THEN q.who ELSE "me")
             /\ page'.thing \in {null, Says(screen, db', page'.who)} \/ Some(net', {"load"}) \/ Ok(net', Taken) # {}
  BY <1>2 DEF ThingCurrent
<1> QED BY <1>1, <1>2 DEF ThingCurrent

LEMMA EventSent ==
  ASSUME DetailTypes, EventCurrent, screen = "event", viewer = "me", NEW r \in Calls(screen),
         r.kind \in {"star", "rsvp", "delete"}, r.state = "sent", D!SendsAll(net, <<r>>), UNCHANGED <<screen, db, viewer>>,
         page'.thing = page.thing, page'.who = page.who, page'.star = page.star, page'.mine = page.mine
  PROVE  EventCurrent'
<1>1. net \in Seq(Calls(screen)) /\ D!Who' = D!Who
  BY DEF DetailTypes, D!Who
<1>2. /\ net' = Append(net, r) /\ Way(net') = Way(net) \cup {r} /\ spoiled \subseteq spoiled'
      /\ \A x \in D!Part(r.kind) : x \notin spoiled'
           => \A q \in Way(net) : x \in D!Part(q.kind) => {r.kind, q.kind} \cap D!Whole = {}
  BY <1>1, Sending DEF D!Loads
<1>3. /\ \A K : Ok(net', K) = Ok(net, K)
      /\ \A K : Some(net, K) => Some(net', K)
      /\ \A q \in Way(net') : q.kind = "load" => q \in Way(net)
  BY <1>2 DEF Ok, Some
<1>4. AsksForViewer'
  BY <1>1, <1>2, <1>3 DEF AsksForViewer, EventCurrent
<1>5. RsvpCurrent'
  BY <1>2, <1>3 DEF RsvpCurrent, EventCurrent
<1>6. ASSUME "star" \notin spoiled' PROVE One(net', {"star", "stars"})
  <2>1. r.kind = "star" => \A q \in Way(net) : q.kind \notin {"star", "stars"}
    BY <1>2, <1>6, Parts DEF D!Whole
  <2>2. One(net, {"star", "stars"})
    BY <1>2, <1>6 DEF EventCurrent, StarCurrent
  <2>3. r.kind \in {"star", "stars"} => ~Some(net, {"star", "stars"})
    BY <2>1 DEF Some
  <2> QED BY <1>1, <1>2, <2>2, <2>3, OneSent
<1>7. StarCurrent'
  BY <1>2, <1>3, <1>6 DEF StarCurrent, EventCurrent
<1> QED BY <1>4, <1>5, <1>7 DEF EventCurrent

\* The session is restored, and the event and the stars are asked for again.
LEMMA EventAsked ==
  ASSUME DetailTypes, screen = "event", viewer # "me", viewer' = "me",
         NEW r \in Calls(screen), NEW s \in Calls(screen), r.kind = "load", r.who = "me", s.kind = "stars",
         r.state = "sent", s.state = "sent", D!SendsAll(net, <<r, s>>), UNCHANGED <<screen, db, page>>
  PROVE  /\ net' = Append(Append(net, r), s) /\ spoiled' \subseteq spoiled \cup {"thing", "star"}
         /\ EventCurrent => EventCurrent'
<1> DEFINE two == <<r, s>>
           first == Append(net, r)
<1>1. DOMAIN two = {1, 2} /\ two[1] = r /\ two[2] = s
  OBVIOUS
<1>2. net \in Seq(Calls(screen)) /\ net' = Append(first, s)
  BY DEF DetailTypes, D!SendsAll
<1>3. first \in Seq(Calls(screen)) /\ Way(first) = Way(net) \cup {r}
  BY <1>2, NetSent
<1> HIDE DEF first
<1>4. Way(net') = Way(net) \cup {r, s}
  BY <1>2, <1>3, NetSent
<1>5. spoiled' = (spoiled \ UNION {D!Part(two[i].kind) : i \in {j \in DOMAIN two : two[j].kind \in D!Loads}})
                 \cup UNION {D!Spoils(two[i].kind, net) : i \in DOMAIN two}
  BY DEF D!SendsAll
<1>6. UNION {D!Spoils(two[i].kind, net) : i \in DOMAIN two} = D!Spoils("load", net) \cup D!Spoils("stars", net)
  BY <1>1
<1>7. \A x : x \in UNION {D!Part(two[i].kind) : i \in {j \in DOMAIN two : two[j].kind \in D!Loads}} <=> x \in {"thing", "star"}
  BY <1>1, Parts DEF D!Loads, Taken
<1> HIDE DEF two
<1>8. \A x : x \in spoiled' <=> \/ x \in spoiled /\ x \notin {"thing", "star"}
                                \/ x \in D!Spoils("load", net) \cup D!Spoils("stars", net)
  BY <1>5, <1>6, <1>7
<1>9. D!Spoils("load", net) \subseteq {"thing"} /\ D!Spoils("stars", net) \subseteq {"star"}
  BY Parts DEF D!Spoils, Taken
<1> SUFFICES ASSUME EventCurrent PROVE EventCurrent'
  BY <1>2, <1>8, <1>9 DEF first
<1>10. \A K : Ok(net', K) = Ok(net, K)
  BY <1>4 DEF Ok
<1>11. ~Some(net, {"star", "stars"})
  BY DEF EventCurrent, StarCurrent
<1>12. "star" \notin D!Spoils("stars", net)
  <2>1. ASSUME NEW j \in DOMAIN net, "star" \in D!Part(net[j].kind) PROVE FALSE
    <3>1. net[j].kind \in {"load", "stars", "star", "rsvp", "delete"}
      BY <1>2 DEF Calls, KindsOf
    <3>2. net[j].kind \in {"star", "stars"}
      BY <2>1, <3>1, Parts DEF Taken
    <3> QED BY <1>11, <3>2 DEF Some, Way
  <2> QED BY <2>1 DEF D!Spoils
<1>13. ASSUME "thing" \notin spoiled', NEW q \in Way(net), q.kind = "load" PROVE FALSE
  <2>1. PICK j \in DOMAIN net : net[j] = q
    BY <1>13 DEF Way
  <2>2. "thing" \in D!Spoils("load", net)
    BY <1>13, <2>1, Parts DEF D!Spoils, D!Whole, D!Loads, Taken
  <2> QED BY <1>8, <1>13, <2>2
<1>14. AsksForViewer'
  <2>1. Some(net', {"load"}) /\ D!Who' = "me"
    BY <1>4 DEF Some, D!Who
  <2> QED BY <1>4, <1>13, <2>1 DEF AsksForViewer
<1>15. RsvpCurrent'
  BY <1>8, <1>10 DEF RsvpCurrent, EventCurrent
<1>16. One(first, {"star", "stars"}) /\ ~Some(first, {"star", "stars"})
  <2>1. One(net, {"star", "stars"}) /\ ~Some(net, {"star", "stars"})
    BY <1>11 DEF StarCurrent, EventCurrent
  <2>2. One(first, {"star", "stars"})
    BY <1>2, <2>1, OneSent DEF first
  <2> QED BY <1>3, <2>1, <2>2 DEF Some
<1>17. One(net', {"star", "stars"})
  BY <1>2, <1>3, <1>16, OneSent
<1>18. "star" \notin spoiled
  BY DEF EventCurrent, StarCurrent
<1>19. StarCurrent'
  BY <1>10, <1>17, <1>18 DEF StarCurrent, EventCurrent
<1> QED BY <1>14, <1>15, <1>19 DEF EventCurrent

LEMMA EventServed ==
  ASSUME DetailTypes, EventCurrent, One(net, {"rsvp"}), screen = "event",
         NEW i \in DOMAIN net, NEW r \in Calls(screen), ServedAs(i, r)
  PROVE  EventCurrent'
<1>1. /\ r.kind \in {"load", "stars", "star", "rsvp", "delete"} /\ r.state \in {"ok", "failed"}
      /\ UNCHANGED <<screen, viewer, page>> /\ db \in ThingStates /\ spoiled \subseteq spoiled' /\ D!Who' = D!Who
  BY DEF Calls, KindsOf, ServedAs, DetailTypes, D!Who
<1>2. /\ r \in Way(net') /\ net[i] \in Way(net) /\ net[i].state = "sent"
      /\ r.kind = net[i].kind /\ r.who = net[i].who /\ r.arg = net[i].arg
      /\ Way(net') \subseteq Way(net) \cup {r} /\ Way(net) \subseteq Way(net') \cup {net[i]}
      /\ \A K : Some(net', K) <=> Some(net, K)
  BY NetAnswered
<1>3. \A K : r.kind \notin K => Ok(net', K) = Ok(net, K)
  BY <1>2 DEF Ok
<1>4. \A K : One(net, K) => One(net', K)
  BY OneAnswered
<1>5. \A K : One(net, K) /\ r.kind \in K
        => Ok(net, K) = {} /\ Ok(net', K) = IF r.state = "ok" THEN {r} ELSE {}
  <2> SUFFICES ASSUME NEW K, One(net, K), r.kind \in K
               PROVE  Ok(net, K) = {} /\ Ok(net', K) = IF r.state = "ok" THEN {r} ELSE {}
    OBVIOUS
  <2>1. (\A q \in Way(net') : q.kind \in K => q = r) /\ \A q \in Way(net) : q.kind \in K => q = net[i]
    BY OneAnswered
  <2>2. \A q : q \in Ok(net', K) <=> q = r /\ r.state = "ok"
    BY <1>2, <2>1 DEF Ok
  <2>3. \A q : q \notin Ok(net, K)
    BY <1>2, <2>1 DEF Ok
  <2> QED BY <2>2, <2>3
<1>6. AsksForViewer'
  BY <1>1, <1>2 DEF AsksForViewer, EventCurrent
<1>7. \/ r.state = "failed" /\ db' = db
      \/ r.state = "failed" /\ D!Part(r.kind) \subseteq spoiled' /\ \E a : Outcome(db, net[i], db', a)
      \/ r.state = "ok" /\ Outcome(db, net[i], db', r.ans) /\ spoiled' = spoiled
  BY DEF ServedAs
<1>8. \A a : Outcome(db, net[i], db', a) =>
        /\ r.kind # "star" => db'.star = db.star
        /\ r.kind # "rsvp" => db'.own = db.own
        /\ r.kind = "star" => db'.star = r.arg
        /\ r.kind = "rsvp" => db'.own = r.arg
        /\ r.kind = "stars" => a = db.star
  <2> SUFFICES ASSUME NEW a, Outcome(db, net[i], db', a)
               PROVE  /\ r.kind # "star" => db'.star = db.star
                      /\ r.kind # "rsvp" => db'.own = db.own
                      /\ r.kind = "star" => db'.star = r.arg
                      /\ r.kind = "rsvp" => db'.own = r.arg
                      /\ r.kind = "stars" => a = db.star
    OBVIOUS
  <2>1. CASE r.kind = "load"
    BY <1>2, <2>1 DEF Outcome
  <2>2. CASE r.kind = "stars"
    BY <1>2, <2>2 DEF Outcome
  <2>3. CASE r.kind = "star"
    BY <1>1, <1>2, <2>3 DEF Outcome, ThingStates
  <2>4. CASE r.kind = "rsvp"
    BY <1>1, <1>2, <2>4 DEF Outcome, ThingStates
  <2>5. CASE r.kind = "delete"
    <3>1. db' = [db EXCEPT !.gone = TRUE]
      BY <1>2, <2>5 DEF Outcome
    <3> QED BY <1>1, <2>5, <3>1 DEF ThingStates
  <2> QED BY <1>1, <2>1, <2>2, <2>3, <2>4, <2>5
<1>9. RsvpCurrent'
  <2> SUFFICES ASSUME "rsvp" \notin spoiled'
               PROVE  /\ \A q \in Ok(net', {"rsvp"}) : q.arg = db'.own
                      /\ page.mine \in {null, db'.own} \/ Ok(net', {"rsvp"}) # {}
    BY <1>1 DEF RsvpCurrent
  <2>1. /\ \A q \in Ok(net, {"rsvp"}) : q.arg = db.own
        /\ page.mine \in {null, db.own} \/ Ok(net, {"rsvp"}) # {}
    BY <1>1 DEF EventCurrent, RsvpCurrent
  <2>2. CASE r.kind # "rsvp"
    <3>1. db'.own = db.own
      BY <1>7, <1>8, <2>2
    <3> QED BY <1>3, <2>1, <2>2, <3>1
  <2>3. CASE r.kind = "rsvp"
    <3>1. "rsvp" \in D!Part("rsvp")
      BY Parts
    <3>2. Ok(net, {"rsvp"}) = {} /\ Ok(net', {"rsvp"}) = IF r.state = "ok" THEN {r} ELSE {}
      BY <1>5, <2>3
    <3>3. CASE r.state = "ok"
      BY <1>7, <1>8, <2>3, <3>2, <3>3
    <3>4. CASE r.state = "failed"
      BY <1>7, <2>1, <2>3, <3>1, <3>2, <3>4
    <3> QED BY <1>1, <3>3, <3>4
  <2> QED BY <2>2, <2>3
<1>10. viewer # "me" => ~Some(net', {"star", "stars"}) /\ "star" \notin spoiled'
  <2> SUFFICES ASSUME viewer # "me" PROVE ~Some(net', {"star", "stars"}) /\ "star" \notin spoiled'
    OBVIOUS
  <2>1. ~Some(net, {"star", "stars"}) /\ "star" \notin spoiled
    BY DEF EventCurrent, StarCurrent
  <2>2. r.kind \notin {"star", "stars"}
    BY <1>2, <2>1 DEF Some
  <2>3. "star" \notin D!Part(r.kind)
    BY <1>1, <2>2, Parts DEF Taken
  <2>4. spoiled' \subseteq spoiled \cup D!Part(r.kind)
    BY DEF ServedAs
  <2> QED BY <1>2, <2>1, <2>3, <2>4
<1>11. ASSUME "star" \notin spoiled'
       PROVE  /\ One(net', {"star", "stars"})
              /\ \A q \in Ok(net', {"stars"}) : q.ans = db'.star
              /\ \A q \in Ok(net', {"star"}) : q.arg = db'.star
              /\ page.star = db'.star \/ Ok(net', {"star"}) # {}
  <2>1. /\ One(net, {"star", "stars"})
        /\ \A q \in Ok(net, {"stars"}) : q.ans = db.star
        /\ \A q \in Ok(net, {"star"}) : q.arg = db.star
        /\ page.star = db.star \/ Ok(net, {"star"}) # {}
    BY <1>1, <1>11 DEF EventCurrent, StarCurrent
  <2>2. CASE r.kind \notin {"star", "stars"}
    <3>1. db'.star = db.star
      BY <1>7, <1>8, <2>2
    <3> QED BY <1>3, <1>4, <2>1, <2>2, <3>1
  <2>3. CASE r.kind \in {"star", "stars"}
    <3>1. Ok(net, {"star", "stars"}) = {} /\ Ok(net', {"star", "stars"}) = IF r.state = "ok" THEN {r} ELSE {}
      BY <1>5, <2>1, <2>3
    <3>2. /\ Ok(net, {"star"}) = {} /\ Ok(net', {"star"}) \subseteq Ok(net', {"star", "stars"})
          /\ Ok(net', {"stars"}) \subseteq Ok(net', {"star", "stars"})
          /\ \A q \in Ok(net', {"star"}) : q.kind = "star"
          /\ \A q \in Ok(net', {"stars"}) : q.kind = "stars"
      BY <3>1 DEF Ok
    <3>3. "star" \in D!Part(r.kind)
      BY <2>3, Parts
    <3>4. CASE r.state = "failed"
      BY <1>4, <1>7, <1>11, <2>1, <3>1, <3>2, <3>3, <3>4
    <3>5. CASE r.state = "ok" /\ r.kind = "star"
      <4>1. r \in Ok(net', {"star"}) /\ db'.star = r.arg
        BY <1>2, <1>7, <1>8, <3>5 DEF Ok
      <4> QED BY <1>4, <2>1, <3>1, <3>2, <3>5, <4>1
    <3>6. CASE r.state = "ok" /\ r.kind = "stars"
      <4>1. r.ans = db.star /\ db'.star = db.star
        BY <1>7, <1>8, <3>6
      <4> QED BY <1>4, <2>1, <3>1, <3>2, <3>6, <4>1
    <3> QED BY <1>1, <2>3, <3>4, <3>5, <3>6
  <2> QED BY <2>2, <2>3
<1>12. StarCurrent'
  BY <1>1, <1>10, <1>11 DEF StarCurrent
<1> QED BY <1>6, <1>9, <1>12 DEF EventCurrent

LEMMA EventTaken ==
  ASSUME DetailTypes, EventCurrent, One(net, {"rsvp"}), screen = "event", NEW i \in DOMAIN net, net[i].state # "sent",
         net' = D!RemoveAt(net, i), UNCHANGED <<screen, db, viewer, spoiled>>,
         net[i].kind = "load" => page'.who = net[i].who,
         net[i].kind # "load" => page'.who = page.who /\ page'.thing = page.thing,
         page'.star = IF net[i].kind = "stars" /\ net[i].state = "ok" THEN net[i].ans
                      ELSE IF net[i].kind = "star" /\ net[i].state = "ok" THEN net[i].arg ELSE page.star,
         page'.mine = IF net[i].kind = "rsvp" /\ net[i].state = "ok" THEN net[i].arg ELSE page.mine
  PROVE  EventCurrent'
<1>1. net[i].state \in {"ok", "failed"} /\ D!Who' = D!Who
  <2>1. net[i] \in Calls(screen)
    BY NetLeft
  <2> QED BY <2>1 DEF Calls, D!Who
<1>2. net[i] \in Way(net) /\ Way(net') \subseteq Way(net) /\ Way(net) \subseteq Way(net') \cup {net[i]}
  BY NetLeft
<1>3. /\ \A K : Ok(net', K) \subseteq Ok(net, K)
      /\ \A K : net[i].kind \notin K => Ok(net', K) = Ok(net, K)
      /\ \A K : Some(net', K) => Some(net, K)
      /\ \A K : net[i].kind \notin K /\ Some(net, K) => Some(net', K)
  BY <1>2 DEF Ok, Some
<1>4. \A K : One(net, K) => One(net', K)
  BY OneLeft
<1>5. \A K : One(net, K) /\ net[i].kind \in K /\ net[i].state = "failed" => Ok(net, K) = {}
  <2> SUFFICES ASSUME NEW K, One(net, K), net[i].kind \in K, net[i].state = "failed" PROVE Ok(net, K) = {}
    OBVIOUS
  <2>1. \A q \in Way(net) : q.kind \in K => q = net[i]
    BY OneLeft
  <2>2. \A q : q \notin Ok(net, K)
    BY <2>1 DEF Ok
  <2> QED BY <2>2
<1>6. \A K : net[i].kind \in K /\ net[i].state = "ok" => net[i] \in Ok(net, K)
  BY <1>2 DEF Ok
<1>7. AsksForViewer'
  <2> SUFFICES ASSUME "thing" \notin spoiled
               PROVE  /\ \A q \in Way(net') : q.kind = "load" => q.who = D!Who
                      /\ page'.who = D!Who \/ Some(net', {"load"}) \/ page'.thing = null
    BY <1>1 DEF AsksForViewer
  <2>1. /\ \A q \in Way(net) : q.kind = "load" => q.who = D!Who
        /\ page.who = D!Who \/ Some(net, {"load"}) \/ page.thing = null
    BY DEF EventCurrent, AsksForViewer
  <2>2. CASE net[i].kind = "load"
    BY <1>2, <2>1, <2>2
  <2>3. CASE net[i].kind # "load"
    BY <1>2, <1>3, <2>1, <2>3
  <2> QED BY <2>2, <2>3
<1>8. RsvpCurrent'
  <2> SUFFICES ASSUME "rsvp" \notin spoiled
               PROVE  /\ \A q \in Ok(net', {"rsvp"}) : q.arg = db.own
                      /\ page'.mine \in {null, db.own} \/ Ok(net', {"rsvp"}) # {}
    BY DEF RsvpCurrent
  <2>1. /\ \A q \in Ok(net, {"rsvp"}) : q.arg = db.own
        /\ page.mine \in {null, db.own} \/ Ok(net, {"rsvp"}) # {}
    BY DEF EventCurrent, RsvpCurrent
  <2>2. CASE net[i].kind # "rsvp"
    BY <1>3, <2>1, <2>2
  <2>3. CASE net[i].kind = "rsvp" /\ net[i].state = "ok"
    <3>1. page'.mine = db.own
      BY <1>6, <2>1, <2>3
    <3> QED BY <1>3, <2>1, <3>1
  <2>4. CASE net[i].kind = "rsvp" /\ net[i].state = "failed"
    <3>1. Ok(net, {"rsvp"}) = {} /\ page'.mine = page.mine
      BY <1>5, <2>4
    <3> QED BY <1>3, <2>1, <3>1
  <2> QED BY <1>1, <2>2, <2>3, <2>4
<1>9. ASSUME "star" \notin spoiled
      PROVE  /\ One(net', {"star", "stars"})
             /\ \A q \in Ok(net', {"stars"}) : q.ans = db.star
             /\ \A q \in Ok(net', {"star"}) : q.arg = db.star
             /\ page'.star = db.star \/ Ok(net', {"star"}) # {}
  <2>1. /\ One(net, {"star", "stars"})
        /\ \A q \in Ok(net, {"stars"}) : q.ans = db.star
        /\ \A q \in Ok(net, {"star"}) : q.arg = db.star
        /\ page.star = db.star \/ Ok(net, {"star"}) # {}
    BY <1>9 DEF EventCurrent, StarCurrent
  <2>2. One(net', {"star", "stars"}) /\ (\A q \in Ok(net', {"stars"}) : q.ans = db.star) /\ \A q \in Ok(net', {"star"}) : q.arg = db.star
    BY <1>3, <1>4, <2>1
  <2>3. page'.star = db.star \/ Ok(net', {"star"}) # {}
    <3>1. CASE net[i].kind \notin {"star", "stars"}
      BY <1>3, <2>1, <3>1
    <3>2. CASE net[i].kind = "stars" /\ net[i].state = "ok"
      BY <1>6, <2>1, <3>2
    <3>3. CASE net[i].kind = "star" /\ net[i].state = "ok"
      BY <1>6, <2>1, <3>3
    <3>4. CASE net[i].kind \in {"star", "stars"} /\ net[i].state = "failed"
      <4>1. Ok(net, {"star", "stars"}) = {} /\ page'.star = page.star
        BY <1>5, <2>1, <3>4
      <4>2. Ok(net, {"star"}) = {}
        BY <4>1 DEF Ok
      <4> QED BY <2>1, <4>1, <4>2
    <3> QED BY <1>1, <3>1, <3>2, <3>3, <3>4
  <2> QED BY <2>2, <2>3
<1>10. StarCurrent'
  BY <1>3, <1>9 DEF StarCurrent, EventCurrent
<1> QED BY <1>7, <1>8, <1>10 DEF EventCurrent

LEMMA EventRests ==
  ASSUME EventCurrent, UNCHANGED <<screen, net>>, D!Who' = D!Who, viewer # "me" <=> viewer' # "me",
         page'.thing = page.thing, page'.who = page.who, page'.star = page.star, page'.mine = page.mine,
         db'.star = db.star, db'.own = db.own, spoiled \subseteq spoiled', "star" \in spoiled' => "star" \in spoiled
  PROVE  EventCurrent'
<1>1. AsksForViewer'
  BY DEF AsksForViewer, EventCurrent
<1>2. StarCurrent'
  BY DEF StarCurrent, EventCurrent
<1>3. RsvpCurrent'
  BY DEF RsvpCurrent, EventCurrent
<1> QED BY <1>1, <1>2, <1>3 DEF EventCurrent

\* The answers that are there, after one more answer, and after one was taken.
LEMMA OkAnswered ==
  ASSUME DetailTypes, NEW i \in DOMAIN net, NEW r \in Calls(screen), ServedAs(i, r)
  PROVE  \A K : Ok(net', K) = IF r.state = "ok" /\ r.kind \in K THEN Ok(net, K) \cup {r} ELSE Ok(net, K)
<1>1. /\ r \in Way(net') /\ net[i].state = "sent"
      /\ Way(net') \subseteq Way(net) \cup {r} /\ Way(net) \subseteq Way(net') \cup {net[i]}
  BY NetAnswered
<1> SUFFICES ASSUME NEW K
             PROVE  Ok(net', K) = IF r.state = "ok" /\ r.kind \in K THEN Ok(net, K) \cup {r} ELSE Ok(net, K)
  OBVIOUS
<1>2. \A q : q \in Ok(net', K) <=> q \in Ok(net, K) \/ (q = r /\ r.state = "ok" /\ r.kind \in K)
  BY <1>1 DEF Ok
<1> QED BY <1>2

LEMMA OkLeft ==
  ASSUME DetailTypes, NEW i \in DOMAIN net, NEW rest, rest = D!RemoveAt(net, i)
  PROVE  /\ \A K : Ok(rest, K) \subseteq Ok(net, K) /\ Ok(net, K) \subseteq Ok(rest, K) \cup {net[i]}
         /\ \A K : net[i].state # "ok" \/ net[i].kind \notin K => Ok(rest, K) = Ok(net, K)
         /\ \A K : net[i].state = "ok" /\ net[i].kind \in K => net[i] \in Ok(net, K)
         /\ \A K : Some(rest, K) => Some(net, K)
         /\ \A K : net[i].kind \notin K => (Some(rest, K) <=> Some(net, K))
         /\ \A K : net[i].kind \in K => Some(net, K)
<1>1. /\ net[i] \in Way(net) /\ Way(rest) \subseteq Way(net) /\ Way(net) \subseteq Way(rest) \cup {net[i]}
  BY NetLeft
<1>2. \A K : Ok(rest, K) \subseteq Ok(net, K) /\ Ok(net, K) \subseteq Ok(rest, K) \cup {net[i]}
  BY <1>1 DEF Ok
<1>3. \A K, q : (net[i].state # "ok" \/ net[i].kind \notin K) /\ q \in Ok(net, K) => q \in Ok(rest, K)
  BY <1>1 DEF Ok
<1>4. ASSUME NEW K, net[i].state # "ok" \/ net[i].kind \notin K PROVE Ok(rest, K) = Ok(net, K)
  <2>1. \A q : q \in Ok(rest, K) <=> q \in Ok(net, K)
    BY <1>2, <1>3, <1>4
  <2> QED BY <2>1
<1>5. \A K : net[i].state = "ok" /\ net[i].kind \in K => net[i] \in Ok(net, K)
  BY <1>1 DEF Ok
<1>6. /\ \A K : Some(rest, K) => Some(net, K)
      /\ \A K : net[i].kind \notin K => (Some(rest, K) <=> Some(net, K))
      /\ \A K : net[i].kind \in K => Some(net, K)
  BY <1>1 DEF Some
<1> QED BY <1>2, <1>4, <1>5, <1>6

\* One answer of a kind.
LEMMA OneOk ==
  ASSUME NEW n, NEW K, One(n, K), NEW r \in Ok(n, K)
  PROVE  Ok(n, K) = {r} /\ \A q \in Way(n) : q.kind \in K => q = r
<1>1. \A q \in Way(n) : q.kind \in K => q = r
  BY DEF Ok, One, Way
<1>2. \A q : q \in Ok(n, K) <=> q = r
  BY <1>1 DEF Ok
<1> QED BY <1>1, <1>2

\* Comments with one more, and with one changed.
LEMMA NoteAdded ==
  ASSUME NEW notes \in Notes, NEW n \in Nat, NEW v \in {1, 2}
  PROVE  LET more == Append(notes, <<n, v>>)
         IN  /\ more \in Notes /\ Len(more) = Len(notes) + 1 /\ Ids(more) = Ids(notes) \cup {n}
             /\ \A j \in DOMAIN more : more[j] = <<n, v>> \/ \E k \in DOMAIN notes : more[j] = notes[k]
             /\ Ascending(notes) /\ (\A k \in Ids(notes) : k < n) => Ascending(more)
<1> DEFINE x == <<n, v>>
           more == Append(notes, x)
<1>1. x \in Nat \X {1, 2} /\ x[1] = n
  OBVIOUS
<1> HIDE DEF x
<1>2. /\ more \in Notes /\ Len(more) = Len(notes) + 1 /\ Len(notes) \in Nat
      /\ DOMAIN notes = 1 .. Len(notes) /\ DOMAIN more = 1 .. Len(notes) + 1
      /\ more[Len(notes) + 1] = x /\ \A k \in DOMAIN notes : more[k] = notes[k]
  BY <1>1 DEF Notes
<1> HIDE DEF more
<1>3. \A k \in DOMAIN more : k \in DOMAIN notes \/ k = Len(notes) + 1
  BY <1>2
<1>4. \A j \in DOMAIN more : more[j] = x \/ \E k \in DOMAIN notes : more[j] = notes[k]
  BY <1>2, <1>3
<1>5. Ids(more) = Ids(notes) \cup {n}
  <2>1. \A k \in DOMAIN notes : k \in DOMAIN more
    BY <1>2
  <2>2. Len(notes) + 1 \in DOMAIN more
    BY <1>2
  <2> QED BY <1>1, <1>2, <1>3, <2>1, <2>2 DEF Ids
<1>6. ASSUME Ascending(notes), \A k \in Ids(notes) : k < n PROVE Ascending(more)
  <2> SUFFICES ASSUME NEW j \in DOMAIN more, NEW k \in DOMAIN more, j < k PROVE more[j][1] < more[k][1]
    BY DEF Ascending
  <2>1. j \in DOMAIN notes
    BY <1>2
  <2>2. more[j][1] \in Ids(notes)
    BY <1>2, <2>1 DEF Ids
  <2>3. CASE k \in DOMAIN notes
    BY <1>2, <1>6, <2>1, <2>3 DEF Ascending
  <2>4. CASE k = Len(notes) + 1
    BY <1>1, <1>2, <1>6, <2>2, <2>4
  <2> QED BY <1>3, <2>3, <2>4
<1> QED BY <1>2, <1>4, <1>5, <1>6 DEF x, more

LEMMA NoteChanged ==
  ASSUME NEW notes \in Notes, NEW n \in Nat
  PROVE  LET new == [k \in DOMAIN notes |-> IF notes[k][1] = n THEN <<n, 2>> ELSE notes[k]]
         IN  /\ new \in Notes /\ Len(new) = Len(notes) /\ Ids(new) = Ids(notes) /\ DOMAIN new = DOMAIN notes
             /\ \A k \in DOMAIN notes : /\ new[k][1] = notes[k][1]
                                        /\ new[k][2] = IF notes[k][1] = n THEN 2 ELSE notes[k][2]
             /\ Ascending(notes) => Ascending(new)
<1> DEFINE new == [k \in DOMAIN notes |-> IF notes[k][1] = n THEN <<n, 2>> ELSE notes[k]]
<1>1. /\ Len(notes) \in Nat /\ DOMAIN notes = 1 .. Len(notes)
      /\ \A k \in 1 .. Len(notes) : notes[k] \in Nat \X {1, 2}
  BY DEF Notes
<1>2. <<n, 2>> \in Nat \X {1, 2}
  OBVIOUS
<1>3. new \in [1 .. Len(notes) -> Nat \X {1, 2}]
  BY <1>1, <1>2
<1>4. \A k \in DOMAIN notes : /\ new[k][1] = notes[k][1]
                              /\ new[k][2] = IF notes[k][1] = n THEN 2 ELSE notes[k][2]
  OBVIOUS
<1> HIDE DEF new
<1>5. new \in Notes /\ Len(new) = Len(notes) /\ DOMAIN new = DOMAIN notes
  <2>1. new \in Seq(Nat \X {1, 2}) /\ DOMAIN new = 1 .. Len(notes)
    <3> DEFINE S == Nat \X {1, 2}
               m == Len(notes)
    <3>1. m \in Nat /\ new \in [1 .. m -> S]
      BY <1>1, <1>3
    <3> HIDE DEF S, m
    <3>2. new \in Seq(S) /\ DOMAIN new = 1 .. m
      BY <3>1
    <3> QED BY <3>2 DEF S, m
  <2>2. Len(new) = Len(notes)
    BY <1>1, <2>1
  <2> QED BY <1>1, <2>1, <2>2 DEF Notes
<1>6. Ids(new) = Ids(notes)
  <2>1. \A x : x \in Ids(new) <=> x \in Ids(notes)
    BY <1>4, <1>5 DEF Ids
  <2> QED BY <2>1
<1>7. Ascending(notes) => Ascending(new)
  BY <1>4, <1>5 DEF Ascending
<1> QED BY <1>4, <1>5, <1>6, <1>7 DEF new

\* A comment is published, saved or dropped, or the post is deleted: asked of the server.
LEMMA NotesSent ==
  ASSUME DetailTypes, NotesHold, screen \in D!WithNotes, NEW r \in Calls(screen), r.kind \in OnNotes \cup {"delete"}, r.state = "sent",
         D!SendsAll(net, <<r>>), UNCHANGED <<screen, db>>, page'.notes = page.notes, page'.thing = page.thing,
         page'.loading = page.loading, screen = "post" => ~page.loading,
         r.kind \in {"save", "drop"} => r.arg \in Ids(page.notes)
  PROVE  NotesHold'
<1>1. net \in Seq(Calls(screen)) /\ Ids(page.notes) \subseteq Nat /\ db.next \in Nat
  BY DEF DetailTypes, ThingPages, ThingStates, Notes, Ids
<1>2. /\ net' = Append(net, r) /\ Way(net') = Way(net) \cup {r} /\ spoiled \subseteq spoiled'
      /\ \A x \in D!Part(r.kind) : x \notin spoiled'
           => \A q \in Way(net) : x \in D!Part(q.kind) => {r.kind, q.kind} \cap D!Whole = {}
  BY <1>1, Sending DEF D!Loads, OnNotes
<1>3. /\ \A K : Ok(net', K) = Ok(net, K)
      /\ \A K : r.kind \notin K => (Some(net', K) <=> Some(net, K))
  BY <1>2 DEF Ok, Some
<1>4. Publishing(net') = Publishing(net) /\ Dropping(net') = Dropping(net) /\ Saving(net') = Saving(net)
  BY <1>3 DEF Publishing, Dropping, Saving
<1>5. DroppedOnce(net) => DroppedOnce(net')
  <2>1. PICK x : x \notin DOMAIN net /\ DOMAIN net' = DOMAIN net \cup {x} /\ net'[x] = r /\ \A j \in DOMAIN net : net'[j] = net[j]
    BY <1>1, <1>2, NetSent
  <2>2. r \notin Ok(net, {"drop"})
    BY DEF Ok
  <2> QED BY <1>3, <2>1, <2>2 DEF DroppedOnce
<1>6. NotesKept'
  <2>1. \A q \in Way(net') : q.kind \in {"save", "drop"} => q.arg < db.next
    BY <1>2 DEF NotesHold, NotesKept
  <2> QED BY <1>3, <1>4, <1>5, <2>1 DEF NotesHold, NotesKept
<1>7. Unseen => Unseen'
  <2> SUFFICES ASSUME Unseen, NEW n \in Publishing(net), NEW q \in Way(net'), q.kind \in {"save", "drop"} PROVE q.arg # n
    BY <1>4 DEF Unseen
  <2>1. CASE q \in Way(net)
    BY <2>1 DEF Unseen
  <2>2. CASE q = r
    <3>1. q.arg < n /\ q.arg \in Nat
      BY <1>1, <2>2 DEF Unseen
    <3> QED BY <3>1
  <2> QED BY <1>2, <2>1, <2>2
<1>8. NotesCurrent'
  <2> SUFFICES ASSUME "notes" \notin spoiled'
               PROVE  /\ Some(net', {"notes"}) => One(net', OnNotes \cup {"notes"})
                      /\ \A q \in Way(net') : q.kind = "notes" => q.state # "failed"
                      /\ \A q \in Ok(net', {"notes"}) : q.ans = db.notes
                      /\ \/ Some(net', {"notes"}) \/ page.thing = null
                         \/ /\ Ascending(page.notes) /\ Unseen' /\ Versions'
                            /\ \A n : n \in Ids(db.notes) <=> n \in Ids(page.notes) \cup Publishing(net') /\ n \notin Dropping(net')
    BY DEF NotesCurrent
  <2>1. /\ Some(net, {"notes"}) => One(net, OnNotes \cup {"notes"})
        /\ \A q \in Way(net) : q.kind = "notes" => q.state # "failed"
        /\ \A q \in Ok(net, {"notes"}) : q.ans = db.notes
        /\ \/ Some(net, {"notes"}) \/ page.thing = null
           \/ /\ Ascending(page.notes) /\ Unseen /\ Versions
              /\ \A n : n \in Ids(db.notes) <=> n \in Ids(page.notes) \cup Publishing(net) /\ n \notin Dropping(net)
    BY <1>2 DEF NotesHold, NotesCurrent
  <2>2. Some(net', {"notes"}) <=> Some(net, {"notes"})
    BY <1>3 DEF OnNotes
  <2>3. r.kind \in OnNotes => ~Some(net, {"notes"})
    <3>1. \A kind \in OnNotes \cup {"notes"} : "notes" \in D!Part(kind)
      BY Parts DEF OnNotes
    <3>2. "notes" \in D!Whole
      BY DEF D!Whole, D!Loads
    <3> QED BY <1>2, <3>1, <3>2 DEF Some
  <2>4. r.kind = "delete" /\ One(net, OnNotes \cup {"notes"}) => One(net', OnNotes \cup {"notes"})
    BY <1>1, <1>2, OneSent DEF OnNotes
  <2>5. Versions => Versions'
    BY <1>4 DEF Versions
  <2>6. \A q \in Way(net') : q.kind = "notes" => q \in Way(net)
    BY <1>2 DEF OnNotes
  <2>7. \/ Some(net, {"notes"}) \/ page.thing = null
        \/ /\ Ascending(page.notes) /\ Unseen' /\ Versions'
           /\ \A n : n \in Ids(db.notes) <=> n \in Ids(page.notes) \cup Publishing(net') /\ n \notin Dropping(net')
    BY <1>4, <1>7, <2>1, <2>5
  <2> QED BY <1>3, <2>1, <2>2, <2>3, <2>4, <2>6, <2>7
<1>9. screen = "post" => PostOrder'
  <2> SUFFICES ASSUME screen = "post" PROVE PostOrder'
    OBVIOUS
  <2>1. One(net, {"load"}) /\ One(net, {"notes"})
    BY DEF NotesHold, PostOrder
  <2>2. One(net', {"load"}) /\ One(net', {"notes"})
    BY <1>1, <1>2, <2>1, OneSent DEF OnNotes
  <2>3. (Some(net', {"load"}) <=> Some(net, {"load"})) /\ (Some(net', {"notes"}) <=> Some(net, {"notes"}))
    BY <1>3 DEF OnNotes
  <2> QED BY <2>2, <2>3 DEF NotesHold, PostOrder
<1>10. screen = "post" => CountCurrent'
  <2> SUFFICES ASSUME screen = "post" PROVE CountCurrent'
    OBVIOUS
  <2> QED BY <1>2, <1>3, <1>4, <1>7 DEF NotesHold, CountCurrent
<1> QED BY <1>6, <1>8, <1>9, <1>10 DEF NotesHold

\* What the server makes of the comments d, which are then e, and what it says of them.
NewNotes(d, kind, arg, e) ==
    /\ Ascending(e.notes)
    /\ kind \in {"load", "notes", "delete"} => e.notes = d.notes /\ e.next = d.next
    /\ kind = "publish" =>
         /\ e.next = d.next + 1 /\ Ids(e.notes) = Ids(d.notes) \cup {d.next} /\ Len(e.notes) = Len(d.notes) + 1
         /\ \A j \in DOMAIN e.notes : e.notes[j] = <<d.next, 1>> \/ \E k \in DOMAIN d.notes : e.notes[j] = d.notes[k]
    /\ kind = "drop" =>
         /\ e.next = d.next /\ arg \in Ids(d.notes) /\ Ids(e.notes) = Ids(d.notes) \ {arg}
         /\ Len(e.notes) = Len(d.notes) - 1
         /\ \A j \in DOMAIN e.notes : \E k \in DOMAIN d.notes : e.notes[j] = d.notes[k]
    /\ kind = "save" =>
         /\ e.next = d.next /\ Ids(e.notes) = Ids(d.notes) /\ Len(e.notes) = Len(d.notes)
         /\ DOMAIN e.notes = DOMAIN d.notes
         /\ \A k \in DOMAIN d.notes : /\ e.notes[k][1] = d.notes[k][1]
                                      /\ e.notes[k][2] = IF d.notes[k][1] = arg THEN 2 ELSE d.notes[k][2]
NoteAnswer(d, kind, a) ==
    /\ kind = "load" => a = [count |-> Len(d.notes)]
    /\ kind = "notes" => a = d.notes
    /\ kind = "publish" => a = <<d.next, 1>>

LEMMA NotesOutcome ==
  ASSUME screen \in DOMAIN KindsOf, screen \in D!WithNotes, NEW d \in ThingStates, NEW r \in Calls(screen), NEW e, NEW a,
         Outcome(d, r, e, a), Ascending(d.notes), \A n \in Ids(d.notes) : n < d.next
  PROVE  NewNotes(d, r.kind, r.arg, e) /\ NoteAnswer(d, r.kind, a)
<1>1. /\ r.kind \in {"load", "notes", "publish", "save", "drop", "delete"} /\ d.notes \in Notes /\ d.next \in Nat
      /\ r.kind \in {"save", "drop"} => r.arg \in Nat
      /\ r.kind = "load" => screen = "post"
  BY DEF Calls, KindsOf, Fits, ThingStates, D!WithNotes
<1>2. CASE r.kind = "load"
  <2>1. e = d /\ a = Says("post", d, r.who)
    BY <1>1, <1>2 DEF Outcome
  <2>2. a = [count |-> Len(d.notes)]
    BY <2>1 DEF Says, D!Joinable
  <2> QED BY <1>2, <2>1, <2>2 DEF NewNotes, NoteAnswer
<1>3. CASE r.kind = "notes"
  BY <1>3 DEF Outcome, NewNotes, NoteAnswer
<1>4. CASE r.kind = "delete"
  <2>1. e = [d EXCEPT !.gone = TRUE]
    BY <1>4 DEF Outcome
  <2>2. e.notes = d.notes /\ e.next = d.next
    BY <2>1 DEF ThingStates
  <2> QED BY <1>4, <2>2 DEF NewNotes, NoteAnswer
<1>5. CASE r.kind = "publish"
  <2>1. e = [d EXCEPT !.notes = Append(@, <<d.next, 1>>), !.next = @ + 1] /\ a = <<d.next, 1>>
    BY <1>5 DEF Outcome
  <2>2. e.notes = Append(d.notes, <<d.next, 1>>) /\ e.next = d.next + 1
    BY <2>1 DEF ThingStates
  <2>3. /\ Len(e.notes) = Len(d.notes) + 1 /\ Ids(e.notes) = Ids(d.notes) \cup {d.next}
        /\ \A j \in DOMAIN e.notes : e.notes[j] = <<d.next, 1>> \/ \E k \in DOMAIN d.notes : e.notes[j] = d.notes[k]
        /\ Ascending(e.notes)
    <3> DEFINE more == Append(d.notes, <<d.next, 1>>)
    <3>1. /\ Len(more) = Len(d.notes) + 1 /\ Ids(more) = Ids(d.notes) \cup {d.next}
          /\ \A j \in DOMAIN more : more[j] = <<d.next, 1>> \/ \E k \in DOMAIN d.notes : more[j] = d.notes[k]
          /\ Ascending(d.notes) /\ (\A k \in Ids(d.notes) : k < d.next) => Ascending(more)
      <4>1. 1 \in {1, 2}
        OBVIOUS
      <4> HIDE DEF more
      <4> QED BY <1>1, <4>1, NoteAdded DEF more
    <3> HIDE DEF more
    <3> QED BY <2>2, <3>1 DEF more
  <2> QED BY <1>5, <2>1, <2>2, <2>3 DEF NewNotes, NoteAnswer
<1>6. CASE r.kind = "drop"
  <2>1. e = [d EXCEPT !.notes = D!Without(@, r.arg)] /\ r.arg \in Ids(d.notes)
    BY <1>6 DEF Outcome
  <2>2. e.notes = D!Without(d.notes, r.arg) /\ e.next = d.next
    <3> DEFINE f == D!Without(d.notes, r.arg)
    <3>1. e = [d EXCEPT !.notes = f]
      BY <2>1
    <3> HIDE DEF f
    <3>2. e.notes = f /\ e.next = d.next
      BY <3>1 DEF ThingStates
    <3> QED BY <3>2 DEF f
  <2>3. /\ \A j \in DOMAIN e.notes : \E k \in DOMAIN d.notes : e.notes[j] = d.notes[k]
        /\ Ascending(e.notes) /\ Ids(e.notes) = Ids(d.notes) \ {r.arg} /\ Len(e.notes) = Len(d.notes) - 1
    BY <1>1, <2>1, <2>2, NoteDropped
  <2> QED BY <1>6, <2>1, <2>2, <2>3 DEF NewNotes, NoteAnswer
<1>7. CASE r.kind = "save"
  <2> DEFINE f == [i \in DOMAIN d.notes |-> IF d.notes[i][1] = r.arg THEN <<r.arg, 2>> ELSE d.notes[i]]
  <2>1. e = [d EXCEPT !.notes = f]
    BY <1>7 DEF Outcome
  <2>2. /\ Len(f) = Len(d.notes) /\ Ids(f) = Ids(d.notes) /\ DOMAIN f = DOMAIN d.notes
        /\ \A k \in DOMAIN d.notes : /\ f[k][1] = d.notes[k][1]
                                     /\ f[k][2] = IF d.notes[k][1] = r.arg THEN 2 ELSE d.notes[k][2]
        /\ Ascending(f)
    BY <1>1, <1>7, NoteChanged
  <2> HIDE DEF f
  <2>3. e.notes = f /\ e.next = d.next
    BY <2>1 DEF ThingStates
  <2> QED BY <1>7, <2>2, <2>3 DEF NewNotes, NoteAnswer
<1> QED BY <1>1, <1>2, <1>3, <1>4, <1>5, <1>6, <1>7

\* Numbers of comments, and of requests under way about them.
LEMMA NoteNumbers ==
  ASSUME DetailTypes
  PROVE  /\ db.notes \in Notes /\ Ids(db.notes) \subseteq Nat /\ db.next \in Nat /\ Len(db.notes) \in Nat
         /\ page.notes \in Notes /\ Ids(page.notes) \subseteq Nat
         /\ \A q \in Way(net) : /\ q \in Calls(screen)
                                /\ q.kind \in {"save", "drop"} => q.arg \in Nat
                                /\ q.kind = "publish" /\ q.state = "ok" => q.ans[1] \in Nat
                                /\ q.kind = "notes" /\ q.state = "ok" => q.ans \in Notes
<1>1. db.notes \in Notes /\ page.notes \in Notes /\ db.next \in Nat /\ net \in Seq(Calls(screen))
  BY DEF DetailTypes, ThingPages, ThingStates
<1>2. \A s \in Notes : Ids(s) \subseteq Nat /\ Len(s) \in Nat
  BY DEF Notes, Ids
<1>3. \A q \in Way(net) : q \in Calls(screen)
  BY <1>1 DEF Way
<1>4. \A q \in Calls(screen) : /\ q.kind \in {"save", "drop"} => q.arg \in Nat
                               /\ q.kind = "publish" /\ q.state = "ok" => q.ans \in Nat \X {1, 2}
                               /\ q.kind = "notes" /\ q.state = "ok" => q.ans \in Notes
  BY DEF Calls, Fits
<1>5. \A x \in Nat \X {1, 2} : x[1] \in Nat
  OBVIOUS
<1> QED BY <1>1, <1>2, <1>3, <1>4, <1>5

LEMMA DroppingFinite ==
  ASSUME DetailTypes, NotesKept
  PROVE  IsFiniteSet(Dropping(net)) /\ Cardinality(Dropping(net)) \in Nat
<1>1. \A q \in Ok(net, {"drop"}) : q \in Way(net) /\ q.kind = "drop"
  BY DEF Ok
<1>2. Dropping(net) \subseteq 0 .. db.next
  <2>1. \A q \in Ok(net, {"drop"}) : q.arg \in Nat /\ q.arg < db.next
    BY <1>1, NoteNumbers DEF NotesKept
  <2> QED BY <2>1, NoteNumbers DEF Dropping
<1>3. IsFiniteSet(0 .. db.next)
  <2>1. db.next \in Int /\ 0 \in Int
    BY NoteNumbers
  <2> QED BY <2>1, FS_Interval, Zenon
<1> QED BY <1>2, <1>3, FS_Subset, FS_CardinalityType

\* What the answers that are there say of the comments, by the kind of the one that comes.
LEMMA NotesAnswered ==
  ASSUME DetailTypes, NEW i \in DOMAIN net, NEW r \in Calls(screen), ServedAs(i, r), One(net, {"publish"}), One(net, {"save"})
  PROVE  /\ r.state # "ok" \/ r.kind # "publish" => Publishing(net') = Publishing(net)
         /\ r.state # "ok" \/ r.kind # "drop" => Dropping(net') = Dropping(net)
         /\ r.state # "ok" \/ r.kind # "save" => Saving(net') = Saving(net)
         /\ r.state = "ok" /\ r.kind = "publish" => Publishing(net) = {} /\ Publishing(net') = {r.ans[1]}
         /\ r.state = "ok" /\ r.kind = "drop" => Dropping(net') = Dropping(net) \cup {r.arg}
         /\ r.state = "ok" /\ r.kind = "save" => Saving(net) = {} /\ Saving(net') = {r.arg}
<1>1. \A K : Ok(net', K) = IF r.state = "ok" /\ r.kind \in K THEN Ok(net, K) \cup {r} ELSE Ok(net, K)
  BY OkAnswered
<1>2. \A K : One(net, K) /\ r.kind \in K => \A q \in Ok(net, K) : FALSE
  <2> SUFFICES ASSUME NEW K, One(net, K), r.kind \in K, NEW q \in Ok(net, K) PROVE FALSE
    OBVIOUS
  <2>1. q = net[i]
    BY OneAnswered DEF Ok
  <2>2. net[i].state = "sent"
    BY DEF ServedAs
  <2> QED BY <2>1, <2>2 DEF Ok
<1>3. r.kind = "publish" => Ok(net, {"publish"}) = {}
  BY <1>2
<1>4. r.kind = "save" => Ok(net, {"save"}) = {}
  BY <1>2
<1>5. /\ r.state # "ok" \/ r.kind # "publish" => Ok(net', {"publish"}) = Ok(net, {"publish"})
      /\ r.state # "ok" \/ r.kind # "drop" => Ok(net', {"drop"}) = Ok(net, {"drop"})
      /\ r.state # "ok" \/ r.kind # "save" => Ok(net', {"save"}) = Ok(net, {"save"})
      /\ r.state = "ok" /\ r.kind = "publish" => Ok(net', {"publish"}) = {r}
      /\ r.state = "ok" /\ r.kind = "drop" => Ok(net', {"drop"}) = Ok(net, {"drop"}) \cup {r}
      /\ r.state = "ok" /\ r.kind = "save" => Ok(net', {"save"}) = {r}
  BY <1>1, <1>3, <1>4
<1>6. CASE ~(r.state = "ok" /\ r.kind \in OnNotes)
  BY <1>5, <1>6 DEF Publishing, Dropping, Saving, OnNotes
<1>7. CASE r.state = "ok" /\ r.kind = "publish"
  BY <1>3, <1>5, <1>7 DEF Publishing, Dropping, Saving
<1>8. CASE r.state = "ok" /\ r.kind = "drop"
  <2>1. Dropping(net') = Dropping(net) \cup {r.arg}
    BY <1>5, <1>8 DEF Dropping
  <2> QED BY <1>5, <1>8, <2>1 DEF Publishing, Saving
<1>9. CASE r.state = "ok" /\ r.kind = "save"
  BY <1>4, <1>5, <1>9 DEF Publishing, Dropping, Saving
<1> QED BY <1>6, <1>7, <1>8, <1>9 DEF OnNotes

LEMMA OnePublished ==
  ASSUME NEW n, One(n, {"publish"})
  PROVE  Cardinality(Publishing(n)) = IF Publishing(n) = {} THEN 0 ELSE 1
<1>1. CASE Ok(n, {"publish"}) = {}
  <2>1. Publishing(n) = {}
    BY <1>1 DEF Publishing
  <2> QED BY <2>1, FS_EmptySet
<1>2. ASSUME NEW q \in Ok(n, {"publish"})
      PROVE  Cardinality(Publishing(n)) = 1 /\ Publishing(n) # {}
  <2>1. Ok(n, {"publish"}) = {q}
    BY OneOk
  <2>2. Publishing(n) = {q.ans[1]}
    BY <2>1 DEF Publishing
  <2> QED BY <2>2, FS_Singleton
<1> QED BY <1>1, <1>2

LEMMA NotesServed ==
  ASSUME DetailTypes, NotesHold, screen \in D!WithNotes, One(net, {"publish"}), One(net, {"save"}),
         NEW i \in DOMAIN net, NEW r \in Calls(screen), ServedAs(i, r)
  PROVE  NotesHold'
<1>1. /\ r.kind \in {"load", "notes", "publish", "save", "drop", "delete"} /\ r.state \in {"ok", "failed"}
      /\ UNCHANGED <<screen, page>> /\ spoiled \subseteq spoiled' /\ screen \in DOMAIN KindsOf /\ db \in ThingStates
      /\ net \in Seq(Calls(screen)) /\ net[i] \in Calls(screen)
  BY DEF Calls, KindsOf, ServedAs, DetailTypes, D!WithNotes
<1>2. /\ r \in Way(net') /\ net[i] \in Way(net) /\ net[i].state = "sent" /\ r.kind = net[i].kind /\ r.arg = net[i].arg
      /\ Way(net') \subseteq Way(net) \cup {r} /\ \A K : Some(net', K) <=> Some(net, K)
  BY NetAnswered
<1>3. \A K : Ok(net', K) = IF r.state = "ok" /\ r.kind \in K THEN Ok(net, K) \cup {r} ELSE Ok(net, K)
  BY OkAnswered
<1>4. /\ r.state # "ok" \/ r.kind # "publish" => Publishing(net') = Publishing(net)
      /\ r.state # "ok" \/ r.kind # "drop" => Dropping(net') = Dropping(net)
      /\ r.state # "ok" \/ r.kind # "save" => Saving(net') = Saving(net)
      /\ r.state = "ok" /\ r.kind = "publish" => Publishing(net) = {} /\ Publishing(net') = {r.ans[1]}
      /\ r.state = "ok" /\ r.kind = "drop" => Dropping(net') = Dropping(net) \cup {r.arg}
      /\ r.state = "ok" /\ r.kind = "save" => Saving(net) = {} /\ Saving(net') = {r.arg}
  BY NotesAnswered
<1>5. /\ Ascending(db.notes) /\ \A n \in Ids(db.notes) : n < db.next
      /\ \A q \in Ok(net, {"publish"}) : q.ans[2] = 1 /\ q.ans[1] < db.next
      /\ \A n \in Dropping(net) : n \notin Ids(db.notes)
      /\ DroppedOnce(net)
      /\ \A n \in Ids(page.notes) : n < db.next
      /\ \A q \in Ok(net, {"notes"}) : \A n \in Ids(q.ans) : n < db.next
      /\ \A q \in Way(net) : q.kind \in {"save", "drop"} => q.arg < db.next
  BY DEF NotesHold, NotesKept
<1>6. /\ Ids(db.notes) \subseteq Nat /\ db.next \in Nat /\ Ids(page.notes) \subseteq Nat
      /\ \A q \in Way(net) : q.kind \in {"save", "drop"} => q.arg \in Nat
      /\ \A q \in Ok(net, {"publish"}) : q.ans[1] \in Nat
      /\ \A q \in Ok(net, {"notes"}) : Ids(q.ans) \subseteq Nat
  <2>1. \A K : \A q \in Ok(net, K) : q \in Way(net) /\ q.state = "ok" /\ q.kind \in K
    BY DEF Ok
  <2>2. \A s \in Notes : Ids(s) \subseteq Nat
    BY DEF Notes, Ids
  <2> QED BY <2>1, <2>2, NoteNumbers
\* Nothing came of it, or its outcome, which may be answered.
<1>7. \/ r.state = "failed" /\ db' = db
      \/ \E a : Outcome(db, net[i], db', a) /\ \/ r.state = "failed" /\ D!Part(r.kind) \subseteq spoiled'
                                               \/ r.state = "ok" /\ a = r.ans
  BY DEF ServedAs
<1> DEFINE Answered == r.state = "ok"
           Failed == r.state = "failed" /\ D!Part(r.kind) \subseteq spoiled'
           News == NewNotes(db, r.kind, r.arg, db')
           Says1 == NoteAnswer(db, r.kind, r.ans)
<1>8. \/ r.state = "failed" /\ db' = db
      \/ News /\ (Failed \/ (Answered /\ Says1))
  <2>1. ASSUME NEW a, Outcome(db, net[i], db', a)
        PROVE  News /\ (r.state = "ok" /\ a = r.ans => Says1)
    BY <1>1, <1>2, <1>5, <2>1, NotesOutcome
  <2> HIDE DEF News, Says1
  <2> QED BY <1>7, <2>1
<1> HIDE DEF News, NewNotes
<1>9. /\ db'.next \in Nat /\ db.next <= db'.next
      /\ \A n \in Ids(db'.notes) : n < db'.next
      /\ Ascending(db'.notes)
  <2>1. CASE db' = db
    BY <1>5, <1>6, <2>1
  <2>2. CASE News
    BY <1>1, <1>5, <1>6, <2>2 DEF News, NewNotes
  <2> QED BY <1>8, <2>1, <2>2
<1>10. NotesKept'
  <2>1. \A q \in Ok(net', {"publish"}) : q.ans[2] = 1 /\ q.ans[1] < db'.next
    <3>1. CASE r.state = "ok" /\ r.kind = "publish"
      BY <1>3, <1>5, <1>6, <1>8, <1>9, <3>1 DEF News, NewNotes, NoteAnswer
    <3>2. CASE ~(r.state = "ok" /\ r.kind = "publish")
      BY <1>3, <1>5, <1>6, <1>9, <3>2
    <3> QED BY <3>1, <3>2
  <2>2. \A n \in Dropping(net') : n \notin Ids(db'.notes)
    <3>1. \A n \in Dropping(net) : n \in Nat /\ n < db.next
      <4>1. \A q \in Ok(net, {"drop"}) : q \in Way(net) /\ q.kind = "drop"
        BY DEF Ok
      <4> QED BY <1>5, <1>6, <4>1 DEF Dropping
    <3>2. CASE db' = db /\ r.state = "failed"
      BY <1>4, <1>5, <3>2
    <3>3. CASE News /\ r.kind # "drop"
      BY <1>1, <1>4, <1>5, <1>6, <3>1, <3>3 DEF News, NewNotes
    <3>4. CASE News /\ r.kind = "drop"
      BY <1>4, <1>5, <3>4 DEF News, NewNotes
    <3> QED BY <1>8, <3>2, <3>3, <3>4
  <2>3. DroppedOnce(net')
    <3>1. DOMAIN net' = DOMAIN net /\ net'[i] = r /\ \A j \in DOMAIN net \ {i} : net'[j] = net[j]
      BY <1>1, <1>2, NetServed DEF ServedAs
    <3>2. \A q \in Ok(net, {"drop"}) : q.arg \in Dropping(net)
      BY DEF Dropping
    <3>3. r.state = "ok" /\ r.kind = "drop" => \A q \in Ok(net, {"drop"}) : q.arg # r.arg
      BY <1>5, <1>8, <3>2 DEF News, NewNotes
    <3> SUFFICES ASSUME NEW j \in DOMAIN net, NEW k \in DOMAIN net, j # k,
                        net'[j] \in Ok(net', {"drop"}), net'[k] \in Ok(net', {"drop"}), net'[j].arg = net'[k].arg
                 PROVE  FALSE
      BY <3>1 DEF DroppedOnce
    <3>4. \A l \in DOMAIN net \ {i} : net'[l] \in Ok(net', {"drop"}) => net[l] \in Ok(net, {"drop"}) /\ net'[l] = net[l]
      BY <3>1 DEF Ok, Way
    <3>5. CASE j # i /\ k # i
      BY <1>5, <3>4, <3>5 DEF DroppedOnce
    <3>6. CASE j = i
      BY <3>1, <3>3, <3>4, <3>6 DEF Ok
    <3>7. CASE k = i
      BY <3>1, <3>3, <3>4, <3>7 DEF Ok
    <3> QED BY <3>5, <3>6, <3>7
  <2>4. \A n \in Ids(page.notes) : n < db'.next
    BY <1>5, <1>6, <1>9
  <2>5. \A q \in Ok(net', {"notes"}) : \A n \in Ids(q.ans) : n < db'.next
    <3>1. CASE r.state = "ok" /\ r.kind = "notes"
      BY <1>3, <1>5, <1>6, <1>8, <1>9, <3>1 DEF News, NewNotes, NoteAnswer
    <3>2. CASE ~(r.state = "ok" /\ r.kind = "notes")
      BY <1>3, <1>5, <1>6, <1>9, <3>2
    <3> QED BY <3>1, <3>2
  <2>6. \A q \in Way(net') : q.kind \in {"save", "drop"} => q.arg < db'.next
    BY <1>2, <1>5, <1>6, <1>9
  <2> QED BY <1>1, <1>9, <2>1, <2>2, <2>3, <2>4, <2>5, <2>6 DEF NotesKept
<1>11. Unseen => Unseen'
  <2> SUFFICES ASSUME Unseen, NEW n \in Publishing(net')
               PROVE  /\ n \in Ids(db'.notes)
                      /\ \A k \in Ids(page.notes) : k < n
                      /\ \A q \in Way(net') : q.kind \in {"save", "drop"} => q.arg # n
    BY <1>1 DEF Unseen
  <2>1. CASE r.state = "ok" /\ r.kind = "publish"
    <3>1. n = db.next /\ News
      BY <1>4, <1>8, <2>1 DEF NoteAnswer
    <3> QED BY <1>2, <1>5, <1>6, <2>1, <3>1 DEF News, NewNotes, NoteAnswer
  <2>2. CASE ~(r.state = "ok" /\ r.kind = "publish")
    <3>1. /\ n \in Ids(db.notes)
          /\ \A k \in Ids(page.notes) : k < n
          /\ \A q \in Way(net) : q.kind \in {"save", "drop"} => q.arg # n
      BY <1>4, <2>2 DEF Unseen
    <3>2. r.kind \in {"save", "drop"} => r.arg # n
      BY <1>2, <3>1
    <3>3. n \in Ids(db'.notes)
      BY <1>1, <1>8, <3>1, <3>2 DEF News, NewNotes
    <3> QED BY <1>2, <3>1, <3>2, <3>3
  <2> QED BY <2>1, <2>2
<1>12. r.kind = "notes" /\ r.state = "failed" => "notes" \in spoiled'
  BY Parts DEF ServedAs
<1>13. "notes" \in D!Part("publish") /\ "notes" \in D!Part("drop") /\ "notes" \in D!Part("save")
  BY Parts
<1> DEFINE Same == /\ db'.notes = db.notes /\ Publishing(net') = Publishing(net)
                   /\ Dropping(net') = Dropping(net) /\ Saving(net') = Saving(net)
\* What is asked is done, and answered, or all stays as it was.
<1>14. "notes" \notin spoiled' => \/ Same
                                  \/ News /\ r.state = "ok" /\ Says1 /\ r.kind \in OnNotes
  <2>1. CASE r.state = "failed" /\ db' = db
    BY <1>4, <2>1
  <2>2. CASE News /\ r.kind \in {"load", "notes", "delete"}
    <3>1. db'.notes = db.notes
      BY <2>2 DEF News, NewNotes
    <3> QED BY <1>4, <2>2, <3>1
  <2>3. CASE News /\ r.kind \in OnNotes
    BY <1>8, <1>13, <2>1, <2>3 DEF OnNotes
  <2> QED BY <1>1, <1>8, <2>1, <2>2, <2>3 DEF OnNotes
<1> HIDE DEF Same, Says1
<1>15. ASSUME "notes" \notin spoiled'
       PROVE  /\ Some(net', {"notes"}) => One(net', OnNotes \cup {"notes"})
              /\ \A q \in Way(net') : q.kind = "notes" => q.state # "failed"
              /\ \A q \in Ok(net', {"notes"}) : q.ans = db'.notes
  <2>1. /\ Some(net, {"notes"}) => One(net, OnNotes \cup {"notes"})
        /\ \A q \in Way(net) : q.kind = "notes" => q.state # "failed"
        /\ \A q \in Ok(net, {"notes"}) : q.ans = db.notes
    BY <1>1, <1>15 DEF NotesHold, NotesCurrent
  <2>2. Some(net, {"notes"}) => One(net', OnNotes \cup {"notes"})
    BY <2>1, OneAnswered
  <2>3. \A q \in Way(net') : q.kind = "notes" => q.state # "failed"
    BY <1>2, <1>12, <1>15, <2>1
  <2>4. ASSUME NEW q \in Ok(net', {"notes"}) PROVE q.ans = db'.notes
    <3>1. q \in Way(net') /\ q.kind = "notes"
      BY <2>4 DEF Ok
    <3>2. Some(net, {"notes"})
      BY <1>2, <3>1 DEF Some
    <3>3. r.kind \notin OnNotes
      <4>1. \A p \in Way(net) : p.kind \in OnNotes \cup {"notes"} /\ r.kind \in OnNotes => p = net[i]
        BY <2>1, <3>2, OneAnswered
      <4> QED BY <1>2, <3>2, <4>1 DEF Some, OnNotes
    <3>4. db'.notes = db.notes
      BY <1>14, <1>15, <3>3 DEF Same
    <3>5. q \in Ok(net, {"notes"}) \/ (q = r /\ r.state = "ok" /\ r.kind = "notes")
      BY <1>3, <2>4
    <3>6. r.state = "ok" => NoteAnswer(db, r.kind, r.ans)
      BY <1>8 DEF Says1
    <3> QED BY <2>1, <3>4, <3>5, <3>6 DEF NoteAnswer
  <2> QED BY <1>2, <2>2, <2>3, <2>4
<1>16. ASSUME "notes" \notin spoiled', ~Some(net', {"notes"}), page.thing # null
       PROVE  /\ Ascending(page.notes) /\ Unseen' /\ Versions'
              /\ \A n : n \in Ids(db'.notes) <=> n \in Ids(page.notes) \cup Publishing(net') /\ n \notin Dropping(net')
  <2>1. /\ Ascending(page.notes) /\ Unseen /\ Versions
        /\ \A n : n \in Ids(db.notes) <=> n \in Ids(page.notes) \cup Publishing(net) /\ n \notin Dropping(net)
    BY <1>1, <1>2, <1>16 DEF NotesHold, NotesCurrent
  <2>2. CASE Same
    <3>1. Versions'
      BY <1>1, <2>1, <2>2 DEF Same, Versions
    <3> QED BY <1>11, <2>1, <2>2, <3>1 DEF Same
  <2>3. CASE News /\ r.state = "ok" /\ Says1 /\ r.kind = "publish"
    <3>1. /\ Ids(db'.notes) = Ids(db.notes) \cup {db.next} /\ Publishing(net) = {} /\ Publishing(net') = {db.next}
          /\ Dropping(net') = Dropping(net) /\ Saving(net') = Saving(net)
          /\ \A j \in DOMAIN db'.notes : db'.notes[j] = <<db.next, 1>> \/ \E k \in DOMAIN db.notes : db'.notes[j] = db.notes[k]
      BY <1>4, <2>3 DEF News, NewNotes, Says1, NoteAnswer
    <3>2. db.next \notin Dropping(net)
      <4>1. \A q \in Ok(net, {"drop"}) : q.arg \in Nat /\ q.arg < db.next
        BY <1>5, <1>6 DEF Ok
      <4> QED BY <1>6, <4>1 DEF Dropping
    <3>3. db.next \notin Ids(page.notes) /\ db.next \notin Ids(db.notes)
      BY <1>5, <1>6
    <3>4. ASSUME NEW j \in DOMAIN db'.notes, NEW k \in DOMAIN page.notes, db'.notes[j][1] = page.notes[k][1]
          PROVE  db'.notes[j][2] = IF db'.notes[j][1] \in Saving(net') THEN 2 ELSE page.notes[k][2]
      <4>1. db'.notes[j][1] # db.next
        BY <3>3, <3>4 DEF Ids
      <4>2. PICK l \in DOMAIN db.notes : db'.notes[j] = db.notes[l]
        BY <3>1, <4>1
      <4> QED BY <2>1, <3>1, <3>4, <4>2 DEF Versions
    <3>5. ASSUME NEW j \in DOMAIN db'.notes, db'.notes[j][1] \in Publishing(net') PROVE db'.notes[j][2] = 1
      <4>1. db'.notes[j] = <<db.next, 1>> \/ db'.notes[j][1] \in Ids(db.notes)
        BY <3>1 DEF Ids
      <4> QED BY <3>1, <3>3, <3>5, <4>1
    <3>6. Versions'
      BY <1>1, <3>4, <3>5 DEF Versions
    <3> QED BY <1>11, <2>1, <3>1, <3>2, <3>3, <3>6
  <2>4. CASE News /\ r.state = "ok" /\ Says1 /\ r.kind = "drop"
    <3>1. /\ Ids(db'.notes) = Ids(db.notes) \ {r.arg} /\ Dropping(net') = Dropping(net) \cup {r.arg}
          /\ Publishing(net') = Publishing(net) /\ Saving(net') = Saving(net)
          /\ \A j \in DOMAIN db'.notes : \E k \in DOMAIN db.notes : db'.notes[j] = db.notes[k]
      BY <1>4, <2>4 DEF News, NewNotes
    <3>2. Versions'
      BY <1>1, <2>1, <3>1 DEF Versions
    <3> QED BY <1>11, <2>1, <3>1, <3>2
  <2>5. CASE News /\ r.state = "ok" /\ Says1 /\ r.kind = "save"
    <3>1. /\ Ids(db'.notes) = Ids(db.notes) /\ DOMAIN db'.notes = DOMAIN db.notes
          /\ \A k \in DOMAIN db.notes : /\ db'.notes[k][1] = db.notes[k][1]
                                        /\ db'.notes[k][2] = IF db.notes[k][1] = r.arg THEN 2 ELSE db.notes[k][2]
          /\ Dropping(net') = Dropping(net) /\ Publishing(net') = Publishing(net)
          /\ Saving(net) = {} /\ Saving(net') = {r.arg}
      BY <1>4, <2>5 DEF News, NewNotes
    <3>2. r.arg \notin Publishing(net)
      BY <1>2, <2>1, <2>5 DEF Unseen
    <3>3. ASSUME NEW j \in DOMAIN db.notes, NEW k \in DOMAIN page.notes, db'.notes[j][1] = page.notes[k][1]
          PROVE  db'.notes[j][2] = IF db'.notes[j][1] \in Saving(net') THEN 2 ELSE page.notes[k][2]
      <4>1. db.notes[j][2] = page.notes[k][2]
        BY <2>1, <3>1, <3>3 DEF Versions
      <4> QED BY <3>1, <4>1
    <3>4. ASSUME NEW j \in DOMAIN db.notes, db'.notes[j][1] \in Publishing(net') PROVE db'.notes[j][2] = 1
      BY <2>1, <3>1, <3>2, <3>4 DEF Versions
    <3>5. Versions'
      BY <1>1, <3>1, <3>3, <3>4 DEF Versions
    <3> QED BY <1>11, <2>1, <3>1, <3>5
  <2> QED BY <1>14, <1>16, <2>2, <2>3, <2>4, <2>5 DEF OnNotes
<1>17. NotesCurrent'
  BY <1>1, <1>15, <1>16 DEF NotesCurrent
<1>18. screen = "post" => PostOrder'
  <2> SUFFICES ASSUME screen = "post" PROVE PostOrder'
    OBVIOUS
  <2>1. One(net', {"load"}) /\ One(net', {"notes"})
    BY OneAnswered DEF NotesHold, PostOrder
  <2> QED BY <1>1, <1>2, <2>1 DEF NotesHold, PostOrder
<1>19. ASSUME screen = "post", "thing" \notin spoiled'
       PROVE  /\ \A q \in Ok(net', {"load"}) : q.ans = [count |-> Len(db'.notes)]
              /\ \/ page.thing = null
                 \/ page.thing.count + Cardinality(Publishing(net')) = Len(db'.notes) + Cardinality(Dropping(net'))
  <2>1. /\ \A q \in Ok(net, {"load"}) : q.ans = [count |-> Len(db.notes)]
        /\ \/ page.thing = null
           \/ page.thing.count + Cardinality(Publishing(net)) = Len(db.notes) + Cardinality(Dropping(net))
    BY <1>1, <1>19 DEF NotesHold, CountCurrent
  <2>2. "thing" \in D!Part("publish") /\ "thing" \in D!Part("drop")
    BY <1>19, Parts
  <2>3. CASE (r.state = "failed" /\ db' = db) \/ r.kind \in {"notes", "delete", "load", "save"}
    <3>1. Len(db'.notes) = Len(db.notes)
      BY <1>8, <2>3 DEF News, NewNotes
    <3>2. Publishing(net') = Publishing(net) /\ Dropping(net') = Dropping(net)
      BY <1>4, <2>3
    <3>3. r.state = "ok" => NoteAnswer(db, r.kind, r.ans)
      BY <1>8 DEF Says1
    <3>4. \A q \in Ok(net', {"load"}) : q.ans = [count |-> Len(db.notes)]
      BY <1>3, <2>1, <3>3 DEF NoteAnswer
    <3> QED BY <2>1, <3>1, <3>2, <3>4
  <2>4. CASE News /\ r.state = "ok" /\ Says1 /\ r.kind \in {"publish", "drop"}
    <3>1. page.thing # null
      BY <1>2, <1>19, <2>4 DEF DetailTypes
    <3>2. ~Some(net, {"load"})
      BY <1>19, <3>1 DEF NotesHold, PostOrder
    <3>3. Ok(net', {"load"}) = {}
      BY <1>2, <3>2 DEF Ok, Some
    <3>4. IsFiniteSet(Dropping(net)) /\ Cardinality(Dropping(net)) \in Nat
      BY DroppingFinite DEF NotesHold
    <3>5. page.thing.count \in Nat
      <4>1. page.thing \in Told["post"] /\ Told["post"] = [count : Nat]
        BY <1>19, <3>1 DEF DetailTypes, ThingPages, Told
      <4> QED BY <4>1
    <3>6. Len(db.notes) \in Nat
      BY NoteNumbers
    <3>7. CASE r.kind = "publish"
      <4>1. /\ Len(db'.notes) = Len(db.notes) + 1 /\ Dropping(net') = Dropping(net)
            /\ Publishing(net) = {} /\ Publishing(net') = {r.ans[1]}
        BY <1>4, <2>4, <3>7 DEF News, NewNotes
      <4>2. Cardinality(Publishing(net)) = 0 /\ Cardinality(Publishing(net')) = 1
        BY <4>1, FS_EmptySet, FS_Singleton
      <4>3. page.thing.count + Cardinality(Publishing(net)) = Len(db.notes) + Cardinality(Dropping(net))
        BY <2>1, <3>1
      <4>4. page.thing.count + Cardinality(Publishing(net')) = Len(db'.notes) + Cardinality(Dropping(net'))
        BY <3>4, <3>5, <3>6, <4>1, <4>2, <4>3
      <4> QED BY <3>3, <4>4
    <3>8. CASE r.kind = "drop"
      <4>1. /\ Len(db'.notes) = Len(db.notes) - 1 /\ Dropping(net') = Dropping(net) \cup {r.arg}
            /\ Publishing(net') = Publishing(net) /\ r.arg \in Ids(db.notes)
        BY <1>4, <2>4, <3>8 DEF News, NewNotes
      <4>2. r.arg \notin Dropping(net)
        BY <1>5, <4>1
      <4>3. Cardinality(Dropping(net')) = Cardinality(Dropping(net)) + 1
        BY <3>4, <4>1, <4>2, FS_AddElement
      <4>4. Cardinality(Publishing(net)) \in Nat
        BY OnePublished
      <4>5. page.thing.count + Cardinality(Publishing(net)) = Len(db.notes) + Cardinality(Dropping(net))
        BY <2>1, <3>1
      <4>6. (Len(db.notes) - 1) + (Cardinality(Dropping(net)) + 1) = Len(db.notes) + Cardinality(Dropping(net))
        BY <3>4, <3>6
      <4>7. page.thing.count + Cardinality(Publishing(net')) = Len(db'.notes) + Cardinality(Dropping(net'))
        BY <4>1, <4>3, <4>5, <4>6
      <4> QED BY <3>3, <4>7
    <3> QED BY <2>4, <3>7, <3>8
  <2> QED BY <1>1, <1>8, <1>19, <2>2, <2>3, <2>4
<1>20. screen = "post" => CountCurrent'
  BY <1>1, <1>11, <1>19 DEF CountCurrent, NotesHold
<1> QED BY <1>1, <1>10, <1>17, <1>18, <1>20 DEF NotesHold

\* The answers that are there about comments, after one of them was taken.
LEMMA NotesLeft ==
  ASSUME DetailTypes, NotesKept, One(net, {"publish"}), One(net, {"save"}), NEW i \in DOMAIN net, net' = D!RemoveAt(net, i)
  PROVE  LET r == net[i]
         IN  /\ Publishing(net') \subseteq Publishing(net) /\ Dropping(net') \subseteq Dropping(net) /\ DroppedOnce(net')
             /\ r.state # "ok" \/ r.kind # "publish" => Publishing(net') = Publishing(net)
             /\ r.state # "ok" \/ r.kind # "drop" => Dropping(net') = Dropping(net)
             /\ r.state # "ok" \/ r.kind # "save" => Saving(net') = Saving(net)
             /\ r.state = "ok" /\ r.kind = "publish" => Publishing(net) = {r.ans[1]} /\ Publishing(net') = {}
             /\ r.state = "ok" /\ r.kind = "drop" => r.arg \in Dropping(net) /\ Dropping(net') = Dropping(net) \ {r.arg}
             /\ r.state = "ok" /\ r.kind = "save" => Saving(net) = {r.arg} /\ Saving(net') = {}
<1> DEFINE r == net[i]
<1>1. /\ \A K : Ok(net', K) \subseteq Ok(net, K) /\ Ok(net, K) \subseteq Ok(net', K) \cup {r}
      /\ \A K : r.state # "ok" \/ r.kind \notin K => Ok(net', K) = Ok(net, K)
      /\ \A K : r.state = "ok" /\ r.kind \in K => r \in Ok(net, K)
  BY OkLeft
<1>2. net \in Seq(Calls(screen))
  BY DEF DetailTypes
<1>3. /\ \A q \in Way(net') : \E k \in DOMAIN net \ {i} : q = net[k]
      /\ \A a, b \in DOMAIN net' : a # b => \E k, l \in DOMAIN net \ {i} : k # l /\ net'[a] = net[k] /\ net'[b] = net[l]
  BY <1>2, NetTaken
<1>4. DroppedOnce(net)
  BY DEF NotesKept
<1> HIDE DEF r
<1>5. Publishing(net') \subseteq Publishing(net) /\ Dropping(net') \subseteq Dropping(net)
  BY <1>1 DEF Publishing, Dropping
<1>6. DroppedOnce(net')
  <2> SUFFICES ASSUME NEW a \in DOMAIN net', NEW b \in DOMAIN net', a # b, net'[a] \in Ok(net', {"drop"}),
                      net'[b] \in Ok(net', {"drop"}), net'[a].arg = net'[b].arg
               PROVE  FALSE
    BY DEF DroppedOnce
  <2> QED BY <1>1, <1>3, <1>4 DEF DroppedOnce
<1>7. /\ r.state # "ok" \/ r.kind # "publish" => Publishing(net') = Publishing(net)
      /\ r.state # "ok" \/ r.kind # "drop" => Dropping(net') = Dropping(net)
      /\ r.state # "ok" \/ r.kind # "save" => Saving(net') = Saving(net)
  <2>1. /\ r.state # "ok" \/ r.kind # "publish" => Ok(net', {"publish"}) = Ok(net, {"publish"})
        /\ r.state # "ok" \/ r.kind # "drop" => Ok(net', {"drop"}) = Ok(net, {"drop"})
        /\ r.state # "ok" \/ r.kind # "save" => Ok(net', {"save"}) = Ok(net, {"save"})
    BY <1>1
  <2> QED BY <2>1 DEF Publishing, Dropping, Saving
<1>8. ASSUME r.state = "ok", NEW K, r.kind \in K, One(net, K) PROVE Ok(net, K) = {r} /\ Ok(net', K) = {}
  <2>1. Ok(net, K) = {r}
    BY <1>1, <1>8, OneOk
  <2>2. ~Some(net', K)
    BY <1>8, OneLeft DEF r
  <2>3. Ok(net', K) = {}
    BY <2>2 DEF Some, Ok
  <2> QED BY <2>1, <2>3
<1>9. ASSUME r.state = "ok", r.kind = "publish" PROVE Publishing(net) = {r.ans[1]} /\ Publishing(net') = {}
  <2>1. Ok(net, {"publish"}) = {r} /\ Ok(net', {"publish"}) = {}
    BY <1>8, <1>9
  <2> QED BY <2>1 DEF Publishing
<1>10. ASSUME r.state = "ok", r.kind = "save" PROVE Saving(net) = {r.arg} /\ Saving(net') = {}
  <2>1. Ok(net, {"save"}) = {r} /\ Ok(net', {"save"}) = {}
    BY <1>8, <1>10
  <2> QED BY <2>1 DEF Saving
<1>11. ASSUME r.state = "ok", r.kind = "drop" PROVE r.arg \in Dropping(net) /\ Dropping(net') = Dropping(net) \ {r.arg}
  <2>1. r \in Ok(net, {"drop"})
    BY <1>1, <1>11
  <2>2. \A q \in Ok(net', {"drop"}) : q \in Ok(net, {"drop"}) /\ q.arg # r.arg
    <3>1. ASSUME NEW q \in Ok(net', {"drop"}), q.arg = r.arg PROVE FALSE
      <4>1. PICK k \in DOMAIN net \ {i} : q = net[k]
        BY <1>3 DEF Ok
      <4>2. net[k] \in Ok(net, {"drop"})
        BY <1>1, <4>1
      <4> QED BY <1>4, <2>1, <3>1, <4>1, <4>2 DEF DroppedOnce, r
    <3> QED BY <1>1, <3>1
  <2>3. \A q \in Ok(net, {"drop"}) : q = r \/ q \in Ok(net', {"drop"})
    BY <1>1
  <2>4. \A n : n \in Dropping(net') <=> n \in Dropping(net) /\ n # r.arg
    BY <2>2, <2>3 DEF Dropping
  <2> QED BY <2>1, <2>4 DEF Dropping
<1> QED BY <1>5, <1>6, <1>7, <1>9, <1>10, <1>11 DEF r

\* What the answer of request r makes of the comments of a page, and of their number.
NotesBy(r, notes, e) ==
    /\ r.state = "failed" \/ r.kind = "delete" => e = notes
    /\ r.state = "ok" /\ r.kind = "notes" => e = r.ans
    /\ r.state = "ok" /\ r.kind = "publish" => e = Append(notes, r.ans)
    /\ r.state = "ok" /\ r.kind = "drop" => e = D!Without(notes, r.arg)
    /\ r.state = "ok" /\ r.kind = "save" => e = [k \in DOMAIN notes |-> IF notes[k][1] = r.arg THEN <<r.arg, 2>> ELSE notes[k]]
ThingBy(r, thing, e) ==
    IF screen = "post" /\ r.state = "ok" /\ r.kind = "publish" THEN e = [thing EXCEPT !.count = @ + 1]
    ELSE IF screen = "post" /\ r.state = "ok" /\ r.kind = "drop" THEN e = [thing EXCEPT !.count = IF @ = 0 THEN 0 ELSE @ - 1]
    ELSE e = thing

LEMMA NotesTaken ==
  ASSUME DetailTypes, NotesHold, screen \in D!WithNotes, One(net, {"publish"}), One(net, {"save"}),
         NEW i \in DOMAIN net, net[i].kind # "load", net[i].state # "sent", net' = D!RemoveAt(net, i),
         UNCHANGED <<screen, db, spoiled>>, NotesBy(net[i], page.notes, page'.notes), ThingBy(net[i], page.thing, page'.thing),
         page'.loading = IF net[i].kind = "notes" THEN FALSE ELSE page.loading
  PROVE  NotesHold'
<1> DEFINE r == net[i]
<1>1. /\ r \in Calls(screen) /\ r \in Way(net) /\ Way(net') \subseteq Way(net) /\ Way(net) \subseteq Way(net') \cup {r}
  BY NetLeft
<1>2. /\ r.kind \in {"notes", "publish", "save", "drop", "delete"} /\ r.state \in {"ok", "failed"}
      /\ r.kind \in {"save", "drop"} => r.arg \in Nat
      /\ r.state = "ok" /\ r.kind = "publish" => r.ans \in Nat \X {1, 2}
      /\ r.state = "ok" /\ r.kind = "notes" => r.ans \in Notes
  <2>1. r.kind \in {"load", "notes", "publish", "save", "drop", "delete"} /\ r.state \in {"sent", "ok", "failed"} /\ Fits(screen, r)
    BY <1>1 DEF Calls, KindsOf, D!WithNotes
  <2> QED BY <2>1 DEF Fits
<1>3. /\ \A K : Ok(net', K) \subseteq Ok(net, K)
      /\ \A K : r.state # "ok" \/ r.kind \notin K => Ok(net', K) = Ok(net, K)
      /\ \A K : r.state = "ok" /\ r.kind \in K => r \in Ok(net, K)
      /\ \A K : Some(net', K) => Some(net, K)
      /\ \A K : r.kind \notin K => (Some(net', K) <=> Some(net, K))
      /\ \A K : r.kind \in K => Some(net, K)
  BY OkLeft
<1>4. \A K : One(net, K) => One(net', K) /\ (r.kind \in K => ~Some(net', K) /\ \A q \in Way(net) : q.kind \in K => q = r)
  BY OneLeft
<1>5. /\ Publishing(net') \subseteq Publishing(net) /\ Dropping(net') \subseteq Dropping(net) /\ DroppedOnce(net')
      /\ r.state # "ok" \/ r.kind # "publish" => Publishing(net') = Publishing(net)
      /\ r.state # "ok" \/ r.kind # "drop" => Dropping(net') = Dropping(net)
      /\ r.state # "ok" \/ r.kind # "save" => Saving(net') = Saving(net)
      /\ r.state = "ok" /\ r.kind = "publish" => Publishing(net) = {r.ans[1]} /\ Publishing(net') = {}
      /\ r.state = "ok" /\ r.kind = "drop" => r.arg \in Dropping(net) /\ Dropping(net') = Dropping(net) \ {r.arg}
      /\ r.state = "ok" /\ r.kind = "save" => Saving(net) = {r.arg} /\ Saving(net') = {}
  BY NotesLeft DEF NotesHold
<1>6. /\ Ascending(db.notes) /\ \A n \in Ids(db.notes) : n < db.next
      /\ \A q \in Ok(net, {"publish"}) : q.ans[2] = 1 /\ q.ans[1] < db.next
      /\ \A n \in Dropping(net) : n \notin Ids(db.notes)
      /\ \A n \in Ids(page.notes) : n < db.next
      /\ \A q \in Ok(net, {"notes"}) : \A n \in Ids(q.ans) : n < db.next
      /\ \A q \in Way(net) : q.kind \in {"save", "drop"} => q.arg < db.next
  BY DEF NotesHold, NotesKept
<1>7. /\ db.notes \in Notes /\ Ids(db.notes) \subseteq Nat /\ db.next \in Nat /\ Len(db.notes) \in Nat
      /\ page.notes \in Notes /\ Ids(page.notes) \subseteq Nat
  BY NoteNumbers
\* The comments the page shows then.
<1>8. /\ r.state = "failed" \/ r.kind = "delete" => page'.notes = page.notes
      /\ r.state = "ok" /\ r.kind = "notes" => page'.notes = r.ans
      /\ r.state = "ok" /\ r.kind = "publish" => page'.notes = Append(page.notes, r.ans)
      /\ r.state = "ok" /\ r.kind = "drop" => page'.notes = D!Without(page.notes, r.arg)
      /\ r.state = "ok" /\ r.kind = "save"
           => page'.notes = [k \in DOMAIN page.notes |-> IF page.notes[k][1] = r.arg THEN <<r.arg, 2>> ELSE page.notes[k]]
  BY DEF NotesBy
<1> HIDE DEF r
<1>9. r.state = "ok" /\ r.kind = "publish" =>
        /\ r.ans = <<r.ans[1], 1>> /\ r.ans[1] \in Nat /\ r.ans[1] < db.next /\ Ids(page'.notes) = Ids(page.notes) \cup {r.ans[1]}
        /\ \A j \in DOMAIN page'.notes : page'.notes[j] = r.ans \/ \E k \in DOMAIN page.notes : page'.notes[j] = page.notes[k]
        /\ Ascending(page.notes) /\ (\A k \in Ids(page.notes) : k < r.ans[1]) => Ascending(page'.notes)
  <2> SUFFICES ASSUME r.state = "ok", r.kind = "publish"
               PROVE  /\ r.ans = <<r.ans[1], 1>> /\ r.ans[1] \in Nat /\ r.ans[1] < db.next /\ Ids(page'.notes) = Ids(page.notes) \cup {r.ans[1]}
                      /\ \A j \in DOMAIN page'.notes : page'.notes[j] = r.ans \/ \E k \in DOMAIN page.notes : page'.notes[j] = page.notes[k]
                      /\ Ascending(page.notes) /\ (\A k \in Ids(page.notes) : k < r.ans[1]) => Ascending(page'.notes)
    OBVIOUS
  <2>1. r.ans[2] = 1 /\ r.ans[1] < db.next
    BY <1>3, <1>6
  <2>2. r.ans = <<r.ans[1], 1>> /\ r.ans[1] \in Nat
    BY <1>2, <2>1
  <2> DEFINE n == r.ans[1]
             more == Append(page.notes, <<n, 1>>)
  <2>3. page'.notes = more /\ n \in Nat /\ r.ans = <<n, 1>> /\ n < db.next
    BY <1>8, <2>1, <2>2
  <2> HIDE DEF n
  <2>4. 1 \in {1, 2}
    OBVIOUS
  <2>5. /\ Ids(more) = Ids(page.notes) \cup {n}
        /\ \A j \in DOMAIN more : more[j] = <<n, 1>> \/ \E k \in DOMAIN page.notes : more[j] = page.notes[k]
        /\ Ascending(page.notes) /\ (\A k \in Ids(page.notes) : k < n) => Ascending(more)
    <3> HIDE DEF more
    <3> QED BY <1>7, <2>3, <2>4, NoteAdded DEF more
  <2> HIDE DEF more
  <2>6. /\ r.ans = <<n, 1>> /\ n \in Nat /\ n < db.next /\ Ids(page'.notes) = Ids(page.notes) \cup {n}
        /\ \A j \in DOMAIN page'.notes : page'.notes[j] = r.ans \/ \E k \in DOMAIN page.notes : page'.notes[j] = page.notes[k]
        /\ Ascending(page.notes) /\ (\A k \in Ids(page.notes) : k < n) => Ascending(page'.notes)
    BY <2>3, <2>5
  <2> QED BY <2>6 DEF n
<1>10. r.state = "ok" /\ r.kind = "drop" =>
         /\ Ids(page'.notes) \subseteq Ids(page.notes)
         /\ \A j \in DOMAIN page'.notes : \E k \in DOMAIN page.notes : page'.notes[j] = page.notes[k]
         /\ Ascending(page.notes) => Ascending(page'.notes) /\ Ids(page'.notes) = Ids(page.notes) \ {r.arg}
  <2>1. r.state = "ok" /\ r.kind = "drop" =>
          /\ \A j \in DOMAIN page'.notes : \E k \in DOMAIN page.notes : page'.notes[j] = page.notes[k]
          /\ Ascending(page.notes) => Ascending(page'.notes) /\ Ids(page'.notes) = Ids(page.notes) \ {r.arg}
    BY <1>7, <1>8, NoteDropped
  <2> QED BY <2>1 DEF Ids
<1>11. r.state = "ok" /\ r.kind = "save" =>
         /\ Ids(page'.notes) = Ids(page.notes) /\ DOMAIN page'.notes = DOMAIN page.notes
         /\ \A k \in DOMAIN page.notes : /\ page'.notes[k][1] = page.notes[k][1]
                                         /\ page'.notes[k][2] = IF page.notes[k][1] = r.arg THEN 2 ELSE page.notes[k][2]
         /\ Ascending(page.notes) => Ascending(page'.notes)
  BY <1>2, <1>7, <1>8, NoteChanged
<1>12. NotesKept'
  <2>1. \A n \in Ids(page'.notes) : n < db.next
    <3>1. CASE r.state = "failed" \/ r.kind = "delete"
      BY <1>6, <1>8, <3>1
    <3>2. CASE r.state = "ok" /\ r.kind = "notes"
      BY <1>3, <1>6, <1>8, <3>2
    <3>3. CASE r.state = "ok" /\ r.kind = "publish"
      BY <1>6, <1>9, <3>3
    <3>4. CASE r.state = "ok" /\ r.kind \in {"drop", "save"}
      BY <1>6, <1>10, <1>11, <3>4
    <3> QED BY <1>2, <3>1, <3>2, <3>3, <3>4
  <2> QED BY <1>1, <1>3, <1>5, <1>6, <2>1 DEF NotesKept
<1>13. ASSUME Unseen, r.kind = "notes" => Publishing(net) = {} PROVE Unseen'
  <2> SUFFICES ASSUME NEW n \in Publishing(net')
               PROVE  /\ n \in Ids(db.notes)
                      /\ \A k \in Ids(page'.notes) : k < n
                      /\ \A q \in Way(net') : q.kind \in {"save", "drop"} => q.arg # n
    BY DEF Unseen
  <2>1. /\ n \in Ids(db.notes)
        /\ \A k \in Ids(page.notes) : k < n
        /\ \A q \in Way(net) : q.kind \in {"save", "drop"} => q.arg # n
    BY <1>5, <1>13 DEF Unseen
  <2>2. Ids(page'.notes) \subseteq Ids(page.notes)
    BY <1>2, <1>5, <1>8, <1>10, <1>11, <1>13
  <2> QED BY <1>1, <2>1, <2>2
\* A post is there before its comments.
<1>14. screen = "post" => /\ page.thing # null /\ page.thing \in [count : Nat] /\ page'.thing \in [count : Nat] /\ page'.thing # null
                          /\ page'.thing.count =
                               IF r.state = "ok" /\ r.kind = "publish" THEN page.thing.count + 1
                               ELSE IF r.state = "ok" /\ r.kind = "drop" /\ page.thing.count # 0 THEN page.thing.count - 1
                               ELSE page.thing.count
  <2> SUFFICES ASSUME screen = "post"
               PROVE  /\ page.thing # null /\ page.thing \in [count : Nat] /\ page'.thing \in [count : Nat] /\ page'.thing # null
                      /\ page'.thing.count =
                           IF r.state = "ok" /\ r.kind = "publish" THEN page.thing.count + 1
                           ELSE IF r.state = "ok" /\ r.kind = "drop" /\ page.thing.count # 0 THEN page.thing.count - 1
                           ELSE page.thing.count
    OBVIOUS
  <2>1. page.thing # null
    BY <1>1, <1>2 DEF DetailTypes
  <2>2. page.thing \in Told["post"] /\ Told["post"] = [count : Nat]
    BY <2>1 DEF DetailTypes, ThingPages, Told
  <2>3. PICK n \in Nat : page.thing = [count |-> n]
    BY <2>2
  <2>4. page'.thing = [count |-> IF r.state = "ok" /\ r.kind = "publish" THEN n + 1
                                ELSE IF r.state = "ok" /\ r.kind = "drop" /\ n # 0 THEN n - 1
                                ELSE n]
    <3>1. CASE r.state = "ok" /\ r.kind = "publish"
      BY <2>3, <3>1 DEF ThingBy, r
    <3>2. CASE r.state = "ok" /\ r.kind = "drop"
      BY <2>3, <3>2 DEF ThingBy, r
    <3>3. CASE ~(r.state = "ok" /\ r.kind \in {"publish", "drop"})
      BY <2>3, <3>3 DEF ThingBy, r
    <3> QED BY <3>1, <3>2, <3>3
  <2>5. page'.thing \in [count : Nat]
    BY <2>4
  <2>6. page'.thing # null
    BY <2>5, ScreensAssumption
  <2> QED BY <2>1, <2>2, <2>3, <2>4, <2>5, <2>6
<1>15. screen # "post" => page'.thing = page.thing
  BY DEF ThingBy
<1>16. ASSUME "notes" \notin spoiled
       PROVE  /\ Some(net, {"notes"}) => One(net, OnNotes \cup {"notes"})
              /\ \A q \in Way(net) : q.kind = "notes" => q.state # "failed"
              /\ \A q \in Ok(net, {"notes"}) : q.ans = db.notes
              /\ \/ Some(net, {"notes"}) \/ page.thing = null
                 \/ /\ Ascending(page.notes) /\ Unseen /\ Versions
                    /\ \A n : n \in Ids(db.notes) <=> n \in Ids(page.notes) \cup Publishing(net) /\ n \notin Dropping(net)
  BY <1>16 DEF NotesHold, NotesCurrent
<1>17. ASSUME "notes" \notin spoiled, ~Some(net', {"notes"}), page'.thing # null
       PROVE  /\ Ascending(page'.notes) /\ Unseen' /\ Versions'
              /\ \A n : n \in Ids(db.notes) <=> n \in Ids(page'.notes) \cup Publishing(net') /\ n \notin Dropping(net')
  <2>1. CASE r.kind = "notes"
    <3>1. r.state = "ok" /\ page'.notes = db.notes
      BY <1>1, <1>2, <1>3, <1>8, <1>16, <1>17, <2>1
    <3>2. ~Some(net', OnNotes)
      <4>1. ~Some(net', OnNotes \cup {"notes"})
        BY <1>3, <1>4, <1>16, <1>17, <2>1
      <4> QED BY <4>1 DEF Some
    <3>3. Publishing(net') = {} /\ Dropping(net') = {} /\ Saving(net') = {}
      <4>1. Ok(net', {"publish"}) = {} /\ Ok(net', {"drop"}) = {} /\ Ok(net', {"save"}) = {}
        BY <3>2 DEF Ok, Some, OnNotes
      <4> QED BY <4>1 DEF Publishing, Dropping, Saving
    <3>4. Unseen'
      BY <3>3 DEF Unseen
    <3>5. \A j, k \in DOMAIN db.notes : db.notes[j][1] = db.notes[k][1] => j = k
      <4>1. \A k \in DOMAIN db.notes : k \in Nat /\ db.notes[k][1] \in Nat
        BY <1>7 DEF Notes, Ids
      <4> QED BY <1>6, <4>1 DEF Ascending
    <3>6. Versions'
      BY <3>1, <3>3, <3>5 DEF Versions
    <3> QED BY <1>6, <3>1, <3>3, <3>4, <3>6
  <2>2. CASE r.kind # "notes"
    <3>1. ~Some(net, {"notes"}) /\ page.thing # null
      BY <1>3, <1>14, <1>15, <1>17, <2>2
    <3>2. /\ Ascending(page.notes) /\ Unseen /\ Versions
          /\ \A n : n \in Ids(db.notes) <=> n \in Ids(page.notes) \cup Publishing(net) /\ n \notin Dropping(net)
      BY <1>16, <1>17, <3>1
    <3>3. Unseen'
      BY <1>13, <2>2, <3>2
    <3>4. CASE r.state = "failed" \/ r.kind = "delete"
      <4>1. Publishing(net') = Publishing(net) /\ Dropping(net') = Dropping(net) /\ Saving(net') = Saving(net) /\ page'.notes = page.notes
        BY <1>5, <1>8, <3>4
      <4>2. Versions'
        BY <3>2, <4>1 DEF Versions
      <4> QED BY <3>2, <3>3, <4>1, <4>2
    <3>5. CASE r.state = "ok" /\ r.kind = "publish"
      <4>1. /\ Publishing(net) = {r.ans[1]} /\ Publishing(net') = {} /\ Dropping(net') = Dropping(net) /\ Saving(net') = Saving(net)
        BY <1>5, <3>5
      <4>2. \A k \in Ids(page.notes) : k < r.ans[1]
        BY <3>2, <4>1 DEF Unseen
      <4>3. r.ans[1] \notin Saving(net)
        BY <3>2, <4>1 DEF Unseen, Saving, Ok
      <4>4. ASSUME NEW j \in DOMAIN db.notes, NEW k \in DOMAIN page'.notes, db.notes[j][1] = page'.notes[k][1]
            PROVE  db.notes[j][2] = IF db.notes[j][1] \in Saving(net') THEN 2 ELSE page'.notes[k][2]
        <5>1. CASE page'.notes[k] = r.ans
          <6>1. db.notes[j][1] = r.ans[1] /\ page'.notes[k][2] = 1
            BY <1>9, <3>5, <4>4, <5>1
          <6>2. db.notes[j][2] = 1
            BY <3>2, <4>1, <6>1 DEF Versions
          <6> QED BY <4>1, <4>3, <6>1, <6>2
        <5>2. ASSUME NEW l \in DOMAIN page.notes, page'.notes[k] = page.notes[l]
              PROVE  db.notes[j][2] = IF db.notes[j][1] \in Saving(net') THEN 2 ELSE page'.notes[k][2]
          BY <3>2, <4>1, <4>4, <5>2 DEF Versions
        <5> QED BY <1>9, <3>5, <5>1, <5>2
      <4>5. Versions'
        BY <4>1, <4>4 DEF Versions
      <4>6. Ascending(page'.notes) /\ Ids(page'.notes) = Ids(page.notes) \cup {r.ans[1]}
        BY <1>9, <3>2, <3>5, <4>2
      <4> QED BY <3>2, <3>3, <4>1, <4>5, <4>6
    <3>6. CASE r.state = "ok" /\ r.kind = "drop"
      <4>1. /\ r.arg \in Dropping(net) /\ Dropping(net') = Dropping(net) \ {r.arg}
            /\ Publishing(net') = Publishing(net) /\ Saving(net') = Saving(net)
            /\ Ascending(page'.notes) /\ Ids(page'.notes) = Ids(page.notes) \ {r.arg}
            /\ \A j \in DOMAIN page'.notes : \E k \in DOMAIN page.notes : page'.notes[j] = page.notes[k]
        BY <1>5, <1>10, <3>2, <3>6
      <4>2. r.arg \notin Publishing(net)
        BY <1>1, <3>2, <3>6 DEF Unseen
      <4>3. Versions'
        BY <3>2, <4>1 DEF Versions
      <4>4. r.arg \notin Ids(db.notes)
        BY <1>6, <4>1
      <4> QED BY <3>2, <3>3, <4>1, <4>2, <4>3, <4>4
    <3>7. CASE r.state = "ok" /\ r.kind = "save"
      <4>1. /\ Saving(net) = {r.arg} /\ Saving(net') = {} /\ Publishing(net') = Publishing(net) /\ Dropping(net') = Dropping(net)
            /\ Ids(page'.notes) = Ids(page.notes) /\ DOMAIN page'.notes = DOMAIN page.notes /\ Ascending(page'.notes)
            /\ \A k \in DOMAIN page.notes : /\ page'.notes[k][1] = page.notes[k][1]
                                            /\ page'.notes[k][2] = IF page.notes[k][1] = r.arg THEN 2 ELSE page.notes[k][2]
        BY <1>5, <1>11, <3>2, <3>7
      <4>2. Versions'
        BY <3>2, <4>1 DEF Versions
      <4> QED BY <3>2, <3>3, <4>1, <4>2
    <3> QED BY <1>2, <2>2, <3>4, <3>5, <3>6, <3>7
  <2> QED BY <2>1, <2>2
<1>18. NotesCurrent'
  <2>1. ASSUME "notes" \notin spoiled PROVE Some(net', {"notes"}) => One(net', OnNotes \cup {"notes"})
    BY <1>3, <1>4, <1>16, <2>1
  <2> QED BY <1>1, <1>3, <1>16, <1>17, <2>1 DEF NotesCurrent
<1>19. screen = "post" => PostOrder'
  <2> SUFFICES ASSUME screen = "post" PROVE PostOrder'
    OBVIOUS
  <2>1. PostOrder
    BY DEF NotesHold
  <2>2. One(net', {"load"}) /\ One(net', {"notes"}) /\ (r.kind = "notes" => ~Some(net', {"notes"}))
    BY <1>4, <2>1 DEF PostOrder
  <2>3. page'.loading = IF r.kind = "notes" THEN FALSE ELSE page.loading
    BY DEF r
  <2> QED BY <1>3, <1>14, <2>1, <2>2, <2>3 DEF PostOrder
<1>20. screen = "post" => Unseen'
  <2> SUFFICES ASSUME screen = "post" PROVE Unseen'
    OBVIOUS
  <2>1. Unseen
    BY DEF NotesHold, CountCurrent
  <2>2. r.kind = "notes" => Publishing(net) = {}
    <3>1. r.kind = "notes" => ~Some(net, OnNotes)
      BY <1>3 DEF NotesHold, PostOrder
    <3>2. ~Some(net, OnNotes) => Ok(net, {"publish"}) = {}
      BY DEF Some, Ok, OnNotes
    <3> QED BY <3>1, <3>2 DEF Publishing
  <2> QED BY <1>13, <2>1, <2>2
<1>21. ASSUME screen = "post", "thing" \notin spoiled
       PROVE  /\ \A q \in Ok(net', {"load"}) : q.ans = [count |-> Len(db.notes)]
              /\ page'.thing.count + Cardinality(Publishing(net')) = Len(db.notes) + Cardinality(Dropping(net'))
  <2>1. /\ \A q \in Ok(net, {"load"}) : q.ans = [count |-> Len(db.notes)]
        /\ page.thing.count + Cardinality(Publishing(net)) = Len(db.notes) + Cardinality(Dropping(net))
        /\ Unseen
    BY <1>14, <1>21 DEF NotesHold, CountCurrent
  <2>2. page.thing.count \in Nat
    BY <1>14, <1>21
  <2>3. IsFiniteSet(Dropping(net)) /\ Cardinality(Dropping(net)) \in Nat
    BY DroppingFinite DEF NotesHold
  <2>4. Cardinality(Publishing(net)) = IF Publishing(net) = {} THEN 0 ELSE 1
    BY OnePublished
  <2>5. page'.thing.count + Cardinality(Publishing(net')) = Len(db.notes) + Cardinality(Dropping(net'))
    <3>1. CASE ~(r.state = "ok" /\ r.kind \in {"publish", "drop"})
      BY <1>5, <1>14, <1>21, <2>1, <3>1
    <3>2. CASE r.state = "ok" /\ r.kind = "publish"
      <4>1. Publishing(net) # {} /\ Publishing(net') = {} /\ Dropping(net') = Dropping(net) /\ page'.thing.count = page.thing.count + 1
        BY <1>5, <1>14, <1>21, <3>2
      <4>2. Cardinality(Publishing(net')) = 0
        BY <4>1, FS_EmptySet
      <4>3. Cardinality(Publishing(net)) = 1
        BY <2>4, <4>1
      <4> QED BY <1>7, <2>1, <2>2, <2>3, <4>1, <4>2, <4>3
    <3>3. CASE r.state = "ok" /\ r.kind = "drop"
      <4>1. /\ Publishing(net') = Publishing(net) /\ Dropping(net') = Dropping(net) \ {r.arg} /\ r.arg \in Dropping(net)
            /\ page'.thing.count = IF page.thing.count # 0 THEN page.thing.count - 1 ELSE page.thing.count
        BY <1>5, <1>14, <1>21, <3>3
      <4>2. Cardinality(Dropping(net')) = Cardinality(Dropping(net)) - 1
        BY <2>3, <4>1, FS_RemoveElement
      <4>3. Cardinality(Dropping(net)) # 0
        BY <2>3, <4>1, FS_EmptySet
      <4>4. Publishing(net) # {} => Len(db.notes) # 0
        <5>1. \A n \in Publishing(net) : n \in Ids(db.notes)
          BY <2>1 DEF Unseen
        <5>2. Len(db.notes) = 0 => DOMAIN db.notes = {}
          BY <1>7 DEF Notes
        <5> QED BY <5>1, <5>2 DEF Ids
      <4>5. page.thing.count # 0
        BY <1>7, <2>1, <2>2, <2>3, <2>4, <4>3, <4>4
      <4>6. page'.thing.count = page.thing.count - 1
        BY <4>1, <4>5
      <4>7. Cardinality(Publishing(net')) = Cardinality(Publishing(net)) /\ Cardinality(Publishing(net)) \in Nat
        BY <2>4, <4>1
      <4> DEFINE count == page.thing.count
                 published == Cardinality(Publishing(net))
                 length == Len(db.notes)
                 dropped == Cardinality(Dropping(net))
      <4>8. /\ count \in Nat /\ published \in Nat /\ length \in Nat /\ dropped \in Nat
            /\ count + published = length + dropped
        BY <1>7, <2>1, <2>2, <2>3, <4>7
      <4>9. /\ page'.thing.count = count - 1 /\ Cardinality(Publishing(net')) = published
            /\ Cardinality(Dropping(net')) = dropped - 1
        BY <4>2, <4>6, <4>7
      <4> HIDE DEF count, published, length, dropped
      <4>10. (count - 1) + published = length + (dropped - 1)
        BY <4>8
      <4> QED BY <4>9, <4>10 DEF length
    <3> QED BY <1>2, <3>1, <3>2, <3>3
  <2> QED BY <1>3, <2>1, <2>5
<1>22. screen = "post" => CountCurrent'
  BY <1>20, <1>21 DEF CountCurrent
<1> QED BY <1>12, <1>18, <1>19, <1>22 DEF NotesHold

\* The post came: its comments are asked for.
LEMMA NotesAsked ==
  ASSUME DetailTypes, NotesHold, screen = "post", page.thing = null, NEW i \in DOMAIN net,
         net[i].kind = "load", net[i].state = "ok", NEW r \in Calls(screen), r.kind = "notes", r.state = "sent",
         D!SendsAll(D!RemoveAt(net, i), <<r>>), UNCHANGED <<screen, db>>,
         page'.thing = net[i].ans, page'.notes = page.notes, page'.loading = page.loading
  PROVE  NotesHold'
<1> DEFINE rest == D!RemoveAt(net, i)
<1>1. rest \in Seq(Calls(screen)) /\ net[i] \in Way(net) /\ Way(rest) \subseteq Way(net)
  BY NetLeft
<1>2. One(net, {"load"}) /\ page.loading
  BY DEF NotesHold, PostOrder
<1>3. Way(rest) = {}
  <2>1. ~Some(rest, {"load"})
    BY <1>2, OneLeft
  <2>2. \A q \in Way(rest) : q.kind = "load"
    BY <1>1 DEF DetailTypes
  <2> HIDE DEF rest
  <2> QED BY <2>1, <2>2 DEF Some
<1> HIDE DEF rest
<1>4. /\ net' = Append(rest, r) /\ Way(net') = {r}
      /\ \A x : x \in spoiled /\ x \notin spoiled' => x \in D!Part("notes")
  BY <1>1, <1>3, Sending DEF rest
<1>5. \A K : One(net', K)
  <2> SUFFICES ASSUME NEW K PROVE One(net', K)
    OBVIOUS
  <2>1. One(rest, K) /\ ~Some(rest, K)
    BY <1>3 DEF One, Some, Way
  <2> QED BY <1>1, <1>4, <2>1, OneSent
<1>6. \A K : Ok(net', K) = {}
  BY <1>4 DEF Ok
<1>7. Publishing(net') = {} /\ Dropping(net') = {} /\ Saving(net') = {}
  BY <1>6 DEF Publishing, Dropping, Saving
<1>8. NotesKept'
  <2>1. DroppedOnce(net')
    BY <1>6 DEF DroppedOnce
  <2> QED BY <1>4, <1>6, <1>7, <2>1 DEF NotesHold, NotesKept
<1>9. NotesCurrent'
  BY <1>4, <1>5, <1>6 DEF NotesCurrent, Some
<1>10. PostOrder'
  BY <1>2, <1>4, <1>5 DEF PostOrder, Some, OnNotes
<1>11. "thing" \notin spoiled' => page'.thing = [count |-> Len(db.notes)]
  <2>1. "thing" \notin spoiled' => "thing" \notin spoiled
    BY <1>4, Parts
  <2>2. net[i] \in Ok(net, {"load"})
    BY <1>1 DEF Ok
  <2> QED BY <2>1, <2>2 DEF NotesHold, CountCurrent
<1>12. CountCurrent'
  <2>1. Cardinality(Publishing(net')) = 0 /\ Cardinality(Dropping(net')) = 0
    BY <1>7, FS_EmptySet
  <2>2. Len(db.notes) \in Nat
    BY NoteNumbers
  <2>3. Unseen'
    BY <1>7 DEF Unseen
  <2>4. "thing" \notin spoiled' => page'.thing.count = Len(db.notes)
    BY <1>11
  <2>5. "thing" \notin spoiled' => page'.thing.count + Cardinality(Publishing(net')) = Len(db.notes) + Cardinality(Dropping(net'))
    BY <2>1, <2>2, <2>4
  <2> QED BY <1>6, <2>3, <2>5 DEF CountCurrent
<1> QED BY <1>8, <1>9, <1>10, <1>12 DEF NotesHold

LEMMA NotesRest ==
  ASSUME NotesHold, UNCHANGED <<screen, net>>, page'.notes = page.notes, page'.thing = page.thing, page'.loading = page.loading,
         db'.notes = db.notes, db'.next = db.next, spoiled \subseteq spoiled'
  PROVE  NotesHold'
<1>1. NotesKept'
  BY DEF NotesHold, NotesKept
<1>2. (Unseen => Unseen') /\ (Versions => Versions')
  BY DEF Unseen, Versions
<1>3. NotesCurrent'
  BY <1>2 DEF NotesHold, NotesCurrent
<1>4. screen = "post" => PostOrder'
  BY DEF NotesHold, PostOrder
<1>5. screen = "post" => CountCurrent'
  BY <1>2 DEF NotesHold, CountCurrent
<1> QED BY <1>1, <1>3, <1>4, <1>5 DEF NotesHold

\* Somebody else writes a comment.
LEMMA NotesMoved ==
  ASSUME DetailTypes, NotesHold, UNCHANGED <<screen, net, page>>,
         db' = [db EXCEPT !.notes = Append(@, <<db.next, 1>>), !.next = @ + 1], {"notes", "thing"} \subseteq spoiled'
  PROVE  NotesHold'
<1>1. /\ Ascending(db.notes) /\ \A n \in Ids(db.notes) : n < db.next
      /\ \A q \in Ok(net, {"publish"}) : q.ans[2] = 1 /\ q.ans[1] < db.next
      /\ \A n \in Dropping(net) : n \notin Ids(db.notes)
      /\ DroppedOnce(net)
      /\ \A n \in Ids(page.notes) : n < db.next
      /\ \A q \in Ok(net, {"notes"}) : \A n \in Ids(q.ans) : n < db.next
      /\ \A q \in Way(net) : q.kind \in {"save", "drop"} => q.arg < db.next
  BY DEF NotesHold, NotesKept
<1>2. /\ db.notes \in Notes /\ Ids(db.notes) \subseteq Nat /\ db.next \in Nat /\ Ids(page.notes) \subseteq Nat
      /\ \A q \in Way(net) : q.kind \in {"save", "drop"} => q.arg \in Nat
      /\ \A q \in Ok(net, {"publish"}) : q.ans[1] \in Nat
      /\ \A q \in Ok(net, {"notes"}) : Ids(q.ans) \subseteq Nat
      /\ \A q \in Ok(net, {"drop"}) : q \in Way(net) /\ q.kind = "drop"
  <2>1. \A K : \A q \in Ok(net, K) : q \in Way(net) /\ q.state = "ok" /\ q.kind \in K
    BY DEF Ok
  <2>2. \A s \in Notes : Ids(s) \subseteq Nat
    BY DEF Notes, Ids
  <2> QED BY <2>1, <2>2, NoteNumbers
<1>3. db'.next = db.next + 1 /\ db'.notes = Append(db.notes, <<db.next, 1>>)
  BY DEF DetailTypes, ThingStates
<1>4. Ids(db'.notes) = Ids(db.notes) \cup {db.next} /\ Ascending(db'.notes)
  <2> DEFINE more == Append(db.notes, <<db.next, 1>>)
  <2>1. 1 \in {1, 2}
    OBVIOUS
  <2>2. Ids(more) = Ids(db.notes) \cup {db.next} /\ Ascending(more)
    <3> HIDE DEF more
    <3> QED BY <1>1, <1>2, <2>1, NoteAdded DEF more
  <2> QED BY <1>3, <2>2
<1>5. db.next \notin Dropping(net)
  BY <1>1, <1>2 DEF Dropping
<1>6. NotesKept'
  <2>1. \A n \in Ids(db'.notes) : n < db'.next
    BY <1>1, <1>2, <1>3, <1>4
  <2>2. \A n \in Dropping(net) : n \notin Ids(db'.notes)
    BY <1>1, <1>4, <1>5
  <2>3. /\ \A q \in Ok(net, {"publish"}) : q.ans[1] < db'.next
        /\ \A n \in Ids(page.notes) : n < db'.next
        /\ \A q \in Way(net) : q.kind \in {"save", "drop"} => q.arg < db'.next
    BY <1>1, <1>2, <1>3
  <2>4. \A q \in Ok(net, {"notes"}) : \A n \in Ids(q.ans) : n < db'.next
    BY <1>1, <1>2, <1>3
  <2> QED BY <1>1, <1>4, <2>1, <2>2, <2>3, <2>4 DEF NotesKept
<1>7. NotesCurrent'
  BY DEF NotesCurrent
<1>8. screen = "post" => PostOrder'
  BY DEF NotesHold, PostOrder
<1>9. screen = "post" => CountCurrent'
  <2>1. Unseen => Unseen'
    BY <1>4 DEF Unseen
  <2> QED BY <2>1 DEF NotesHold, CountCurrent
<1> QED BY <1>6, <1>7, <1>8, <1>9 DEF NotesHold

\* What the page asks for is one of its requests.
LEMMA Requests ==
  ASSUME DetailTypes, NEW kind \in KindsOf[screen], NEW arg \in Arguments,
         kind \in {"vote", "rsvp"} => arg \in Own, kind = "edit" => arg \in SUBSET D!Option,
         kind \in {"save", "drop"} => arg \in Nat, kind = "star" => arg \in BOOLEAN
  PROVE  LET r == D!Request(kind, arg)
         IN  r \in Calls(screen) /\ r.kind = kind /\ r.arg = arg /\ r.state = "sent" /\ r.who = D!Who
<1> DEFINE r == D!Request(kind, arg)
<1>1. r = [kind |-> kind, arg |-> arg, who |-> D!Who, state |-> "sent", ans |-> null]
  BY DEF D!Request
<1>2. D!Who \in {"me", "nobody"} /\ null \in Answers(screen)
  BY DEF D!Who, Answers
<1>3. /\ r \in [kind : KindsOf[screen], arg : Arguments, who : {"me", "nobody"},
                state : {"sent", "ok", "failed"}, ans : Answers(screen)]
      /\ r.kind = kind /\ r.arg = arg /\ r.state = "sent" /\ r.who = D!Who
  BY <1>1, <1>2
<1> HIDE DEF r
<1>4. Fits(screen, r)
  BY <1>3 DEF Fits
<1> QED BY <1>3, <1>4 DEF Calls, r

\* The viewer does something of which the server is told.
FlagSet(r, before, after) ==
    \/ after = before /\ r.kind \in {"drop", "delete"}
    \/ \E f \in Flags : r.kind \in Behind[f] /\ f \notin before /\ after = before \cup {f}

LEMMA Sent ==
  ASSUME DetailTypes, Shown, page.thing # null, NEW r \in Calls(screen), r.kind \notin D!Loads, r.state = "sent",
         D!SendsAll(net, <<r>>), NEW after, page' = [page EXCEPT !.busy = after], FlagSet(r, page.busy, after),
         UNCHANGED <<screen, db, viewer>>, screen = "event" => viewer = "me", screen = "post" => ~page.loading,
         r.kind \in {"save", "drop"} => r.arg \in Ids(page.notes)
  PROVE  DetailTypes' /\ Shown'
<1>1. /\ page \in ThingPages(screen) /\ net \in Seq(Calls(screen)) /\ screen \in DOMAIN KindsOf
      /\ r.kind \in KindsOf[screen] /\ page.busy \in SUBSET Flags
  BY DEF DetailTypes, ThingPages, Calls
<1>2. after \in SUBSET Flags
  BY <1>1 DEF FlagSet
<1>3. /\ page'.busy = after /\ page'.thing = page.thing /\ page'.who = page.who /\ page'.notes = page.notes
      /\ page'.loading = page.loading /\ page'.star = page.star /\ page'.mine = page.mine
  BY <1>1 DEF ThingPages
<1>4. /\ net' = Append(net, r) /\ net' \in Seq(Calls(screen)) /\ \A x : x \in spoiled' => x \in spoiled \/ x \in D!Part(r.kind)
  BY <1>1, Sending
<1>5. D!Part(r.kind) \subseteq {"thing", "notes", "star", "rsvp"}
  BY <1>1, Parts DEF KindsOf, D!Loads, Taken
<1>6. DetailTypes'
  <2>1. page' \in ThingPages(screen)
    BY <1>1, <1>2 DEF ThingPages
  <2>2. spoiled' \subseteq {"thing", "notes", "star", "rsvp"}
    BY <1>4, <1>5 DEF DetailTypes
  <2> QED BY <1>1, <1>3, <1>4, <2>1, <2>2 DEF DetailTypes
<1>7. Flagged'
  <2>1. FlagsIn(net, page.busy)
    BY DEF Shown, Flagged
  <2>2. \/ after = page.busy /\ r.kind \in {"drop", "delete", "load", "notes", "stars"}
        \/ \E f \in Flags : r.kind \in Behind[f] /\ f \notin page.busy /\ after = page.busy \cup {f}
    BY DEF FlagSet
  <2>3. FlagsIn(Append(net, r), after)
    BY <1>1, <2>1, <2>2, FlagsSent
  <2> QED BY <1>3, <1>4, <2>3 DEF Flagged
<1>8. screen' \in D!Joinable \cup {"poll"} => ThingCurrent'
  <2> SUFFICES ASSUME screen \in D!Joinable \cup {"poll"} PROVE ThingCurrent'
    OBVIOUS
  <2>1. screen \in D!Joinable => "acting" \notin page.busy /\ "acting" \in page'.busy
    <3> SUFFICES ASSUME screen \in D!Joinable PROVE "acting" \notin page.busy /\ "acting" \in page'.busy
      OBVIOUS
    <3>1. r.kind \in {"join", "leave"}
      BY <1>1 DEF D!Joinable, KindsOf, D!Loads
    <3>2. \A f \in Flags : r.kind \in Behind[f] => f = "acting"
      BY <3>1 DEF Flags, Behind
    <3> QED BY <1>3, <3>1, <3>2 DEF FlagSet
  <2>2. ThingCurrent
    BY DEF Shown
  <2>3. r.kind # "load"
    BY DEF D!Loads
  <2> QED BY <1>3, <2>1, <2>2, <2>3, ThingSent
<1>9. screen' = "event" => EventCurrent'
  <2> SUFFICES ASSUME screen = "event" PROVE EventCurrent'
    OBVIOUS
  <2>1. r.kind \in {"star", "rsvp", "delete"}
    BY <1>1 DEF KindsOf, D!Loads
  <2>2. EventCurrent
    BY DEF Shown
  <2> QED BY <1>3, <2>1, <2>2, EventSent
<1>10. screen' \in D!WithNotes => NotesHold'
  <2> SUFFICES ASSUME screen \in D!WithNotes PROVE NotesHold'
    OBVIOUS
  <2>1. r.kind \in OnNotes \cup {"delete"}
    BY <1>1 DEF KindsOf, D!Loads, OnNotes, D!WithNotes
  <2>2. NotesHold
    BY DEF Shown
  <2> QED BY <1>3, <2>1, <2>2, NotesSent
<1> QED BY <1>3, <1>6, <1>7, <1>8, <1>9, <1>10 DEF Shown

\* A button that waits for its own last request.
LEMMA SentOnce ==
  ASSUME DetailTypes, Shown, page.thing # null, UNCHANGED <<screen, db, viewer>>,
         NEW flag \in Flags, NEW kind \in KindsOf[screen], kind \notin D!Loads, kind \in Behind[flag], NEW arg \in Arguments,
         kind \in {"vote", "rsvp"} => arg \in Own, kind = "edit" => arg \in SUBSET D!Option,
         kind = "save" => arg \in Ids(page.notes), kind # "drop", kind = "star" => arg \in BOOLEAN,
         screen = "event" => viewer = "me", screen = "post" => ~page.loading, D!Guarded(flag, kind, arg)
  PROVE  DetailTypes' /\ Shown'
<1> DEFINE r == D!Request(kind, arg)
<1>1. kind \in {"save", "drop"} => arg \in Nat
  BY NoteNumbers
<1>2. r \in Calls(screen) /\ r.kind = kind /\ r.arg = arg /\ r.state = "sent"
  BY <1>1, Requests
<1>3. flag \notin page.busy /\ page' = [page EXCEPT !.busy = page.busy \cup {flag}] /\ D!SendsAll(net, <<r>>)
  BY DEF D!Guarded, D!Sends, DetailTypes, ThingPages
<1> HIDE DEF r
<1>4. FlagSet(r, page.busy, page.busy \cup {flag})
  BY <1>2, <1>3 DEF FlagSet
<1>5. r.kind \in {"save", "drop"} => r.arg \in Ids(page.notes)
  BY <1>2
<1> QED BY <1>2, <1>3, <1>4, <1>5, Sent

\* One that waits for nothing.
LEMMA SentFreely ==
  ASSUME DetailTypes, Shown, page.thing # null, UNCHANGED <<screen, db, viewer, page>>,
         NEW kind \in KindsOf[screen] \cap {"drop", "delete"}, NEW arg \in Arguments, kind = "drop" => arg \in Ids(page.notes),
         screen = "event" => viewer = "me", screen = "post" => ~page.loading, D!Sends(kind, arg)
  PROVE  DetailTypes' /\ Shown'
<1> DEFINE r == D!Request(kind, arg)
<1>1. kind \in {"save", "drop"} => arg \in Nat
  BY NoteNumbers
<1>2. r \in Calls(screen) /\ r.kind = kind /\ r.arg = arg /\ r.state = "sent"
  BY <1>1, Requests
<1>3. page' = [page EXCEPT !.busy = page.busy] /\ D!SendsAll(net, <<r>>)
  BY DEF D!Sends, DetailTypes, ThingPages
<1> HIDE DEF r
<1>4. FlagSet(r, page.busy, page.busy) /\ r.kind \notin D!Loads
  BY <1>2 DEF FlagSet, D!Loads
<1>5. r.kind \in {"save", "drop"} => r.arg \in Ids(page.notes)
  BY <1>2
<1> QED BY <1>2, <1>3, <1>4, <1>5, Sent

\* Another option is selected.
LEMMA Selected ==
  ASSUME DetailTypes, Shown, screen = "poll", NEW o \in Own, page' = [page EXCEPT !.selection = o],
         UNCHANGED <<screen, db, viewer, net, spoiled>>
  PROVE  DetailTypes' /\ Shown'
<1>1. page \in ThingPages(screen)
  BY DEF DetailTypes
<1>2. /\ page'.busy = page.busy /\ page'.thing = page.thing /\ page'.who = page.who /\ page'.mine = page.mine
      /\ page' \in ThingPages(screen)
  BY <1>1 DEF ThingPages
<1>3. DetailTypes'
  BY <1>2 DEF DetailTypes
<1>4. ThingCurrent
  BY DEF Shown
<1>5. ThingCurrent'
  BY <1>2, <1>4, ThingRests
<1>6. screen' \notin D!WithNotes /\ screen' # "event"
  BY DEF D!WithNotes
<1> QED BY <1>2, <1>3, <1>5, <1>6 DEF Shown, Flagged

\* Whatever the viewer does.
LEMMA DetailsAct ==
  ASSUME DetailInv, D!Acts
  PROVE  DetailInv'
<1> SUFFICES ASSUME DetailTypes, Shown, page.thing # null, UNCHANGED <<screen, db, viewer>>
             PROVE  DetailTypes' /\ Shown'
  <2>1. page.here /\ ~page.error /\ page.thing # null /\ UNCHANGED <<screen, db, viewer>>
    BY DEF D!Acts, D!Act, D!Join, D!Leave, D!Vote, D!PublishComment, D!ToggleFavorite, D!Delete, D!Toggle, D!SaveEdit,
           D!SaveComment, D!DeleteComment, D!Choose
  <2> QED BY <2>1 DEF DetailInv
<1>1. /\ page.selection \in Own /\ page.star \in BOOLEAN /\ page.loading \in BOOLEAN /\ null \in Arguments
      /\ Own \subseteq Arguments /\ SUBSET D!Option \subseteq Arguments /\ BOOLEAN \subseteq Arguments /\ Nat \subseteq Arguments
  <2>1. page.selection \in Own /\ page.star \in BOOLEAN /\ page.loading \in BOOLEAN
    BY DEF DetailTypes, ThingPages
  <2>2. null \in Own
    BY DEF Own
  <2>3. Own \subseteq Arguments
    BY DEF Arguments
  <2>4. SUBSET D!Option \subseteq Arguments
    BY DEF Arguments
  <2>5. BOOLEAN \subseteq Arguments
    BY DEF Arguments
  <2>6. Nat \subseteq Arguments
    BY DEF Arguments
  <2> QED BY <2>1, <2>2, <2>3, <2>4, <2>5, <2>6, Zenon
<1>2. {x[1] : x \in D!Range(page.notes)} = Ids(page.notes) /\ Ids(page.notes) \subseteq Nat
  <2>1. {x[1] : x \in D!Range(page.notes)} = Ids(page.notes)
    BY DEF D!Range, Ids
  <2> QED BY <2>1, NoteNumbers
<1>3. D!Shows => (screen = "post" => ~page.loading)
  BY DEF D!Shows
<1>4. CASE D!Join
  <2>1. screen \in D!Joinable /\ D!Guarded("acting", "join", null)
    BY <1>4 DEF D!Join, D!Act
  <2>2. screen # "event" /\ screen # "post" /\ "join" \in KindsOf[screen]
    BY <2>1 DEF D!Joinable, KindsOf
  <2> QED BY <1>1, <2>1, <2>2, SentOnce DEF Flags, Behind, D!Loads
<1>5. CASE D!Leave
  <2>1. screen \in D!Joinable /\ D!Guarded("acting", "leave", null)
    BY <1>5 DEF D!Leave, D!Act
  <2>2. screen # "event" /\ screen # "post" /\ "leave" \in KindsOf[screen]
    BY <2>1 DEF D!Joinable, KindsOf
  <2> QED BY <1>1, <2>1, <2>2, SentOnce DEF Flags, Behind, D!Loads
<1>6. CASE D!Vote
  <2>1. screen = "poll" /\ D!Guarded("voting", "vote", page.selection)
    BY <1>6 DEF D!Vote, D!Act
  <2>2. "vote" \in KindsOf[screen]
    BY <2>1 DEF KindsOf
  <2> QED BY <1>1, <2>1, <2>2, SentOnce DEF Flags, Behind, D!Loads
<1>7. CASE D!PublishComment
  <2>1. screen \in D!WithNotes /\ D!Shows /\ D!Guarded("submitting", "publish", null)
    BY <1>7 DEF D!PublishComment, D!Act
  <2>2. "publish" \in KindsOf[screen] /\ screen # "event"
    BY <2>1 DEF KindsOf, D!WithNotes
  <2> QED BY <1>1, <1>3, <2>1, <2>2, SentOnce DEF Flags, Behind, D!Loads
<1>8. CASE D!ToggleFavorite
  <2>1. screen = "event" /\ viewer = "me" /\ D!Guarded("favoriteLoading", "star", ~page.star)
    BY <1>8 DEF D!ToggleFavorite, D!Act
  <2>2. "star" \in KindsOf[screen] /\ (~page.star) \in BOOLEAN
    BY <2>1 DEF KindsOf
  <2> QED BY <1>1, <2>1, <2>2, SentOnce DEF Flags, Behind, D!Loads
<1>9. CASE D!Delete
  <2>1. screen \in {"poll", "post", "event"} /\ viewer = "me" /\ D!Shows
    BY <1>9 DEF D!Delete, D!Act
  <2>2. "delete" \in KindsOf[screen]
    BY <2>1 DEF KindsOf
  <2>3. CASE screen = "event"
    <3>1. D!Guarded("deleteLoading", "delete", null)
      BY <1>9, <2>3 DEF D!Delete
    <3> QED BY <1>1, <1>3, <2>1, <2>2, <2>3, <3>1, SentOnce DEF Flags, Behind, D!Loads
  <2>4. CASE screen # "event"
    <3>1. D!Sends("delete", null) /\ UNCHANGED page
      BY <1>9, <2>4 DEF D!Delete
    <3> QED BY <1>1, <1>3, <2>1, <2>2, <2>4, <3>1, SentFreely
  <2> QED BY <2>3, <2>4
<1>10. CASE \E o \in D!Option : D!Toggle(o)
  <2> PICK o \in D!Option : D!Toggle(o)
    BY <1>10
  <2>1. screen = "poll" /\ page' = [page EXCEPT !.selection = o] /\ UNCHANGED <<net, spoiled>>
    BY DEF D!Toggle, D!Act
  <2>2. o \in Own
    BY DEF Own
  <2> QED BY <2>1, <2>2, Selected
<1>11. CASE \E opts \in SUBSET D!Option : D!SaveEdit(opts)
  <2> PICK opts \in SUBSET D!Option : D!SaveEdit(opts)
    BY <1>11
  <2>1. screen = "poll" /\ D!Guarded("savingEdit", "edit", opts)
    BY DEF D!SaveEdit, D!Act
  <2>2. "edit" \in KindsOf[screen] /\ opts \in Arguments
    BY <1>1, <2>1 DEF KindsOf
  <2> QED BY <1>1, <2>1, <2>2, SentOnce DEF Flags, Behind, D!Loads
<1>12. CASE \E n \in 1 .. 3 : D!SaveComment(n) \/ D!DeleteComment(n)
  <2> PICK n \in 1 .. 3 : D!SaveComment(n) \/ D!DeleteComment(n)
    BY <1>12
  <2>1. D!Shows /\ n \in Ids(page.notes) /\ n \in Arguments /\ screen \in D!WithNotes
    BY <1>1, <1>2 DEF D!SaveComment, D!DeleteComment, D!Act, D!WithNotes
  <2>2. CASE D!SaveComment(n)
    <3>1. screen = "post" /\ D!Guarded("savingComment", "save", n)
      BY <2>2 DEF D!SaveComment, D!Act
    <3>2. "save" \in KindsOf[screen]
      BY <3>1 DEF KindsOf
    <3> QED BY <1>3, <2>1, <3>1, <3>2, SentOnce DEF Flags, Behind, D!Loads
  <2>3. CASE D!DeleteComment(n)
    <3>1. D!Sends("drop", n) /\ UNCHANGED page
      BY <2>3 DEF D!DeleteComment
    <3>2. "drop" \in KindsOf[screen] /\ screen # "event"
      BY <2>1 DEF KindsOf, D!WithNotes
    <3> QED BY <1>3, <2>1, <3>1, <3>2, SentFreely
  <2> QED BY <2>2, <2>3
<1>13. CASE \E status \in Statuses : D!Choose(status)
  <2> PICK status \in Statuses : D!Choose(status)
    BY <1>13
  <2>1. screen = "event" /\ viewer = "me" /\ D!Guarded("busy", "rsvp", status)
    BY DEF D!Choose, D!Act
  <2>2. "rsvp" \in KindsOf[screen] /\ status \in Own
    BY <2>1 DEF KindsOf, Own
  <2> QED BY <1>1, <2>1, <2>2, SentOnce DEF Flags, Behind, D!Loads
<1> QED BY <1>4, <1>5, <1>6, <1>7, <1>8, <1>9, <1>10, <1>11, <1>12, <1>13 DEF D!Acts, Statuses

\* What the answer of request r leaves on the page.
TookFlags(r) ==
    \/ page'.busy = page.busy /\ r.kind \in {"notes", "stars", "drop"}
    \/ \E f \in Flags : r.kind \in Behind[f] /\ page'.busy = page.busy \ {f}
TookThing(r) ==
    \/ /\ r.kind \in Taken \ {"leave"} /\ r.state = "ok" /\ page'.thing = r.ans
       /\ page'.who = IF r.kind = "load" THEN r.who ELSE "me"
    \/ r.kind # "load" /\ r.state = "failed" /\ page'.thing = page.thing /\ page'.who = page.who
TookEvent(r) ==
    /\ r.kind = "load" => page'.who = r.who
    /\ r.kind # "load" => page'.who = page.who /\ page'.thing = page.thing
    /\ page'.star = IF r.kind = "stars" /\ r.state = "ok" THEN r.ans
                    ELSE IF r.kind = "star" /\ r.state = "ok" THEN r.arg ELSE page.star
    /\ page'.mine = IF r.kind = "rsvp" /\ r.state = "ok" THEN r.arg ELSE page.mine
TookNotes(r) ==
    /\ r.kind # "load" /\ NotesBy(r, page.notes, page'.notes) /\ ThingBy(r, page.thing, page'.thing)
    /\ page'.loading = IF r.kind = "notes" THEN FALSE ELSE page.loading
TookBy(r) ==
    /\ page' \in ThingPages(screen) /\ page'.error = page.error /\ TookFlags(r)
    /\ screen # "event" => page'.mine = page.mine
    /\ screen \in D!Joinable \cup {"poll"} => TookThing(r)
    /\ screen = "event" => TookEvent(r)
    /\ screen \in D!WithNotes => TookNotes(r)

\* An answer is taken, and nothing else is sent.
LEMMA Took ==
  ASSUME DetailInv, page.here, NEW i \in DOMAIN net, net[i].state # "sent", net' = D!RemoveAt(net, i),
         UNCHANGED <<screen, db, viewer, spoiled>>, TookBy(net[i])
  PROVE  DetailInv'
<1> DEFINE r == net[i]
<1>1. DetailTypes /\ page \in ThingPages(screen) /\ net \in Seq(Calls(screen)) /\ screen \in DOMAIN KindsOf /\ r.state # "sent"
  BY DEF DetailInv, DetailTypes
<1>2. net' \in Seq(Calls(screen)) /\ r \in Way(net) /\ Way(net') \subseteq Way(net)
  BY <1>1, NetLeft
<1>3. TookBy(r)
  OBVIOUS
<1> HIDE DEF r
<1>4. DetailTypes'
  <2>1. ASSUME screen = "post", page'.thing = null, NEW q \in Way(net') PROVE q.kind = "load"
    <3>1. CASE page.thing = null
      BY <1>1, <1>2, <2>1, <3>1 DEF DetailTypes
    <3>2. CASE page.thing # null
      <4>1. page.thing \in [count : Nat]
        BY <1>1, <2>1, <3>2 DEF ThingPages, Told
      <4>2. ThingBy(r, page.thing, page'.thing)
        BY <1>3, <2>1 DEF TookBy, TookNotes, D!WithNotes
      <4>3. page'.thing \in [count : Nat]
        BY <4>1, <4>2 DEF ThingBy
      <4> QED BY <2>1, <4>3, ScreensAssumption
    <3> QED BY <3>1, <3>2
  <2> QED BY <1>1, <1>2, <1>3, <2>1 DEF DetailTypes, TookBy
<1>5. SUFFICES ASSUME ~page.error PROVE Shown'
  <2>1. page'.error = page.error
    BY <1>3 DEF TookBy
  <2> QED BY <1>4, <2>1 DEF DetailInv
<1>6. Shown
  BY <1>5 DEF DetailInv
<1>7. Flagged' /\ One(net, {"publish"}) /\ One(net, {"save"}) /\ One(net, {"rsvp"})
  <2>1. FlagsIn(net, page.busy) /\ page.busy \in SUBSET Flags
    BY <1>1, <1>6 DEF Shown, Flagged, ThingPages
  <2>2. TookFlags(r)
    BY <1>3 DEF TookBy
  <2>3. FlagsIn(net', page'.busy)
    BY <1>1, <2>1, <2>2, FlagsTaken DEF TookFlags, r
  <2>4. One(net, Behind["submitting"]) /\ One(net, Behind["savingComment"]) /\ One(net, Behind["busy"])
    BY <2>1 DEF FlagsIn, Flags
  <2> QED BY <2>3, <2>4 DEF Flagged, Behind
<1>8. screen' \in D!Joinable \cup {"poll"} => ThingCurrent'
  <2> SUFFICES ASSUME screen \in D!Joinable \cup {"poll"} PROVE ThingCurrent'
    OBVIOUS
  <2>1. ThingCurrent /\ TookThing(r)
    BY <1>3, <1>6 DEF Shown, TookBy
  <2> QED BY <1>1, <2>1, ThingTaken DEF TookThing, r
<1>9. screen' = "event" => EventCurrent'
  <2> SUFFICES ASSUME screen = "event" PROVE EventCurrent'
    OBVIOUS
  <2>1. EventCurrent /\ TookEvent(r)
    BY <1>3, <1>6 DEF Shown, TookBy
  <2> QED BY <1>1, <1>7, <2>1, EventTaken DEF TookEvent, r
<1>10. screen' \in D!WithNotes => NotesHold'
  <2> SUFFICES ASSUME screen \in D!WithNotes PROVE NotesHold'
    OBVIOUS
  <2>1. NotesHold /\ TookNotes(r)
    BY <1>3, <1>6 DEF Shown, TookBy
  <2> QED BY <1>1, <1>7, <2>1, NotesTaken DEF TookNotes, r
<1>11. screen' # "event" => page'.mine = null
  BY <1>3, <1>6 DEF Shown, TookBy
<1> QED BY <1>7, <1>8, <1>9, <1>10, <1>11 DEF Shown

\* The page is left, or says that there is nothing.
LEMMA LeftAlone ==
  ASSUME DetailTypes, NEW i \in DOMAIN net, UNCHANGED <<screen, db, viewer, spoiled>>,
         \/ net' = <<>> /\ page' = [page EXCEPT !.here = FALSE]
         \/ net' = D!RemoveAt(net, i) /\ page' = [page EXCEPT !.error = TRUE]
  PROVE  DetailInv'
<1>1. page \in ThingPages(screen) /\ net \in Seq(Calls(screen))
  BY DEF DetailTypes
<1>2. page' \in ThingPages(screen) /\ page'.thing = page.thing /\ (~page'.here \/ page'.error)
  BY <1>1 DEF ThingPages
<1>3. net' \in Seq(Calls(screen)) /\ Way(net') \subseteq Way(net)
  <2>1. CASE net' = <<>>
    BY <2>1 DEF Way
  <2>2. CASE net' = D!RemoveAt(net, i)
    BY <2>2, NetLeft
  <2> QED BY <2>1, <2>2
<1> QED BY <1>2, <1>3 DEF DetailInv, DetailTypes

\* What is known of an answer that comes.
LEMMA Coming ==
  ASSUME DetailInv, NEW i \in DOMAIN net, NEW kinds, D!Comes(i, kinds)
  PROVE  /\ page \in ThingPages(screen) /\ page.here /\ UNCHANGED <<screen, db, viewer>>
         /\ screen \in DOMAIN KindsOf /\ net[i] \in Calls(screen) /\ net[i].kind \in kinds \cap KindsOf[screen]
         /\ net[i].state \in {"ok", "failed"} /\ Fits(screen, net[i])
         /\ net[i].who \in {"me", "nobody"}
<1>1. page \in ThingPages(screen) /\ net \in Seq(Calls(screen)) /\ screen \in DOMAIN KindsOf
  BY DEF DetailInv, DetailTypes
<1>2. net[i] \in Calls(screen)
  BY <1>1
<1>3. /\ net[i].kind \in KindsOf[screen] /\ net[i].state \in {"sent", "ok", "failed"} /\ Fits(screen, net[i])
      /\ net[i].who \in {"me", "nobody"}
  BY <1>2 DEF Calls
<1> QED BY <1>1, <1>2, <1>3 DEF D!Comes

LEMMA JoinTaken ==
  ASSUME DetailInv, NEW i \in DOMAIN net, D!JoinDone(i)
  PROVE  DetailInv'
<1> DEFINE r == net[i]
<1>1. /\ page \in ThingPages(screen) /\ page.here /\ UNCHANGED <<screen, db, viewer>> /\ r.kind = "join"
      /\ screen \in D!Joinable /\ r.state \in {"ok", "failed"} /\ (r.state = "ok" => r.ans \in Told[screen])
  <2>1. D!Comes(i, {"join"})
    BY DEF D!JoinDone
  <2> QED BY <2>1, Coming DEF KindsOf, D!Joinable, Fits
<1>2. /\ net' = D!RemoveAt(net, i) /\ spoiled' = spoiled
      /\ page' = IF r.state = "failed" THEN D!Free("acting") ELSE [D!Free("acting") EXCEPT !.thing = r.ans, !.who = "me"]
  BY DEF D!JoinDone, D!Takes, D!Rest
<1> HIDE DEF r
<1>3. /\ page' \in ThingPages(screen) /\ page'.error = page.error /\ page'.busy = page.busy \ {"acting"} /\ page'.mine = page.mine
      /\ r.state = "ok" => page'.thing = r.ans /\ page'.who = "me"
      /\ r.state = "failed" => page'.thing = page.thing /\ page'.who = page.who
  BY <1>1, <1>2 DEF D!Free, ThingPages
<1>4. TookBy(r)
  BY <1>1, <1>3 DEF TookBy, TookFlags, TookThing, Flags, Behind, Taken, D!Joinable, D!WithNotes
<1> QED BY <1>1, <1>2, <1>4, Took DEF r

LEMMA PollTaken ==
  ASSUME DetailInv, NEW i \in DOMAIN net, D!PollChanged(i)
  PROVE  DetailInv'
<1> DEFINE r == net[i]
           flag == IF r.kind = "vote" THEN "voting" ELSE "savingEdit"
<1>1. /\ page \in ThingPages(screen) /\ page.here /\ UNCHANGED <<screen, db, viewer>> /\ r.kind \in {"vote", "edit"}
      /\ screen = "poll" /\ r.state \in {"ok", "failed"} /\ (r.state = "ok" => r.ans \in Told[screen])
  <2>1. D!Comes(i, {"vote", "edit"})
    BY DEF D!PollChanged
  <2> QED BY <2>1, Coming DEF KindsOf, Fits
<1>2. /\ net' = D!RemoveAt(net, i) /\ spoiled' = spoiled
      /\ page' = IF r.state = "failed" THEN D!Free(flag)
                 ELSE [D!Free(flag) EXCEPT !.thing = r.ans, !.who = "me", !.selection = r.ans.own]
  BY DEF D!PollChanged, D!Takes, D!Rest
<1>3. r.state = "ok" => r.ans.own \in Own
  BY <1>1 DEF Told
<1>4. flag \in Flags /\ r.kind \in Behind[flag]
  BY <1>1 DEF Flags, Behind
<1> HIDE DEF r, flag
<1>5. /\ page' \in ThingPages(screen) /\ page'.error = page.error /\ page'.busy = page.busy \ {flag} /\ page'.mine = page.mine
      /\ r.state = "ok" => page'.thing = r.ans /\ page'.who = "me"
      /\ r.state = "failed" => page'.thing = page.thing /\ page'.who = page.who
  BY <1>1, <1>2, <1>3 DEF D!Free, ThingPages
<1>6. TookBy(r)
  BY <1>1, <1>4, <1>5 DEF TookBy, TookFlags, TookThing, Taken, D!Joinable, D!WithNotes
<1> QED BY <1>1, <1>2, <1>6, Took DEF r

LEMMA NotesComeTaken ==
  ASSUME DetailInv, NEW i \in DOMAIN net, D!NotesCome(i)
  PROVE  DetailInv'
<1> DEFINE r == net[i]
<1>1. /\ page \in ThingPages(screen) /\ page.here /\ UNCHANGED <<screen, db, viewer>> /\ r.kind = "notes"
      /\ screen \in D!WithNotes /\ r.state \in {"ok", "failed"} /\ (r.state = "ok" => r.ans \in Notes)
  <2>1. D!Comes(i, {"notes"})
    BY DEF D!NotesCome
  <2> QED BY <2>1, Coming DEF KindsOf, Fits, D!WithNotes
<1>2. /\ net' = D!RemoveAt(net, i) /\ spoiled' = spoiled
      /\ page' = [page EXCEPT !.notes = IF r.state = "ok" THEN r.ans ELSE page.notes, !.loading = FALSE]
  BY DEF D!NotesCome, D!Takes, D!Rest, DetailInv, DetailTypes, ThingPages
<1> HIDE DEF r
<1>3. /\ page' \in ThingPages(screen) /\ page'.error = page.error /\ page'.busy = page.busy /\ page'.mine = page.mine
      /\ page'.notes = (IF r.state = "ok" THEN r.ans ELSE page.notes) /\ page'.loading = FALSE /\ page'.thing = page.thing
  BY <1>1, <1>2 DEF ThingPages
<1>4. TookBy(r)
  BY <1>1, <1>3 DEF TookBy, TookFlags, TookNotes, NotesBy, ThingBy, D!Joinable, D!WithNotes
<1> QED BY <1>1, <1>2, <1>4, Took DEF r

LEMMA SaveTaken ==
  ASSUME DetailInv, NEW i \in DOMAIN net, D!CommentSaved(i)
  PROVE  DetailInv'
<1> DEFINE r == net[i]
           new == [k \in DOMAIN page.notes |-> IF page.notes[k][1] = r.arg THEN <<r.arg, 2>> ELSE page.notes[k]]
<1>1. /\ page \in ThingPages(screen) /\ page.here /\ UNCHANGED <<screen, db, viewer>> /\ r.kind = "save"
      /\ screen \in D!WithNotes /\ r.state \in {"ok", "failed"} /\ r.arg \in Nat
  <2>1. D!Comes(i, {"save"})
    BY DEF D!CommentSaved
  <2> QED BY <2>1, Coming DEF KindsOf, Fits, D!WithNotes
<1>2. page.notes \in Notes /\ new \in Notes
  <2>1. page.notes \in Notes
    BY <1>1 DEF ThingPages
  <2> QED BY <1>1, <2>1, NoteChanged
<1>3. /\ net' = D!RemoveAt(net, i) /\ spoiled' = spoiled
      /\ page' = IF r.state = "failed" THEN D!Free("savingComment") ELSE [D!Free("savingComment") EXCEPT !.notes = new]
  <2>1. D!Free("savingComment").notes = page.notes
    BY <1>1 DEF D!Free, ThingPages
  <2>2. "notes" \in DOMAIN D!Free("savingComment")
    BY <1>1 DEF D!Free, ThingPages
  <2> QED BY <2>1, <2>2 DEF D!CommentSaved, D!Takes, D!Rest
<1>4. NotesBy(r, page.notes, IF r.state = "failed" THEN page.notes ELSE new)
  BY <1>1 DEF NotesBy
<1> HIDE DEF r, new
<1>5. /\ page' \in ThingPages(screen) /\ page'.error = page.error /\ page'.busy = page.busy \ {"savingComment"}
      /\ page'.notes = (IF r.state = "failed" THEN page.notes ELSE new)
      /\ page'.mine = page.mine /\ page'.loading = page.loading /\ page'.thing = page.thing
  BY <1>1, <1>2, <1>3 DEF ThingPages, D!Free
<1>6. TookBy(r)
  BY <1>1, <1>4, <1>5 DEF TookBy, TookFlags, TookNotes, ThingBy, D!Joinable, D!WithNotes, Flags, Behind
<1> QED BY <1>1, <1>3, <1>6, Took DEF r

\* A comment more or less, and their number on the page of a post.
LEMMA PostThere ==
  ASSUME DetailTypes, screen = "post", NEW i \in DOMAIN net, net[i].kind # "load"
  PROVE  page.thing \in [count : Nat]
<1>1. net[i] \in Way(net)
  BY DEF Way
<1>2. page.thing # null /\ page.thing \in Told["post"] \cup {null}
  BY <1>1 DEF DetailTypes, ThingPages
<1> QED BY <1>2 DEF Told

LEMMA PublishTaken ==
  ASSUME DetailInv, NEW i \in DOMAIN net, D!Published(i)
  PROVE  DetailInv'
<1> DEFINE r == net[i]
           more == Append(page.notes, r.ans)
           free == [D!Free("submitting") EXCEPT !.notes = more]
<1>1. /\ page \in ThingPages(screen) /\ page.here /\ UNCHANGED <<screen, db, viewer>> /\ r.kind = "publish"
      /\ screen \in D!WithNotes /\ r.state \in {"ok", "failed"} /\ (r.state = "ok" => r.ans \in Nat \X {1, 2})
  <2>1. D!Comes(i, {"publish"})
    BY DEF D!Published
  <2> QED BY <2>1, Coming DEF KindsOf, Fits, D!WithNotes
<1>2. page.notes \in Notes /\ (r.state = "ok" => more \in Notes)
  <2>1. page.notes \in Notes
    BY <1>1 DEF ThingPages
  <2> QED BY <1>1, <2>1 DEF Notes
<1>3. screen = "post" => page.thing \in Told["post"]
  BY <1>1, PostThere DEF Told, DetailInv
<1>4. /\ net' = D!RemoveAt(net, i) /\ spoiled' = spoiled
      /\ page' = IF r.state = "failed" THEN D!Free("submitting") ELSE D!Counted(free, 1)
  <2>1. D!Free("submitting").notes = page.notes
    BY <1>1 DEF D!Free, ThingPages
  <2> QED BY <2>1 DEF D!Published, D!Takes, D!Rest
<1>5. NotesBy(r, page.notes, IF r.state = "failed" THEN page.notes ELSE more)
  BY <1>1 DEF NotesBy
<1> HIDE DEF r, more
<1>6. /\ free = [page EXCEPT !.busy = @ \ {"submitting"}, !.notes = more] /\ free.thing = page.thing
  BY <1>1 DEF D!Free, ThingPages
<1>7. /\ page' \in ThingPages(screen) /\ page'.error = page.error /\ page'.busy = page.busy \ {"submitting"}
      /\ page'.notes = (IF r.state = "failed" THEN page.notes ELSE more)
      /\ page'.mine = page.mine /\ page'.loading = page.loading
      /\ page'.thing = IF r.state = "ok" /\ screen = "post" THEN [page.thing EXCEPT !.count = @ + 1] ELSE page.thing
  <2>1. CASE r.state = "failed"
    BY <1>1, <1>2, <1>4, <2>1 DEF ThingPages, D!Free
  <2>2. CASE r.state = "ok" /\ screen # "post"
    <3>1. page' = free
      BY <1>4, <2>2 DEF D!Counted
    <3>2. page' = [page EXCEPT !.busy = page.busy \ {"submitting"}, !.notes = more] /\ more \in Notes
      BY <1>2, <1>6, <2>2, <3>1
    <3>3. page \in ThingPages(screen)
      BY <1>1
    <3>4. page' \in ThingPages(screen)
      BY <3>2, <3>3 DEF ThingPages
    <3>5. /\ page'.error = page.error /\ page'.busy = page.busy \ {"submitting"} /\ page'.notes = more
          /\ page'.mine = page.mine /\ page'.loading = page.loading /\ page'.thing = page.thing
      BY <3>2, <3>3 DEF ThingPages
    <3> QED BY <2>2, <3>4, <3>5
  <2>3. CASE r.state = "ok" /\ screen = "post"
    <3>1. page' = [free EXCEPT !.thing.count = @ + 1]
      BY <1>4, <2>3 DEF D!Counted
    <3>2. free \in [thing : Told["post"] \cup {null}, who : {"me", "nobody"}, error : BOOLEAN, busy : SUBSET Flags,
                    selection : Own, notes : Notes, loading : BOOLEAN, star : BOOLEAN, mine : Own, here : BOOLEAN]
      <4>1. free = [page EXCEPT !.busy = page.busy \ {"submitting"}, !.notes = more] /\ more \in Notes /\ screen = "post"
        BY <1>2, <1>6, <2>3
      <4>2. page \in ThingPages("post")
        BY <1>1, <2>3
      <4> QED BY <4>1, <4>2 DEF ThingPages
    <3>3. page' = [free EXCEPT !.thing = [page.thing EXCEPT !.count = @ + 1]]
      BY <1>6, <3>1, <3>2
    <3>4. [page.thing EXCEPT !.count = @ + 1] \in Told["post"]
      BY <1>3, <2>3 DEF Told
    <3> HIDE DEF free
    <3>5. page' \in ThingPages(screen) /\ page'.thing = [page.thing EXCEPT !.count = @ + 1]
      BY <2>3, <3>2, <3>3, <3>4 DEF ThingPages
    <3>6. /\ page'.error = free.error /\ page'.busy = free.busy /\ page'.notes = free.notes
          /\ page'.mine = free.mine /\ page'.loading = free.loading
      BY <3>2, <3>3
    <3>7. /\ free.error = page.error /\ free.busy = page.busy \ {"submitting"} /\ free.notes = more
          /\ free.mine = page.mine /\ free.loading = page.loading
      BY <1>1, <1>6 DEF ThingPages
    <3> QED BY <2>3, <3>5, <3>6, <3>7
  <2> QED BY <1>1, <2>1, <2>2, <2>3
<1>8. TookBy(r)
  BY <1>1, <1>5, <1>7 DEF TookBy, TookFlags, TookNotes, ThingBy, D!Joinable, D!WithNotes, Flags, Behind
<1> QED BY <1>1, <1>4, <1>8, Took DEF r

LEMMA DropTaken ==
  ASSUME DetailInv, NEW i \in DOMAIN net, D!CommentDeleted(i)
  PROVE  DetailInv'
<1> DEFINE r == net[i]
           fewer == D!Without(page.notes, r.arg)
           less == [page EXCEPT !.notes = fewer]
<1>1. /\ page \in ThingPages(screen) /\ page.here /\ UNCHANGED <<screen, db, viewer>> /\ r.kind = "drop"
      /\ screen \in D!WithNotes /\ r.state \in {"ok", "failed"}
  <2>1. D!Comes(i, {"drop"})
    BY DEF D!CommentDeleted
  <2> QED BY <2>1, Coming DEF KindsOf, Fits, D!WithNotes
<1>2. page.notes \in Notes /\ fewer \in Notes
  <2>1. page.notes \in Notes
    BY <1>1 DEF ThingPages
  <2> QED BY <2>1, NoteDropped
<1>3. screen = "post" => page.thing \in Told["post"]
  BY <1>1, PostThere DEF Told, DetailInv
<1>4. /\ net' = D!RemoveAt(net, i) /\ spoiled' = spoiled
      /\ page' = IF r.state = "failed" THEN page
                 ELSE IF screen = "post" THEN [less EXCEPT !.thing.count = IF @ = 0 THEN 0 ELSE @ - 1] ELSE less
  BY <1>1 DEF D!CommentDeleted, D!Takes, D!Rest, ThingPages
<1>5. NotesBy(r, page.notes, IF r.state = "failed" THEN page.notes ELSE fewer)
  BY <1>1 DEF NotesBy
<1> HIDE DEF r, fewer
<1>6. less.thing = page.thing
  BY <1>1 DEF ThingPages
<1>7. /\ page' \in ThingPages(screen) /\ page'.error = page.error /\ page'.busy = page.busy
      /\ page'.notes = (IF r.state = "failed" THEN page.notes ELSE fewer)
      /\ page'.mine = page.mine /\ page'.loading = page.loading
      /\ page'.thing = IF r.state = "ok" /\ screen = "post" THEN [page.thing EXCEPT !.count = IF @ = 0 THEN 0 ELSE @ - 1]
                       ELSE page.thing
  <2>1. CASE r.state = "failed"
    BY <1>1, <1>2, <1>4, <2>1
  <2>2. CASE r.state = "ok" /\ screen # "post"
    <3>1. page' = less
      BY <1>4, <2>2
    <3> QED BY <1>1, <1>2, <2>2, <3>1 DEF ThingPages
  <2>3. CASE r.state = "ok" /\ screen = "post"
    <3>1. page' = [less EXCEPT !.thing.count = IF @ = 0 THEN 0 ELSE @ - 1]
      BY <1>4, <2>3
    <3>2. less \in [thing : Told["post"] \cup {null}, who : {"me", "nobody"}, error : BOOLEAN, busy : SUBSET Flags,
                    selection : Own, notes : Notes, loading : BOOLEAN, star : BOOLEAN, mine : Own, here : BOOLEAN]
      BY <1>1, <1>2, <2>3 DEF ThingPages
    <3>3. page' = [less EXCEPT !.thing = [page.thing EXCEPT !.count = IF @ = 0 THEN 0 ELSE @ - 1]]
      BY <1>6, <3>1, <3>2
    <3>4. [page.thing EXCEPT !.count = IF @ = 0 THEN 0 ELSE @ - 1] \in Told["post"]
      BY <1>3, <2>3 DEF Told
    <3>5. /\ less.error = page.error /\ less.busy = page.busy /\ less.notes = fewer
          /\ less.mine = page.mine /\ less.loading = page.loading
      BY <1>1 DEF ThingPages
    <3> HIDE DEF less
    <3>6. page' \in ThingPages(screen) /\ page'.thing = [page.thing EXCEPT !.count = IF @ = 0 THEN 0 ELSE @ - 1]
      BY <2>3, <3>2, <3>3, <3>4 DEF ThingPages
    <3>7. /\ page'.error = less.error /\ page'.busy = less.busy /\ page'.notes = less.notes
          /\ page'.mine = less.mine /\ page'.loading = less.loading
      BY <3>2, <3>3
    <3> QED BY <2>3, <3>5, <3>6, <3>7
  <2> QED BY <1>1, <2>1, <2>2, <2>3
<1>8. TookBy(r)
  BY <1>1, <1>5, <1>7 DEF TookBy, TookFlags, TookNotes, ThingBy, D!Joinable, D!WithNotes
<1> QED BY <1>1, <1>4, <1>8, Took DEF r

\* The favourite, and the viewer's answer.
LEMMA StarsTaken ==
  ASSUME DetailInv, NEW i \in DOMAIN net, D!StarsCome(i) \/ D!StarSet(i) \/ D!RsvpSet(i)
  PROVE  DetailInv'
<1> DEFINE r == net[i]
<1>1. /\ page \in ThingPages(screen) /\ page.here /\ UNCHANGED <<screen, db, viewer>> /\ r.kind \in {"stars", "star", "rsvp"}
      /\ screen = "event" /\ r.state \in {"ok", "failed"} /\ Fits(screen, r)
  <2>1. D!Comes(i, {"stars", "star", "rsvp"})
    BY DEF D!StarsCome, D!StarSet, D!RsvpSet, D!Comes
  <2>2. r.kind \in KindsOf[screen] /\ r.kind \in {"stars", "star", "rsvp"} /\ screen \in DOMAIN KindsOf
    BY <2>1, Coming
  <2>3. screen = "event"
    BY <2>2 DEF KindsOf
  <2> QED BY <2>1, <2>3, Coming
<1>2. /\ net' = D!RemoveAt(net, i) /\ spoiled' = spoiled
      /\ \/ r.kind = "stars" /\ page' = IF r.state = "ok" THEN [page EXCEPT !.star = r.ans] ELSE page
         \/ r.kind = "star" /\ page' = IF r.state = "failed" THEN D!Free("favoriteLoading")
                                       ELSE [D!Free("favoriteLoading") EXCEPT !.star = r.arg]
         \/ r.kind = "rsvp" /\ page' = IF r.state = "failed" THEN D!Free("busy") ELSE [D!Free("busy") EXCEPT !.mine = r.arg]
  BY DEF D!StarsCome, D!StarSet, D!RsvpSet, D!Comes, D!Takes, D!Rest
<1>3. /\ r.kind = "stars" /\ r.state = "ok" => r.ans \in BOOLEAN
      /\ r.kind = "star" => r.arg \in BOOLEAN
      /\ r.kind = "rsvp" => r.arg \in Own
  BY <1>1 DEF Fits
<1> DEFINE flag == IF r.kind = "star" THEN "favoriteLoading" ELSE "busy"
<1>4. r.kind # "stars" => flag \in Flags /\ r.kind \in Behind[flag]
  BY <1>1 DEF Flags, Behind
<1> HIDE DEF r, flag
<1>5. /\ page' \in ThingPages(screen) /\ page'.error = page.error /\ page'.who = page.who /\ page'.thing = page.thing
      /\ page'.busy = IF r.kind = "stars" THEN page.busy ELSE page.busy \ {flag}
      /\ page'.star = IF r.kind = "stars" /\ r.state = "ok" THEN r.ans
                      ELSE IF r.kind = "star" /\ r.state = "ok" THEN r.arg ELSE page.star
      /\ page'.mine = IF r.kind = "rsvp" /\ r.state = "ok" THEN r.arg ELSE page.mine
  <2>1. CASE r.kind = "stars"
    BY <1>1, <1>2, <1>3, <2>1 DEF ThingPages
  <2>2. CASE r.kind = "star"
    <3>1. page' = [page EXCEPT !.busy = page.busy \ {flag}, !.star = IF r.state = "ok" THEN r.arg ELSE page.star]
      BY <1>1, <1>2, <2>2 DEF ThingPages, D!Free, flag
    <3> QED BY <1>1, <1>3, <2>2, <3>1 DEF ThingPages
  <2>3. CASE r.kind = "rsvp"
    <3>1. page' = [page EXCEPT !.busy = page.busy \ {flag}, !.mine = IF r.state = "ok" THEN r.arg ELSE page.mine]
      BY <1>1, <1>2, <2>3 DEF ThingPages, D!Free, flag
    <3> QED BY <1>1, <1>3, <2>3, <3>1 DEF ThingPages
  <2> QED BY <1>1, <2>1, <2>2, <2>3
<1>6. TookFlags(r)
  BY <1>1, <1>4, <1>5 DEF TookFlags
<1>7. TookBy(r)
  BY <1>1, <1>5, <1>6 DEF TookBy, TookEvent, D!Joinable, D!WithNotes
<1> QED BY <1>1, <1>2, <1>7, Took DEF r

LEMMA DeleteTaken ==
  ASSUME DetailInv, NEW i \in DOMAIN net, D!Deleted(i)
  PROVE  DetailInv'
<1> DEFINE r == net[i]
<1>1. /\ page \in ThingPages(screen) /\ page.here /\ UNCHANGED <<screen, db, viewer>> /\ r.kind = "delete"
      /\ screen \in {"poll", "post", "event"} /\ r.state \in {"ok", "failed"} /\ DetailTypes
  <2>1. D!Comes(i, {"delete"})
    BY DEF D!Deleted
  <2> QED BY <2>1, Coming DEF KindsOf, DetailInv
<1>2. CASE r.state = "ok"
  <2>1. net' = <<>> /\ page' = [page EXCEPT !.here = FALSE] /\ spoiled' = spoiled
    BY <1>2 DEF D!Deleted, D!LedAway
  <2> QED BY <1>1, <2>1, LeftAlone
<1>3. CASE r.state = "failed"
  <2>1. /\ net' = D!RemoveAt(net, i) /\ spoiled' = spoiled /\ page' = D!Free("deleteLoading")
    BY <1>3 DEF D!Deleted, D!Takes, D!Rest
  <2> HIDE DEF r
  <2>2. /\ page' \in ThingPages(screen) /\ page'.error = page.error /\ page'.busy = page.busy \ {"deleteLoading"}
        /\ page'.mine = page.mine /\ page'.thing = page.thing /\ page'.who = page.who /\ page'.star = page.star
        /\ page'.loading = page.loading /\ page'.notes = page.notes
    BY <1>1, <2>1 DEF D!Free, ThingPages
  <2>3. TookFlags(r)
    BY <1>1, <2>2 DEF TookFlags, Flags, Behind
  <2>4. TookBy(r)
    BY <1>1, <1>3, <2>2, <2>3 DEF TookBy, TookThing, TookEvent, TookNotes, NotesBy, ThingBy, D!Joinable, D!WithNotes
  <2> QED BY <1>1, <2>1, <2>4, Took DEF r
<1> QED BY <1>1, <1>2, <1>3

LEMMA LeaveTaken ==
  ASSUME DetailInv, NEW i \in DOMAIN net, D!LeaveDone(i)
  PROVE  DetailInv'
<1> DEFINE r == net[i]
<1>1. /\ page \in ThingPages(screen) /\ page.here /\ UNCHANGED <<screen, db, viewer>> /\ r.kind = "leave"
      /\ screen \in D!Joinable /\ r.state \in {"ok", "failed"} /\ DetailTypes
  <2>1. D!Comes(i, {"leave"})
    BY DEF D!LeaveDone
  <2> QED BY <2>1, Coming DEF KindsOf, DetailInv, D!Joinable
<1>2. CASE r.state = "failed"
  <2>1. /\ net' = D!RemoveAt(net, i) /\ spoiled' = spoiled /\ page' = D!Free("acting")
    BY <1>2 DEF D!LeaveDone, D!Takes, D!Rest
  <2> HIDE DEF r
  <2>2. /\ page' \in ThingPages(screen) /\ page'.error = page.error /\ page'.busy = page.busy \ {"acting"}
        /\ page'.mine = page.mine /\ page'.thing = page.thing /\ page'.who = page.who
    BY <1>1, <2>1 DEF D!Free, ThingPages
  <2>3. TookFlags(r)
    BY <1>1, <2>2 DEF TookFlags, Flags, Behind
  <2>4. TookBy(r)
    BY <1>1, <1>2, <2>2, <2>3 DEF TookBy, TookThing, D!Joinable, D!WithNotes
  <2> QED BY <1>1, <2>1, <2>4, Took DEF r
<1>3. CASE r.state = "ok" /\ screen = "subgroup"
  <2>1. net' = <<>> /\ page' = [page EXCEPT !.here = FALSE] /\ spoiled' = spoiled
    BY <1>3 DEF D!LeaveDone, D!LedAway
  <2> QED BY <1>1, <2>1, LeftAlone
<1>4. CASE r.state = "ok" /\ screen = "community"
  <2> DEFINE q == D!Request("load", null)
             rest == D!RemoveAt(net, i)
  <2>1. page' = page /\ D!SendsAll(rest, <<q>>)
    BY <1>4 DEF D!LeaveDone, D!Rest
  <2>2. q \in Calls(screen) /\ q.kind = "load" /\ q.state = "sent"
    <3>1. "load" \in KindsOf[screen] /\ null \in Arguments
      BY <1>4 DEF KindsOf, Arguments, Own
    <3> QED BY <1>1, <3>1, Requests
  <2>3. rest \in Seq(Calls(screen))
    BY <1>1, NetLeft
  <2> HIDE DEF q, rest, r
  <2>4. net' = Append(rest, q) /\ net' \in Seq(Calls(screen)) /\ \A x : x \in spoiled' => x \in spoiled \/ x \in D!Part(q.kind)
    BY <2>1, <2>2, <2>3, Sending
  <2>5. DetailTypes'
    <3>1. spoiled' \subseteq {"thing", "notes", "star", "rsvp"}
      <4>1. D!Part(q.kind) = {"thing"}
        BY <2>2, Parts DEF Taken
      <4> QED BY <1>1, <2>4, <4>1 DEF DetailTypes
    <3>2. screen # "post" /\ screen' = screen /\ db' = db /\ viewer' = viewer /\ page' = page
      BY <1>1, <1>4, <2>1
    <3>3. net' \in Seq(Calls(screen'))
      BY <2>4, <3>2
    <3> QED BY <1>1, <3>1, <3>2, <3>3 DEF DetailTypes
  <2> SUFFICES ASSUME ~page.error PROVE Shown'
    BY <2>1, <2>5 DEF DetailInv
  <2>6. Shown
    BY <1>1 DEF DetailInv
  <2>7. Flagged'
    <3>1. FlagsIn(net, page.busy) /\ page.busy \in SUBSET Flags /\ net \in Seq(Calls(screen))
      BY <1>1, <2>6 DEF Shown, Flagged, ThingPages, DetailTypes
    <3>2. FlagsIn(rest, page.busy \ {"acting"})
      BY <1>1, <3>1, FlagsTaken DEF Flags, Behind, rest, r
    <3>3. FlagsIn(Append(rest, q), page.busy)
      <4>1. page.busy \ {"acting"} \in SUBSET Flags
        BY <3>1
      <4>2. CASE "acting" \in page.busy
        <5>1. "acting" \in Flags /\ q.kind \in Behind["acting"]
          BY <2>2 DEF Flags, Behind
        <5>2. "acting" \notin page.busy \ {"acting"} /\ page.busy = (page.busy \ {"acting"}) \cup {"acting"}
          BY <4>2
        <5> QED BY <2>2, <2>3, <3>2, <4>1, <5>1, <5>2, FlagsSent
      <4>3. CASE "acting" \notin page.busy
        <5>1. page.busy \ {"acting"} = page.busy
          BY <4>3
        <5> QED BY <2>2, <2>3, <3>2, <4>1, <5>1, FlagsSent
      <4> QED BY <4>2, <4>3
    <3> QED BY <2>1, <2>4, <3>3 DEF Flagged
  <2>8. ThingCurrent'
    <3>1. ThingCurrent
      BY <1>4, <2>6 DEF Shown, D!Joinable
    <3> QED BY <1>1, <1>4, <2>1, <2>2, <3>1, ThingAsked DEF rest, r
  <2>9. screen' # "event" /\ screen' \notin D!WithNotes /\ page'.mine = null
    BY <1>1, <1>4, <2>1, <2>6 DEF Shown, D!WithNotes
  <2> QED BY <2>7, <2>8, <2>9 DEF Shown
<1> QED BY <1>1, <1>2, <1>3, <1>4 DEF D!Joinable

LEMMA LoadTaken ==
  ASSUME DetailInv, NEW i \in DOMAIN net, D!Loaded(i)
  PROVE  DetailInv'
<1> DEFINE r == net[i]
           got == [page EXCEPT !.thing = r.ans, !.who = r.who, !.busy = @ \ {"acting"},
                               !.selection = IF screen = "poll" THEN r.ans.own ELSE @]
           rest == D!RemoveAt(net, i)
<1>1. /\ page \in ThingPages(screen) /\ page.here /\ UNCHANGED <<screen, db, viewer>> /\ r.kind = "load"
      /\ screen # "comments" /\ r.state \in {"ok", "failed"} /\ DetailTypes /\ (r.state = "ok" => r.ans \in Told[screen])
      /\ screen \in DOMAIN KindsOf /\ r.who \in {"me", "nobody"}
  <2>1. D!Comes(i, {"load"})
    BY DEF D!Loaded
  <2> QED BY <2>1, Coming DEF KindsOf, DetailInv, Fits
<1>2. CASE r.state = "failed"
  <2>1. /\ spoiled' = spoiled
        /\ \/ net' = <<>> /\ page' = [page EXCEPT !.here = FALSE]
           \/ net' = rest /\ page' = [page EXCEPT !.error = TRUE]
    BY <1>2 DEF D!Loaded, D!LedAway, D!Takes, D!Rest
  <2> QED BY <1>1, <2>1, LeftAlone
<1>3. ASSUME r.state = "ok"
      PROVE  /\ got \in ThingPages(screen) /\ got.thing = r.ans /\ got.who = r.who /\ got.busy = page.busy \ {"acting"}
             /\ got.error = page.error /\ got.star = page.star /\ got.mine = page.mine /\ got.notes = page.notes
             /\ got.loading = page.loading /\ got.here = page.here
  <2>1. (IF screen = "poll" THEN r.ans.own ELSE page.selection) \in Own
    <3>1. page.selection \in Own
      BY <1>1 DEF ThingPages
    <3>2. screen = "poll" => r.ans.own \in Own
      BY <1>1, <1>3 DEF Told
    <3> QED BY <3>1, <3>2
  <2>2. got = [page EXCEPT !.thing = r.ans, !.who = r.who, !.busy = page.busy \ {"acting"},
                           !.selection = IF screen = "poll" THEN r.ans.own ELSE page.selection]
    BY <1>1 DEF ThingPages
  <2>3. r.ans \in Told[screen]
    BY <1>1, <1>3
  <2> HIDE DEF r, got
  <2> QED BY <1>1, <2>1, <2>2, <2>3 DEF ThingPages
<1>4. CASE r.state = "ok" /\ ~(screen = "post" /\ page.thing = null)
  <2>1. page' = got /\ net' = rest /\ spoiled' = spoiled
    BY <1>4 DEF D!Loaded, D!Takes, D!Rest
  <2>2. CASE screen = "post" /\ ~page.error
    <3>1. PostOrder /\ r \in Way(net)
      BY <1>1, <2>2 DEF DetailInv, Shown, NotesHold, D!WithNotes, Way
    <3> QED BY <1>1, <1>4, <2>2, <3>1 DEF PostOrder, Some
  <2>3. CASE screen = "post" /\ page.error
    <3>1. net' \in Seq(Calls(screen)) /\ page'.error /\ page'.thing # null
      <4>1. r.ans \in [count : Nat]
        BY <1>1, <1>4, <2>3 DEF Told
      <4> QED BY <1>1, <1>3, <1>4, <2>1, <2>3, <4>1, NetLeft, ScreensAssumption
    <3> HIDE DEF got, r
    <3> QED BY <1>1, <1>3, <1>4, <2>1, <3>1 DEF DetailInv, DetailTypes
  <2>4. CASE screen # "post"
    <3>1. TookBy(r)
      <4> HIDE DEF got, r
      <4>1. TookFlags(r)
        BY <1>1, <1>3, <1>4, <2>1 DEF TookFlags, Flags, Behind
      <4> QED BY <1>1, <1>3, <1>4, <2>1, <2>4, <4>1 DEF TookBy, TookThing, TookEvent, Taken, D!WithNotes
    <3> QED BY <1>1, <2>1, <3>1, Took
  <2> QED BY <2>2, <2>3, <2>4
<1>5. CASE r.state = "ok" /\ screen = "post" /\ page.thing = null
  <2> DEFINE q == D!Request("notes", null)
  <2>1. page' = got /\ D!SendsAll(rest, <<q>>)
    BY <1>5 DEF D!Loaded, D!Rest
  <2>2. q \in Calls(screen) /\ q.kind = "notes" /\ q.state = "sent"
    <3>1. "notes" \in KindsOf[screen] /\ null \in Arguments
      BY <1>5 DEF KindsOf, Arguments, Own
    <3> QED BY <1>1, <3>1, Requests
  <2>3. rest \in Seq(Calls(screen))
    BY <1>1, NetLeft
  <2>4. r.ans # null
    <3>1. r.ans \in [count : Nat]
      BY <1>1, <1>5 DEF Told
    <3> QED BY <3>1, ScreensAssumption
  <2> HIDE DEF q, rest, r, got
  <2>5. net' = Append(rest, q) /\ net' \in Seq(Calls(screen)) /\ \A x : x \in spoiled' => x \in spoiled \/ x \in D!Part(q.kind)
    BY <2>1, <2>2, <2>3, Sending
  <2>6. DetailTypes'
    <3>1. spoiled' \subseteq {"thing", "notes", "star", "rsvp"}
      BY <1>1, <2>2, <2>5, Parts DEF DetailTypes
    <3> QED BY <1>1, <1>3, <1>5, <2>1, <2>4, <2>5, <3>1 DEF DetailTypes
  <2> SUFFICES ASSUME ~page.error PROVE Shown'
    BY <1>3, <1>5, <2>1, <2>6 DEF DetailInv
  <2>7. Shown
    BY <1>1 DEF DetailInv
  <2>8. Flagged'
    <3>1. FlagsIn(net, page.busy) /\ page.busy \in SUBSET Flags /\ net \in Seq(Calls(screen))
      BY <1>1, <2>7 DEF Shown, Flagged, ThingPages, DetailTypes
    <3>2. FlagsIn(rest, page.busy \ {"acting"})
      BY <1>1, <3>1, FlagsTaken DEF Flags, Behind, rest, r
    <3>3. page.busy \ {"acting"} \in SUBSET Flags
      BY <3>1
    <3>4. FlagsIn(Append(rest, q), page.busy \ {"acting"})
      BY <2>2, <2>3, <3>2, <3>3, FlagsSent
    <3> QED BY <1>3, <1>5, <2>1, <2>5, <3>4 DEF Flagged
  <2>9. NotesHold'
    <3>1. NotesHold
      BY <1>5, <2>7 DEF Shown, D!WithNotes
    <3>2. page'.thing = r.ans /\ page'.notes = page.notes /\ page'.loading = page.loading
      BY <1>3, <1>5, <2>1
    <3> QED BY <1>1, <1>5, <2>1, <2>2, <3>1, <3>2, NotesAsked DEF rest, r
  <2>10. screen' = "post" /\ page'.mine = null
    BY <1>1, <1>3, <1>5, <2>1, <2>7 DEF Shown
  <2> QED BY <2>8, <2>9, <2>10 DEF Shown, D!Joinable
<1> QED BY <1>1, <1>2, <1>4, <1>5

\* The server answers.
LEMMA DetailsServed ==
  ASSUME DetailInv, NEW i \in DOMAIN net, D!Serve(i)
  PROVE  DetailInv'
<1>1. DetailTypes /\ page \in ThingPages(screen) /\ net \in Seq(Calls(screen)) /\ screen \in DOMAIN KindsOf
  BY DEF DetailInv, DetailTypes
<1>2. db' \in ThingStates /\ \E r \in Calls(screen) : ServedAs(i, r)
  BY <1>1, Serves
<1> PICK r \in Calls(screen) : ServedAs(i, r)
  BY <1>2
<1>3. /\ net' \in Seq(Calls(screen)) /\ net[i] \in Way(net) /\ r.kind = net[i].kind /\ Way(net') \subseteq Way(net) \cup {r}
  BY <1>1, NetAnswered
<1>4. UNCHANGED <<screen, viewer, page>> /\ net' = [net EXCEPT ![i] = r]
  BY DEF ServedAs
<1>5. spoiled' \subseteq spoiled \cup D!Part(r.kind)
  BY DEF ServedAs
<1>6. D!Part(r.kind) \subseteq {"thing", "notes", "star", "rsvp"}
  <2>1. r.kind \in KindsOf[screen]
    BY DEF Calls
  <2> QED BY <1>1, <2>1, Parts DEF KindsOf, Taken
<1>7. DetailTypes'
  <2>1. spoiled' \subseteq {"thing", "notes", "star", "rsvp"}
    BY <1>1, <1>5, <1>6 DEF DetailTypes
  <2>2. screen = "post" /\ page.thing = null => \A q \in Way(net') : q.kind = "load"
    BY <1>1, <1>3 DEF DetailTypes
  <2> QED BY <1>1, <1>2, <1>3, <1>4, <2>1, <2>2 DEF DetailTypes
<1> SUFFICES ASSUME page.here, ~page.error PROVE Shown'
  BY <1>4, <1>7 DEF DetailInv
<1>8. Shown
  BY DEF DetailInv
<1>9. Flagged' /\ One(net, {"publish"}) /\ One(net, {"save"}) /\ One(net, {"rsvp"})
  <2>1. FlagsIn(net, page.busy) /\ page.busy \in SUBSET Flags
    BY <1>1, <1>8 DEF Shown, Flagged, ThingPages
  <2>2. FlagsIn(net', page'.busy)
    BY <1>1, <1>3, <1>4, <2>1, FlagsServed
  <2>3. One(net, Behind["submitting"]) /\ One(net, Behind["savingComment"]) /\ One(net, Behind["busy"])
    BY <2>1 DEF FlagsIn, Flags
  <2> QED BY <2>2, <2>3 DEF Flagged, Behind
<1>10. screen' \in D!Joinable \cup {"poll"} => ThingCurrent'
  BY <1>1, <1>4, <1>8, ThingServed DEF Shown
<1>11. screen' = "event" => EventCurrent'
  BY <1>1, <1>4, <1>8, <1>9, EventServed DEF Shown
<1>12. screen' \in D!WithNotes => NotesHold'
  BY <1>1, <1>4, <1>8, <1>9, NotesServed DEF Shown
<1> QED BY <1>4, <1>8, <1>9, <1>10, <1>11, <1>12 DEF Shown

\* The session is restored.
LEMMA DetailsRestored ==
  ASSUME DetailInv, NEW v \in {"nobody", "me"}, D!SessionRestored(v)
  PROVE  DetailInv'
<1>1. DetailTypes /\ net \in Seq(Calls(screen)) /\ page \in ThingPages(screen) /\ viewer = "waiting" /\ viewer' = v
      /\ UNCHANGED <<screen, db, page>>
  BY DEF DetailInv, DetailTypes, D!SessionRestored
<1>2. D!Who = "nobody"
  BY <1>1 DEF D!Who
<1>3. CASE screen = "event" /\ v = "me"
  <2> DEFINE r == [D!Request("load", null) EXCEPT !.who = "me"]
             s == [D!Request("stars", null) EXCEPT !.who = "me"]
  <2>1. D!SendsAll(net, <<r, s>>)
    BY <1>3 DEF D!SessionRestored
  <2>2. /\ r \in Calls(screen) /\ r.kind = "load" /\ r.who = "me" /\ r.state = "sent"
        /\ s \in Calls(screen) /\ s.kind = "stars" /\ s.state = "sent"
    <3>1. {"load", "stars"} \subseteq KindsOf[screen]
      BY <1>3 DEF KindsOf
    <3>2. null \in Arguments /\ null \in Answers(screen)
      BY DEF Arguments, Own, Answers
    <3>3. /\ r = [kind |-> "load", arg |-> null, who |-> "me", state |-> "sent", ans |-> null]
          /\ s = [kind |-> "stars", arg |-> null, who |-> "me", state |-> "sent", ans |-> null]
      BY DEF D!Request
    <3> HIDE DEF r, s
    <3> QED BY <3>1, <3>2, <3>3 DEF Calls, Fits
  <2> HIDE DEF r, s
  <2>3. /\ net' = Append(Append(net, r), s) /\ spoiled' \subseteq spoiled \cup {"thing", "star"}
        /\ EventCurrent => EventCurrent'
    BY <1>1, <1>3, <2>1, <2>2, EventAsked
  <2>4. Append(net, r) \in Seq(Calls(screen)) /\ net' \in Seq(Calls(screen))
    BY <1>1, <2>2, <2>3
  <2>5. DetailTypes'
    <3>1. spoiled' \subseteq {"thing", "notes", "star", "rsvp"}
      BY <1>1, <2>3 DEF DetailTypes
    <3> QED BY <1>1, <1>3, <2>4, <3>1 DEF DetailTypes
  <2> SUFFICES ASSUME Shown PROVE Shown'
    BY <1>1, <2>5 DEF DetailInv
  <2>6. Flagged'
    <3>1. FlagsIn(net, page.busy) /\ page.busy \in SUBSET Flags
      BY <1>1 DEF Shown, Flagged, ThingPages
    <3>2. FlagsIn(Append(net, r), page.busy)
      BY <1>1, <2>2, <3>1, FlagsSent
    <3>3. FlagsIn(Append(Append(net, r), s), page.busy)
      BY <2>2, <2>4, <3>1, <3>2, FlagsSent
    <3> QED BY <1>1, <2>3, <3>3 DEF Flagged
  <2> QED BY <1>1, <1>3, <2>3, <2>6 DEF Shown, D!Joinable, D!WithNotes
<1>4. CASE ~(screen = "event" /\ v = "me")
  <2>1. UNCHANGED <<net, spoiled>>
    BY <1>4 DEF D!SessionRestored
  <2>2. DetailTypes'
    BY <1>1, <2>1 DEF DetailTypes
  <2> SUFFICES ASSUME Shown PROVE Shown'
    BY <1>1, <2>2 DEF DetailInv
  <2>3. screen' \in D!Joinable \cup {"poll"} => ThingCurrent'
    BY <1>1, <2>1, ThingRests DEF Shown
  <2>4. screen' = "event" => EventCurrent'
    <3> SUFFICES ASSUME screen = "event" PROVE EventCurrent'
      BY <1>1
    <3>1. v = "nobody" /\ D!Who' = "nobody"
      BY <1>1, <1>4 DEF D!Who
    <3> QED BY <1>1, <1>2, <2>1, <3>1, EventRests DEF Shown
  <2>5. screen' \in D!WithNotes => NotesHold'
    BY <1>1, <2>1, NotesRest DEF Shown
  <2>6. Flagged' /\ (screen' # "event" => page'.mine = null)
    BY <1>1, <2>1 DEF Shown, Flagged
  <2> QED BY <2>3, <2>4, <2>5, <2>6 DEF Shown
<1> QED BY <1>3, <1>4

\* Somebody else changes something.
LEMMA DetailsMoved ==
  ASSUME DetailInv, D!Moved
  PROVE  DetailInv'
<1>1. DetailTypes /\ db \in ThingStates /\ UNCHANGED <<screen, viewer, page, net>>
  BY DEF DetailInv, DetailTypes, D!Moved
<1> DEFINE Spoiling(parts) == spoiled' = spoiled \cup parts
<1>2. ASSUME db' \in ThingStates, spoiled \subseteq spoiled', spoiled' \subseteq spoiled \cup {"thing", "notes"},
             \/ db'.notes = db.notes /\ db'.next = db.next
             \/ /\ db' = [db EXCEPT !.notes = Append(@, <<db.next, 1>>), !.next = @ + 1]
                /\ {"notes", "thing"} \subseteq spoiled',
             db'.star = db.star, db'.own = db.own,
             "thing" \in spoiled' \/ \A who : Says(screen, db', who) = Says(screen, db, who)
      PROVE  DetailInv'
  <2>1. DetailTypes'
    <3>1. spoiled' \subseteq {"thing", "notes", "star", "rsvp"}
      BY <1>1, <1>2 DEF DetailTypes
    <3> QED BY <1>1, <1>2, <3>1 DEF DetailTypes
  <2> SUFFICES ASSUME Shown PROVE Shown'
    BY <1>1, <2>1 DEF DetailInv
  <2>2. screen' \in D!Joinable \cup {"poll"} => ThingCurrent'
    BY <1>1, <1>2, ThingRests DEF Shown
  <2>3. screen' = "event" => EventCurrent'
    <3>1. D!Who' = D!Who
      BY <1>1 DEF D!Who
    <3>2. "star" \in spoiled' => "star" \in spoiled
      BY <1>2
    <3> QED BY <1>1, <1>2, <3>1, <3>2, EventRests DEF Shown
  <2>4. screen' \in D!WithNotes => NotesHold'
    <3> SUFFICES ASSUME screen \in D!WithNotes PROVE NotesHold'
      BY <1>1
    <3>1. NotesHold
      BY DEF Shown
    <3>2. CASE db'.notes = db.notes /\ db'.next = db.next
      BY <1>1, <1>2, <3>1, <3>2, NotesRest
    <3>3. CASE /\ db' = [db EXCEPT !.notes = Append(@, <<db.next, 1>>), !.next = @ + 1]
               /\ {"notes", "thing"} \subseteq spoiled'
      BY <1>1, <3>1, <3>3, NotesMoved
    <3> QED BY <1>2, <3>2, <3>3
  <2>5. Flagged' /\ (screen' # "event" => page'.mine = null)
    BY <1>1 DEF Shown, Flagged
  <2> QED BY <2>2, <2>3, <2>4, <2>5 DEF Shown
<1>3. CASE \E m \in {"none", "member"} : db' = [db EXCEPT !.mine = m] /\ Spoiling({"thing", "notes"})
  <2> PICK m \in {"none", "member"} : db' = [db EXCEPT !.mine = m] /\ Spoiling({"thing", "notes"})
    BY <1>3
  <2>1. db' \in ThingStates /\ db'.notes = db.notes /\ db'.next = db.next /\ db'.star = db.star /\ db'.own = db.own
    BY <1>1 DEF ThingStates, Relations
  <2> QED BY <1>2, <2>1
<1>4. CASE screen \in D!Joinable /\ db' = [db EXCEPT !.open = ~@] /\ spoiled' = spoiled
  <2>1. db' \in ThingStates /\ db'.notes = db.notes /\ db'.next = db.next /\ db'.star = db.star /\ db'.own = db.own
        /\ db'.mine = db.mine
    BY <1>1, <1>4 DEF ThingStates
  <2>2. \A who : Says(screen, db', who) = Says(screen, db, who)
    BY <1>4, <2>1 DEF Says
  <2> QED BY <1>2, <1>4, <2>1, <2>2
<1>5. CASE db' = [db EXCEPT !.closed = TRUE] /\ Spoiling({"thing"})
  <2>1. db' \in ThingStates /\ db'.notes = db.notes /\ db'.next = db.next /\ db'.star = db.star /\ db'.own = db.own
    BY <1>1, <1>5 DEF ThingStates
  <2> QED BY <1>2, <1>5, <2>1
<1>6. CASE db' = [db EXCEPT !.notes = Append(@, <<db.next, 1>>), !.next = @ + 1] /\ Spoiling({"notes", "thing"})
  <2> DEFINE more == Append(db.notes, <<db.next, 1>>)
             after == db.next + 1
  <2>1. db.notes \in Notes /\ db.next \in Nat
    BY <1>1 DEF ThingStates
  <2>2. more \in Notes /\ after \in Nat
    <3>1. after \in Nat
      BY <2>1
    <3>2. more \in Notes
      BY <2>1 DEF Notes
    <3> QED BY <3>1, <3>2
  <2>3. db' = [db EXCEPT !.notes = more, !.next = after]
    BY <1>1, <1>6 DEF ThingStates
  <2> HIDE DEF more, after
  <2>4. db' \in ThingStates /\ db'.star = db.star /\ db'.own = db.own
    BY <1>1, <2>2, <2>3 DEF ThingStates
  <2>5. /\ spoiled \subseteq spoiled' /\ spoiled' \subseteq spoiled \cup {"thing", "notes"}
        /\ {"notes", "thing"} \subseteq spoiled' /\ "thing" \in spoiled'
    BY <1>6
  <2> QED BY <1>2, <1>6, <2>4, <2>5, Zenon
<1> QED BY <1>3, <1>4, <1>5, <1>6 DEF D!Moved

\* Comments in order are what their ids and versions are.
LEMMA FirstDifference ==
  ASSUME NEW a \in Notes, NEW b \in Notes, Ascending(a), Ascending(b), Ids(a) = Ids(b), NEW k \in DOMAIN a \cap DOMAIN b,
         \A j \in DOMAIN a \cap DOMAIN b : j < k => a[j][1] = b[j][1]
  PROVE  ~(a[k][1] < b[k][1])
<1> SUFFICES ASSUME a[k][1] < b[k][1] PROVE FALSE
  OBVIOUS
<1>1. /\ k \in Nat /\ DOMAIN a = 1 .. Len(a) /\ DOMAIN b = 1 .. Len(b) /\ Len(a) \in Nat /\ Len(b) \in Nat
      /\ \A j \in DOMAIN b : b[j][1] \in Nat
      /\ \A j \in DOMAIN a : a[j][1] \in Nat
  BY DEF Notes
<1>2. a[k][1] \in Ids(b)
  BY DEF Ids
<1>3. PICK j \in DOMAIN b : b[j][1] = a[k][1]
  BY <1>2 DEF Ids
<1>4. j < k
  <2>1. ~(k < j)
    BY <1>1, <1>3 DEF Ascending
  <2>2. j # k
    BY <1>1, <1>3
  <2> QED BY <1>1, <2>1, <2>2
<1>5. j \in DOMAIN a
  BY <1>1, <1>4
<1>6. a[j][1] = b[j][1] /\ a[j][1] < a[k][1]
  BY <1>4, <1>5 DEF Ascending
<1> QED BY <1>1, <1>3, <1>5, <1>6

LEMMA SameNotes ==
  ASSUME NEW a \in Notes, NEW b \in Notes, Ascending(a), Ascending(b), Ids(a) = Ids(b),
         \A j \in DOMAIN a, k \in DOMAIN b : a[j][1] = b[k][1] => a[j][2] = b[k][2]
  PROVE  a = b
<1> DEFINE bad == {k \in DOMAIN a \cap DOMAIN b : a[k][1] # b[k][1]}
<1>1. /\ DOMAIN a = 1 .. Len(a) /\ DOMAIN b = 1 .. Len(b) /\ Len(a) \in Nat /\ Len(b) \in Nat
      /\ \A j \in DOMAIN b : b[j][1] \in Nat /\ b[j] = <<b[j][1], b[j][2]>>
      /\ \A j \in DOMAIN a : a[j][1] \in Nat /\ a[j] = <<a[j][1], a[j][2]>>
  BY DEF Notes
<1>2. bad = {}
  <2> SUFFICES ASSUME bad # {} PROVE FALSE
    OBVIOUS
  <2>1. bad \subseteq Nat
    BY <1>1
  <2>2. PICK k \in bad : \A j \in bad : ~(<<j, k>> \in OpToRel(<, Nat))
    <3> HIDE DEF bad
    <3> QED BY <2>1, NatLessThanWellFounded, WFMin
  <2>3. \A j \in bad : ~(j < k)
    BY <2>1, <2>2 DEF OpToRel
  <2>4. \A j \in DOMAIN a \cap DOMAIN b : j < k => a[j][1] = b[j][1]
    BY <2>3
  <2>5. ~(a[k][1] < b[k][1]) /\ ~(b[k][1] < a[k][1])
    BY <2>4, FirstDifference
  <2> QED BY <1>1, <2>5
<1>3. \A k \in DOMAIN a \cap DOMAIN b : a[k][1] = b[k][1]
  BY <1>2
<1> HIDE DEF bad
<1>4. ~(Len(a) < Len(b))
  <2> SUFFICES ASSUME Len(a) < Len(b) PROVE FALSE
    OBVIOUS
  <2> DEFINE k == Len(a) + 1
  <2>1. k \in DOMAIN b /\ \A j \in DOMAIN a : j < k /\ j \in DOMAIN b
    BY <1>1
  <2>2. b[k][1] \in Ids(a)
    BY <2>1 DEF Ids
  <2>3. PICK j \in DOMAIN a : a[j][1] = b[k][1]
    BY <2>2 DEF Ids
  <2>4. b[j][1] = b[k][1] /\ b[j][1] < b[k][1]
    BY <1>3, <2>1, <2>3 DEF Ascending
  <2> QED BY <1>1, <2>1, <2>4
<1>5. ~(Len(b) < Len(a))
  <2> SUFFICES ASSUME Len(b) < Len(a) PROVE FALSE
    OBVIOUS
  <2> DEFINE k == Len(b) + 1
  <2>1. k \in DOMAIN a /\ \A j \in DOMAIN b : j < k /\ j \in DOMAIN a
    BY <1>1
  <2>2. a[k][1] \in Ids(b)
    BY <2>1 DEF Ids
  <2>3. PICK j \in DOMAIN b : b[j][1] = a[k][1]
    BY <2>2 DEF Ids
  <2>4. a[j][1] = a[k][1] /\ a[j][1] < a[k][1]
    BY <1>3, <2>1, <2>3 DEF Ascending
  <2> QED BY <1>1, <2>1, <2>4
<1>6. DOMAIN a = DOMAIN b
  <2>1. Len(a) \in Nat /\ Len(b) \in Nat
    BY <1>1
  <2>2. Len(a) = Len(b)
    BY <1>4, <1>5, <2>1
  <2> QED BY <1>1, <2>2
<1>7. ASSUME NEW k \in DOMAIN a PROVE a[k] = b[k]
  <2>1. a[k][1] = b[k][1] /\ a[k][2] = b[k][2]
    BY <1>3, <1>6
  <2>2. a[k] = <<a[k][1], a[k][2]>> /\ b[k] = <<b[k][1], b[k][2]>>
    BY <1>1, <1>6
  <2> QED BY <2>1, <2>2
<1> QED BY <1>6, <1>7 DEF Notes

\* A page asks for its thing.
LEMMA DetailsStart ==
  ASSUME D!Init
  PROVE  DetailInv
<1>1. /\ screen \in {"community", "subgroup", "poll", "post", "event", "comments"} /\ spoiled = {}
      /\ viewer \in {"waiting", "me"} /\ (screen \in {"post", "comments"} => viewer = "me")
      /\ page = [thing |-> IF screen = "comments" THEN [of |-> "event"] ELSE null, who |-> "nobody", error |-> FALSE,
                 busy |-> {}, selection |-> null, notes |-> <<>>, loading |-> TRUE, star |-> FALSE, mine |-> null, here |-> TRUE]
  BY ScreensAssumption DEF D!Init
<1>2. screen \in DOMAIN KindsOf
  BY <1>1 DEF KindsOf
<1>3. PICK mine \in {"none", "member"}, secret \in BOOLEAN, open \in BOOLEAN :
        db = [mine |-> mine, secret |-> secret, open |-> open, gone |-> FALSE, closed |-> FALSE, opts |-> D!Option,
              own |-> null, notes |-> <<<<1, 1>>>>, next |-> 2, star |-> FALSE]
  BY DEF D!Init
<1>4. <<<<1, 1>>>> \in Notes /\ <<>> \in Notes
  BY DEF Notes
<1>5. db \in ThingStates /\ db.notes = <<<<1, 1>>>> /\ db.next = 2 /\ db.star = FALSE /\ db.own = null
  <2>1. null \in Own
    BY DEF Own
  <2> QED BY <1>3, <1>4, <2>1 DEF ThingStates, Relations
<1>6. /\ page \in ThingPages(screen) /\ page.thing = (IF screen = "comments" THEN [of |-> "event"] ELSE null)
      /\ page.busy = {} /\ page.notes = <<>> /\ page.loading /\ page.star = FALSE /\ page.mine = null
  <2>1. null \in Own
    BY DEF Own
  <2>2. (IF screen = "comments" THEN [of |-> "event"] ELSE null) \in Told[screen] \cup {null}
    <3>1. Told["comments"] = [of : {"event"}]
      BY DEF Told
    <3>2. [of |-> "event"] \in [of : {"event"}]
      OBVIOUS
    <3> QED BY <3>1, <3>2
  <2> QED BY <1>1, <1>4, <2>1, <2>2 DEF ThingPages
<1> DEFINE load == D!Request("load", null)
           stars == D!Request("stars", null)
           notes == D!Request("notes", null)
<1>7. /\ load = [kind |-> "load", arg |-> null, who |-> D!Who, state |-> "sent", ans |-> null]
      /\ stars = [kind |-> "stars", arg |-> null, who |-> D!Who, state |-> "sent", ans |-> null]
      /\ notes = [kind |-> "notes", arg |-> null, who |-> D!Who, state |-> "sent", ans |-> null]
  BY DEF D!Request
<1>8. net = IF screen = "event" /\ viewer = "me" THEN <<load, stars>> ELSE <<IF screen = "comments" THEN notes ELSE load>>
  BY <1>1 DEF D!Init
<1> HIDE DEF load, stars, notes
<1>9. /\ screen # "comments" => load \in Calls(screen)
      /\ screen = "event" => stars \in Calls(screen)
      /\ screen = "comments" => notes \in Calls(screen)
  <2>1. D!Who \in {"me", "nobody"} /\ null \in Arguments /\ null \in Answers(screen)
    BY DEF D!Who, Arguments, Own, Answers
  <2>2. /\ screen # "comments" => "load" \in KindsOf[screen]
        /\ screen = "event" => "stars" \in KindsOf[screen]
        /\ screen = "comments" => "notes" \in KindsOf[screen]
    BY <1>1 DEF KindsOf
  <2> QED BY <1>7, <2>1, <2>2 DEF Calls, Fits
<1>10. /\ net \in Seq(Calls(screen))
       /\ DOMAIN net = IF screen = "event" /\ viewer = "me" THEN {1, 2} ELSE {1}
       /\ net[1] = (IF screen = "comments" THEN notes ELSE load)
       /\ screen = "event" /\ viewer = "me" => net[2] = stars
  <2>1. CASE screen = "event" /\ viewer = "me"
    BY <1>8, <1>9, <2>1
  <2>2. CASE ~(screen = "event" /\ viewer = "me")
    <3> DEFINE r == IF screen = "comments" THEN notes ELSE load
    <3>1. net = <<r>> /\ r \in Calls(screen)
      BY <1>8, <1>9, <2>2
    <3> HIDE DEF r
    <3>2. net \in Seq(Calls(screen)) /\ DOMAIN net = {1} /\ net[1] = r
      BY <3>1
    <3> QED BY <2>2, <3>2 DEF r
  <2> QED BY <2>1, <2>2
<1>11. \A q \in Way(net) : /\ q.state = "sent" /\ q.who = D!Who /\ q.kind \in {"load", "stars", "notes"}
                           /\ q.kind = "notes" <=> screen = "comments"
                           /\ q.kind = "stars" => screen = "event" /\ viewer = "me"
  BY <1>7, <1>10 DEF Way
<1>12. /\ \A K : Ok(net, K) = {}
       /\ \A K : {"load", "stars"} \cap K = {} \/ {"stars", "notes"} \cap K = {} => One(net, K)
       /\ screen = "comments" => \A K : One(net, K)
  <2>1. \A K : Ok(net, K) = {}
    BY <1>11 DEF Ok
  <2>2. ASSUME NEW K, {"load", "stars"} \cap K = {} \/ {"stars", "notes"} \cap K = {} PROVE One(net, K)
    <3>1. net[1].kind \in {"load", "notes"} /\ (2 \in DOMAIN net => net[1].kind = "load" /\ net[2].kind = "stars")
      BY <1>7, <1>10
    <3> QED BY <1>10, <2>2, <3>1 DEF One
  <2>3. screen = "comments" => \A K : One(net, K)
    BY <1>10 DEF One
  <2> QED BY <2>1, <2>2, <2>3
<1>13. DetailTypes
  <2>1. screen = "post" => \A q \in Way(net) : q.kind = "load"
    BY <1>11
  <2> QED BY <1>1, <1>2, <1>5, <1>6, <1>10, <2>1 DEF DetailTypes
<1>14. Flagged
  <2>1. ASSUME NEW flag \in Flags \ {"acting", "deleteLoading"} PROVE One(net, Behind[flag]) /\ ~Some(net, Behind[flag])
    <3>1. {"load", "stars", "notes"} \cap Behind[flag] = {}
      BY <2>1 DEF Flags, Behind
    <3> QED BY <1>11, <1>12, <3>1 DEF Some
  <2> QED BY <1>6, <2>1 DEF Flagged, FlagsIn
<1>15. screen \in D!Joinable \cup {"poll"} => ThingCurrent
  <2> SUFFICES ASSUME screen \in D!Joinable \cup {"poll"} PROVE ThingCurrent
    OBVIOUS
  <2>1. page.thing = null
    BY <1>6 DEF D!Joinable
  <2>2. One(net, Taken)
    BY <1>12 DEF Taken
  <2> QED BY <1>12, <2>1, <2>2 DEF ThingCurrent
<1>16. screen = "event" => EventCurrent
  <2> SUFFICES ASSUME screen = "event" PROVE EventCurrent
    OBVIOUS
  <2>1. AsksForViewer
    BY <1>6, <1>11 DEF AsksForViewer
  <2>2. StarCurrent
    <3>1. One(net, {"star", "stars"})
      <4>1. net[1].kind = "load"
        BY <1>7, <1>10
      <4> QED BY <1>10, <4>1 DEF One
    <3>2. viewer # "me" => ~Some(net, {"star", "stars"})
      BY <1>11 DEF Some
    <3> QED BY <1>1, <1>5, <1>6, <1>12, <3>1, <3>2 DEF StarCurrent
  <2>3. RsvpCurrent
    BY <1>6, <1>12 DEF RsvpCurrent
  <2> QED BY <2>1, <2>2, <2>3 DEF EventCurrent
<1>17. screen \in D!WithNotes => NotesHold
  <2> SUFFICES ASSUME screen \in D!WithNotes PROVE NotesHold
    OBVIOUS
  <2>1. Publishing(net) = {} /\ Dropping(net) = {} /\ DroppedOnce(net)
    BY <1>12 DEF Publishing, Dropping, DroppedOnce
  <2>2. Ascending(db.notes) /\ Ids(db.notes) = {1} /\ Ids(page.notes) = {}
    <3>1. DOMAIN db.notes = {1} /\ db.notes[1][1] = 1
      BY <1>5
    <3> QED BY <1>6, <3>1 DEF Ascending, Ids
  <2>3. NotesKept
    BY <1>5, <1>11, <1>12, <2>1, <2>2 DEF NotesKept
  <2>4. NotesCurrent
    <3>1. screen = "post" => page.thing = null /\ ~Some(net, {"notes"})
      BY <1>6, <1>11 DEF Some
    <3>2. screen = "comments" => Some(net, {"notes"}) /\ One(net, OnNotes \cup {"notes"})
      <4>1. net[1] \in Way(net)
        BY <1>10 DEF Way
      <4> QED BY <1>11, <1>12, <4>1 DEF Some
    <3> QED BY <1>11, <1>12, <3>1, <3>2 DEF NotesCurrent, D!WithNotes
  <2>5. screen = "post" => PostOrder /\ CountCurrent
    <3> SUFFICES ASSUME screen = "post" PROVE PostOrder /\ CountCurrent
      OBVIOUS
    <3>1. page.thing = null /\ ~Some(net, OnNotes) /\ ~Some(net, {"notes"})
      BY <1>6, <1>11 DEF Some, OnNotes
    <3>2. One(net, {"load"}) /\ One(net, {"notes"})
      BY <1>12
    <3> QED BY <1>6, <1>12, <2>1, <3>1, <3>2 DEF PostOrder, CountCurrent, Unseen
  <2> QED BY <2>3, <2>4, <2>5 DEF NotesHold
<1> QED BY <1>6, <1>13, <1>14, <1>15, <1>16, <1>17 DEF DetailInv, Shown

\* Where nothing is under way, the page is what the server tells.
LEMMA DetailsTrue ==
  ASSUME DetailInv
  PROVE  D!CopiesAreTrue
<1> SUFFICES ASSUME D!Quiet, D!Loaded1
             PROVE  /\ page.busy = {}
                    /\ ("thing" \notin spoiled /\ screen \notin {"event", "comments"}) => page.thing = D!View(db, page.who)
                    /\ ("thing" \notin spoiled /\ screen = "event") => page.who = D!Who
                    /\ ("notes" \notin spoiled /\ screen \in D!WithNotes) => page.notes = db.notes
                    /\ ("star" \notin spoiled /\ screen = "event" /\ viewer = "me") => page.star = db.star
                    /\ ("rsvp" \notin spoiled /\ page.mine # null) => page.mine = db.own
  BY DEF D!CopiesAreTrue
<1>1. page.here /\ ~page.error /\ page.thing # null /\ Way(net) = {}
  BY DEF D!Quiet, D!Loaded1, Way
<1>2. DetailTypes /\ Shown /\ page \in ThingPages(screen) /\ screen \in DOMAIN KindsOf
  BY <1>1 DEF DetailInv, DetailTypes
<1>3. \A K : ~Some(net, K) /\ Ok(net, K) = {}
  BY <1>1 DEF Some, Ok
<1>4. page.busy = {}
  <2>1. page.busy \subseteq Flags /\ \A flag \in page.busy : Some(net, Behind[flag])
    BY <1>2 DEF Shown, Flagged, FlagsIn, ThingPages
  <2> QED BY <1>3, <2>1
<1>5. ASSUME "thing" \notin spoiled, screen \notin {"event", "comments"} PROVE page.thing = D!View(db, page.who)
  <2>1. CASE screen \in D!Joinable \cup {"poll"}
    <3>1. page.thing = Says(screen, db, page.who)
      BY <1>1, <1>2, <1>3, <1>5, <2>1 DEF Shown, ThingCurrent
    <3> QED BY <3>1, ViewIs
  <2>2. CASE screen = "post"
    <3>1. page.thing.count + Cardinality(Publishing(net)) = Len(db.notes) + Cardinality(Dropping(net))
      BY <1>1, <1>2, <1>5, <2>2 DEF Shown, NotesHold, CountCurrent, D!WithNotes
    <3>2. Publishing(net) = {} /\ Dropping(net) = {}
      BY <1>3 DEF Publishing, Dropping
    <3>3. page.thing \in [count : Nat] /\ Len(db.notes) \in Nat
      <4>1. page.thing \in [count : Nat]
        BY <1>1, <1>2, <2>2 DEF ThingPages, Told
      <4> QED BY <1>2, <4>1, NoteNumbers
    <3>4. page.thing.count = Len(db.notes)
      <4>1. page.thing.count + 0 = Len(db.notes) + 0
        BY <3>1, <3>2, FS_EmptySet
      <4> QED BY <3>3, <4>1
    <3>5. page.thing = Says(screen, db, page.who)
      BY <2>2, <3>3, <3>4 DEF Says, D!Joinable
    <3> QED BY <3>5, ViewIs
  <2> QED BY <1>2, <1>5, <2>1, <2>2 DEF KindsOf, D!Joinable
<1>6. ("thing" \notin spoiled /\ screen = "event") => page.who = D!Who
  BY <1>1, <1>2, <1>3 DEF Shown, EventCurrent, AsksForViewer
<1>7. ASSUME "notes" \notin spoiled, screen \in D!WithNotes PROVE page.notes = db.notes
  <2>1. NotesKept /\ NotesCurrent
    BY <1>2, <1>7 DEF Shown, NotesHold
  <2>2. Publishing(net) = {} /\ Dropping(net) = {} /\ Saving(net) = {}
    BY <1>3 DEF Publishing, Dropping, Saving
  <2>3. /\ Ascending(page.notes) /\ Versions
        /\ \A n : n \in Ids(db.notes) <=> n \in Ids(page.notes) \cup Publishing(net) /\ n \notin Dropping(net)
    BY <1>1, <1>3, <1>7, <2>1 DEF NotesCurrent
  <2>4. Ascending(db.notes) /\ Ids(db.notes) = Ids(page.notes)
    BY <2>1, <2>2, <2>3 DEF NotesKept
  <2>5. \A j \in DOMAIN db.notes, k \in DOMAIN page.notes :
           db.notes[j][1] = page.notes[k][1] => db.notes[j][2] = page.notes[k][2]
    BY <2>2, <2>3 DEF Versions
  <2>6. db.notes \in Notes /\ page.notes \in Notes
    BY <1>2, NoteNumbers
  <2> QED BY <2>3, <2>4, <2>5, <2>6, SameNotes
<1>8. ("star" \notin spoiled /\ screen = "event" /\ viewer = "me") => page.star = db.star
  BY <1>2, <1>3 DEF Shown, EventCurrent, StarCurrent
<1>9. ("rsvp" \notin spoiled /\ page.mine # null) => page.mine = db.own
  BY <1>2, <1>3 DEF Shown, EventCurrent, RsvpCurrent
<1> QED BY <1>4, <1>5, <1>6, <1>7, <1>8, <1>9

\* Nothing happens to it.
LEMMA DetailsRest ==
  ASSUME DetailInv, UNCHANGED <<screen, db, viewer, page, net, spoiled>>
  PROVE  DetailInv'
<1>1. DetailTypes'
  BY DEF DetailInv, DetailTypes
<1> SUFFICES ASSUME Shown PROVE Shown'
  BY <1>1 DEF DetailInv
<1>2. screen' \in D!Joinable \cup {"poll"} => ThingCurrent'
  BY ThingRests DEF Shown
<1>3. screen' = "event" => EventCurrent'
  <2>1. D!Who' = D!Who
    BY DEF D!Who
  <2> QED BY <2>1, EventRests DEF Shown
<1>4. screen' \in D!WithNotes => NotesHold'
  BY NotesRest DEF Shown
<1>5. Flagged' /\ (screen' # "event" => page'.mine = null)
  BY DEF Shown, Flagged
<1> QED BY <1>2, <1>3, <1>4, <1>5 DEF Shown

LEMMA DetailsNext ==
  ASSUME DetailInv, D!Next
  PROVE  DetailInv'
<1>1. CASE D!Acts
  BY <1>1, DetailsAct
<1>2. CASE \E v \in {"nobody", "me"} : D!SessionRestored(v)
  BY <1>2, DetailsRestored
<1>3. CASE D!Moved
  BY <1>3, DetailsMoved
<1>4. ASSUME NEW i \in DOMAIN net,
             \/ D!Serve(i) \/ D!Loaded(i) \/ D!JoinDone(i) \/ D!LeaveDone(i) \/ D!PollChanged(i) \/ D!NotesCome(i) \/ D!Published(i)
             \/ D!CommentSaved(i) \/ D!CommentDeleted(i) \/ D!StarsCome(i) \/ D!StarSet(i) \/ D!RsvpSet(i) \/ D!Deleted(i)
      PROVE  DetailInv'
  BY <1>4, DetailsServed, LoadTaken, JoinTaken, LeaveTaken, PollTaken, NotesComeTaken, PublishTaken, SaveTaken, DropTaken,
     StarsTaken, DeleteTaken
<1> QED BY <1>1, <1>2, <1>3, <1>4 DEF D!Next, D!Happens

\* Whenever nothing is under way, a page that shows its thing is a true copy of what the
\* server tells whom it asked for - the community's membership, the poll, the number of
\* comments, the comments, the favourite, the viewer's answer - and no button waits, unless
\* two answers about that part crossed, one was lost, or others changed it.
THEOREM CopiesStayTrue == HostSpec => []CopiesAreTrue
<1> DEFINE I == part = "details" => DetailInv
<1>1. HostInit => I
  BY DetailsStart DEF HostInit, CommunitiesInit, DetailsInit, RostersInit
<1>2. I /\ [CommunitiesStep \/ DetailsStep \/ RostersStep]_all => I'
  <2> SUFFICES ASSUME I, [CommunitiesStep \/ DetailsStep \/ RostersStep]_all, part' = "details" PROVE DetailInv'
    OBVIOUS
  <2>1. CASE CommunitiesStep \/ RostersStep
    BY <2>1 DEF CommunitiesStep, RostersStep
  <2>2. CASE DetailsStep
    BY <2>2, DetailsNext DEF DetailsStep
  <2>3. CASE UNCHANGED all
    <3>1. UNCHANGED <<part, screen, db, viewer, page, net, spoiled>>
      BY <2>3 DEF all, pages
    <3> QED BY <3>1, DetailsRest
  <2> QED BY <2>1, <2>2, <2>3
<1>3. I => CopiesAreTrue
  BY DetailsTrue DEF CopiesAreTrue
<1> HIDE DEF I
<1> QED BY <1>1, <1>2, <1>3, PTL DEF HostSpec

\* Both kinds of pages: what they show is what the server would answer.
THEOREM PagesStayTrue == HostSpec => []PagesAreTrue
<1>1. CopiesAreTrue /\ RosterFits => PagesAreTrue
  BY DEF PagesAreTrue
<1> QED BY <1>1, CopiesStayTrue, ListsFit, PTL
=============================================================================
