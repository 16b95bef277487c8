--------------------------- MODULE SubgroupsProofs ---------------------------
(***************************************************************************)
(* Theorems about Subgroups for every set of accounts, subgroups and       *)
(* request slots, and about the news and series (Articles) for every       *)
(* number of titles, tags, events and requests.                            *)
(***************************************************************************)
EXTENDS MCSubgroups, TLAPS

\* The fields of a request are those of its kind.
LEMMA RequestFields ==
  ASSUME NEW r \in Request
  PROVE  /\ r.op = "create" => r.u \in User /\ r.vis \in Visibility
         /\ r.op \in {"save", "open"} => r.s \in Subgroup /\ r.vis \in Visibility
         /\ r.op = "admit" => r.s \in Subgroup /\ r.users \in SUBSET User
         /\ r.op = "remove" => r.s \in Subgroup
         /\ r.op \in {"enter", "ask", "approve", "reject", "drop"} =>
              r.s \in Subgroup /\ r.u \in User
         /\ r.op = "role" => r.s \in Subgroup /\ r.u \in User /\ r.role \in {"member", "moderator"}
BY DEF Request, Idle

\* Ending a request keeps the type of the requests.
LEMMA FinishType ==
  ASSUME req \in [Proc -> Request], NEW p \in Proc, Finish(p)
  PROVE  req' \in [Proc -> Request]
BY DEF Finish, Request

\* The actions that only read: everything that checks and then waits.
ReadStep(p) ==
  \/ \E a \in User, v \in Visibility : BeginCreate(p, a, v)
  \/ \E a \in User, s \in Subgroup, v \in Visibility : BeginSave(p, a, s, v)
  \/ \E a \in User, s \in Subgroup : BeginOpen(p, a, s)
  \/ \E a \in User, s \in Subgroup : BeginRemove(p, a, s)
  \/ \E u \in User, s \in Subgroup : BeginJoin(p, u, s)
  \/ \E a, u \in User, s \in Subgroup : BeginInvite(p, a, u, s)
  \/ \E a, u \in User, s \in Subgroup, op \in {"approve", "reject"} : BeginDecide(p, a, u, s, op)
  \/ \E a, u \in User, s \in Subgroup : BeginDrop(p, a, u, s)
  \/ \E a, u \in User, s \in Subgroup, r \in {"member", "moderator"} :
       BeginUpdateMemberRole(p, a, u, s, r)

\* They change no row and keep the type of the requests.
LEMMA ReadStepType ==
  ASSUME TypeOK, NEW p \in Proc, ReadStep(p)
  PROVE  /\ UNCHANGED rows
         /\ req' \in [Proc -> Request]
<1> USE DEF TypeOK, Begin, Request
<1>1. CASE \E a \in User, v \in Visibility : BeginCreate(p, a, v)
  BY <1>1 DEF BeginCreate
<1>2. CASE \E a \in User, s \in Subgroup, v \in Visibility : BeginSave(p, a, s, v)
  BY <1>2 DEF BeginSave
<1>3. CASE \E a \in User, s \in Subgroup : BeginOpen(p, a, s)
  BY <1>3 DEF BeginOpen, Visibility
<1>4. CASE \E a \in User, s \in Subgroup : BeginRemove(p, a, s)
  BY <1>4 DEF BeginRemove
<1>5. CASE \E u \in User, s \in Subgroup : BeginJoin(p, u, s)
  BY <1>5 DEF BeginJoin
<1>6. CASE \E a, u \in User, s \in Subgroup : BeginInvite(p, a, u, s)
  BY <1>6 DEF BeginInvite
<1>7. CASE \E a, u \in User, s \in Subgroup, op \in {"approve", "reject"} : BeginDecide(p, a, u, s, op)
  BY <1>7 DEF BeginDecide
<1>8. CASE \E a, u \in User, s \in Subgroup : BeginDrop(p, a, u, s)
  BY <1>8 DEF BeginDrop
<1>9. CASE \E a, u \in User, s \in Subgroup, r \in {"member", "moderator"} :
             BeginUpdateMemberRole(p, a, u, s, r)
  BY <1>9 DEF BeginUpdateMemberRole
<1> QED BY <1>1, <1>2, <1>3, <1>4, <1>5, <1>6, <1>7, <1>8, <1>9 DEF ReadStep

\* Every step of the specification is one of these.
LEMMA StepCases ==
  ASSUME Next
  PROVE  \/ \E u \in User : EnterCommunity(u) \/ LeaveCommunity(u)
         \/ \E u \in User, r \in {"member", "admin"} : SetCommunityRole(u, r)
         \/ \E b \in BOOLEAN : SetSuspended(b)
         \/ \E p \in Proc :
              \/ ReadStep(p)
              \/ \E s \in Subgroup : Create(p, s)
              \/ Save(p) \/ Admit(p) \/ CommitOpen(p) \/ Remove(p)
              \/ Enter(p) \/ Ask(p) \/ Reject(p)
              \/ Drop(p) \/ UpdateMemberRole(p) \/ Abort(p)
BY DEF Next, CommunityStep, EditStep, MemberStep, ReadStep

\* What an insert of several rows leaves behind.
LEMMA AddMembersEffect ==
  ASSUME role \in [Subgroup -> [User -> Role]], NEW s \in Subgroup, NEW S, AddMembers(s, S)
  PROVE  /\ role' \in [Subgroup -> [User -> Role]]
         /\ \A t \in Subgroup \ {s} : role'[t] = role[t]
         /\ Members(s)' = Members(s) \cup (S \cap User)
BY DEF AddMembers, Members, Role

\* What a write of one row leaves behind.
LEMMA SetRowEffect ==
  ASSUME role \in [Subgroup -> [User -> Role]], NEW s \in Subgroup, NEW u \in User, NEW r \in Role,
         role' = [role EXCEPT ![s] = [@ EXCEPT ![u] = r]]
  PROVE  /\ role' \in [Subgroup -> [User -> Role]]
         /\ \A t \in Subgroup \ {s} : role'[t] = role[t]
BY DEF Role

\* Types and foreign keys hold in every state.
THEOREM TypeCorrect == Spec => []TypeOK
<1> USE DEF TypeOK
<1>1. Init => TypeOK
  <2> SUFFICES ASSUME Init PROVE TypeOK
    OBVIOUS
  <2>1. life \in [Subgroup -> {"unborn", "live", "gone"}]
    BY DEF Init
  <2>2. req \in [Proc -> Request]
    BY DEF Init, Request
  <2>3. role \in [Subgroup -> [User -> Role]] /\ pending \in [Subgroup -> SUBSET User]
    BY DEF Init, Role
  <2> QED BY <2>1, <2>2, <2>3 DEF Init, NoStrayRows
<1>2. TypeOK /\ [Next]_vars => TypeOK'
  <2> SUFFICES ASSUME TypeOK, [Next]_vars PROVE TypeOK'
    OBVIOUS
  <2>1. ASSUME NEW u \in User, EnterCommunity(u) \/ LeaveCommunity(u) PROVE TypeOK'
    <3>1. CASE EnterCommunity(u)
      BY <3>1 DEF EnterCommunity, NoStrayRows, Live
    <3>2. CASE LeaveCommunity(u)
      <4>1. /\ crew' \in [User -> {"none", "member", "admin"}]
            /\ UNCHANGED <<suspended, life, vis, req>>
        BY <3>2 DEF LeaveCommunity
      <4>2. /\ role' \in [Subgroup -> [User -> Role]]
            /\ pending' \in [Subgroup -> SUBSET User]
        BY <3>2 DEF LeaveCommunity, DropSubgroupAccess, Role
      <4>3. NoStrayRows'
        BY <3>2, <4>1 DEF LeaveCommunity, DropSubgroupAccess, NoStrayRows, Live
      <4> QED BY <4>1, <4>2, <4>3
    <3> QED BY <2>1, <3>1, <3>2
  <2>2. ASSUME NEW u \in User, NEW r \in {"member", "admin"}, SetCommunityRole(u, r) PROVE TypeOK'
    BY <2>2 DEF SetCommunityRole, NoStrayRows, Live
  <2>3. ASSUME NEW b \in BOOLEAN, SetSuspended(b) PROVE TypeOK'
    BY <2>3 DEF SetSuspended, NoStrayRows, Live
  <2>4. ASSUME NEW p \in Proc, ReadStep(p) PROVE TypeOK'
    BY <2>4, ReadStepType DEF rows, NoStrayRows, Live
  <2>5. ASSUME NEW p \in Proc, NEW s \in Subgroup, Create(p, s) PROVE TypeOK'
    <3>1. req[p].u \in User /\ req[p].vis \in Visibility
      BY <2>5, RequestFields DEF Create
    <3>2. req' \in [Proc -> Request]
      BY <2>5, FinishType DEF Create
    <3>3. /\ role' \in [Subgroup -> [User -> Role]]
          /\ \A t \in Subgroup \ {s} : role'[t] = role[t]
      BY <2>5, <3>1, SetRowEffect DEF Create, Role
    <3>4. NoStrayRows'
      BY <2>5, <3>3 DEF Create, NoStrayRows, Live
    <3> QED BY <2>5, <3>1, <3>2, <3>3, <3>4 DEF Create
  <2>6. ASSUME NEW p \in Proc, Save(p) PROVE TypeOK'
    <3>1. req[p].s \in Subgroup /\ req[p].vis \in Visibility
      BY <2>6, RequestFields DEF Save
    <3>2. req' \in [Proc -> Request]
      BY <2>6, FinishType DEF Save
    <3> QED BY <2>6, <3>1, <3>2 DEF Save, NoStrayRows, Live
  <2>7. ASSUME NEW p \in Proc, Admit(p) PROVE TypeOK'
    <3>1. req[p].s \in Subgroup
      BY <2>7, RequestFields DEF Admit
    <3>2. [op |-> "admit", s |-> req[p].s,
            users |-> {u \in OfCrew(pending[req[p].s]) : role[req[p].s][u] = "none"}] \in Request
      BY <3>1 DEF Request, OfCrew, Crew
    <3>3. req' \in [Proc -> Request]
      BY <2>7, <3>2 DEF Admit
    <3> QED BY <2>7, <3>3 DEF Admit, rows, NoStrayRows, Live
  <2>8. ASSUME NEW p \in Proc, CommitOpen(p) PROVE TypeOK'
    <3>1. req[p].s \in Subgroup /\ req[p].users \in SUBSET User
      BY <2>8, RequestFields DEF CommitOpen
    <3>2. req' \in [Proc -> Request]
      BY <2>8, FinishType DEF CommitOpen
    <3>3. AddMembers(req[p].s, req[p].users)
      BY <2>8 DEF CommitOpen
    <3>4. /\ role' \in [Subgroup -> [User -> Role]]
          /\ \A t \in Subgroup \ {req[p].s} : role'[t] = role[t]
      BY <3>1, <3>3, AddMembersEffect
    <3>5. /\ life' = [life EXCEPT ![req[p].s] = "live"]
          /\ vis' \in [Subgroup -> Visibility]
          /\ pending' = [pending EXCEPT ![req[p].s] = @ \ OfCrew(@)]
          /\ UNCHANGED <<crew, suspended>>
      BY <2>8 DEF CommitOpen, Visibility
    <3>6. NoStrayRows'
      BY <3>1, <3>4, <3>5 DEF NoStrayRows, Live
    <3> QED BY <3>1, <3>2, <3>4, <3>5, <3>6
  <2>9. ASSUME NEW p \in Proc, Remove(p) PROVE TypeOK'
    <3>1. req[p].s \in Subgroup
      BY <2>9, RequestFields DEF Remove
    <3>2. req' \in [Proc -> Request]
      BY <2>9, FinishType DEF Remove
    <3> QED BY <2>9, <3>1, <3>2 DEF Remove, NoStrayRows, Live, Role
  <2>10. ASSUME NEW p \in Proc, Enter(p) PROVE TypeOK'
    <3>1. req[p].s \in Subgroup /\ req[p].u \in User
      BY <2>10, RequestFields DEF Enter
    <3>2. req' \in [Proc -> Request]
      BY <2>10, FinishType DEF Enter
    <3>3. AddMembers(req[p].s, OfCrew({req[p].u}))
      BY <2>10 DEF Enter
    <3>4. /\ role' \in [Subgroup -> [User -> Role]]
          /\ \A t \in Subgroup \ {req[p].s} : role'[t] = role[t]
      BY <3>1, <3>3, AddMembersEffect
    <3>5. /\ Live(req[p].s)
          /\ pending' = [pending EXCEPT ![req[p].s] = @ \ {req[p].u}]
          /\ UNCHANGED <<crew, suspended, life, vis>>
      BY <2>10 DEF Enter
    <3>6. NoStrayRows'
      BY <3>1, <3>4, <3>5 DEF NoStrayRows, Live
    <3> QED BY <3>1, <3>2, <3>4, <3>5, <3>6
  <2>11. ASSUME NEW p \in Proc, Ask(p) \/ Reject(p) PROVE TypeOK'
    <3>1. req[p].s \in Subgroup /\ req[p].u \in User
      BY <2>11, RequestFields DEF Ask, Reject
    <3>2. req' \in [Proc -> Request]
      BY <2>11, FinishType DEF Ask, Reject
    <3>3. CASE Ask(p)
      BY <3>1, <3>2, <3>3 DEF Ask, NoStrayRows, Live
    <3>4. CASE Reject(p)
      BY <3>1, <3>2, <3>4 DEF Reject, NoStrayRows, Live
    <3> QED BY <2>11, <3>3, <3>4
  <2>12. ASSUME NEW p \in Proc, Drop(p) PROVE TypeOK'
    <3>1. req[p].s \in Subgroup /\ req[p].u \in User
      BY <2>12, RequestFields DEF Drop
    <3>2. req' \in [Proc -> Request]
      BY <2>12, FinishType DEF Drop
    <3> QED BY <2>12, <3>1, <3>2 DEF Drop, NoStrayRows, Live, Role
  <2>13. ASSUME NEW p \in Proc, UpdateMemberRole(p) PROVE TypeOK'
    <3>1. req[p].s \in Subgroup /\ req[p].u \in User /\ req[p].role \in Role
      BY <2>13, RequestFields DEF UpdateMemberRole, Role
    <3>2. req' \in [Proc -> Request]
      BY <2>13, FinishType DEF UpdateMemberRole
    <3> QED BY <2>13, <3>1, <3>2 DEF UpdateMemberRole, NoStrayRows, Live, Role
  <2>14. ASSUME NEW p \in Proc, Abort(p) PROVE TypeOK'
    BY <2>14, FinishType DEF Abort, rows, NoStrayRows, Live
  <2>15. CASE UNCHANGED vars
    BY <2>15 DEF vars, NoStrayRows, Live
  <2> QED
    BY <2>1, <2>2, <2>3, <2>4, <2>5, <2>6, <2>7, <2>8, <2>9, <2>10, <2>11, <2>12, <2>13, <2>14,
       <2>15, StepCases
<1> QED BY <1>1, <1>2, PTL DEF Spec

(***************************************************************************)
(* Who is in a subgroup but not in the community.                          *)
(***************************************************************************)
\* The steps that leave both rosters alone.
LEMMA RostersStand ==
  ASSUME UNCHANGED <<crew, role>>
  PROVE  UNCHANGED <<Crew, Admins>> /\ \A s \in Subgroup : UNCHANGED Members(s)
BY DEF Crew, Admins, Members

\* Leaving the community empties every subgroup of the person who leaves.
LEMMA LeaveEffect ==
  ASSUME TypeOK, NEW u \in User, LeaveCommunity(u)
  PROVE  /\ Crew' = Crew \ {u}
         /\ \A s \in Subgroup : Members(s)' = Members(s) \ {u}
<1>1. Crew' = Crew \ {u}
  BY DEF TypeOK, LeaveCommunity, Crew
<1>2. \A s \in Subgroup : Members(s)' = Members(s) \ {u}
  BY DEF TypeOK, LeaveCommunity, DropSubgroupAccess, Members
<1> QED BY <1>1, <1>2

\* Entering the community adds to the crew and touches no subgroup.
LEMMA EnterCommunityEffect ==
  ASSUME TypeOK, NEW u \in User, EnterCommunity(u)
  PROVE  /\ Crew' = Crew \cup {u}
         /\ \A s \in Subgroup : Members(s)' = Members(s)
<1>1. Crew' = Crew \cup {u}
  BY DEF TypeOK, EnterCommunity, Crew
<1> QED BY <1>1 DEF EnterCommunity, Members

\* A new role in the community changes neither crew nor subgroups.
LEMMA SetCommunityRoleEffect ==
  ASSUME TypeOK, NEW u \in User, NEW r \in {"member", "admin"}, SetCommunityRole(u, r)
  PROVE  Crew' = Crew /\ UNCHANGED role
BY DEF TypeOK, SetCommunityRole, Crew

\* A join, an approval or an invitation adds nobody from outside.
LEMMA EnterEffect ==
  ASSUME TypeOK, NEW p \in Proc, Enter(p)
  PROVE  /\ UNCHANGED crew
         /\ req[p].u \in User
         /\ \A s \in Subgroup :
              Members(s)' = IF s = req[p].s THEN Members(s) \cup OfCrew({req[p].u}) ELSE Members(s)
<1>1. req[p].s \in Subgroup /\ req[p].u \in User
  BY RequestFields DEF Enter, TypeOK
<1>2. AddMembers(req[p].s, OfCrew({req[p].u})) /\ UNCHANGED crew
  BY DEF Enter
<1>3. OfCrew({req[p].u}) \cap User = OfCrew({req[p].u})
  BY <1>1 DEF OfCrew, Crew
<1>4. ASSUME NEW s \in Subgroup, s = req[p].s
      PROVE  Members(s)' = Members(s) \cup OfCrew({req[p].u})
  BY <1>2, <1>3, <1>4, AddMembersEffect DEF TypeOK
<1>5. ASSUME NEW s \in Subgroup, s # req[p].s
      PROVE  Members(s)' = Members(s)
  BY <1>1, <1>2, <1>5, AddMembersEffect DEF TypeOK, Members
<1> QED BY <1>1, <1>2, <1>4, <1>5

\* Leaving, and being removed, take one member out of one subgroup.
LEMMA DropEffect ==
  ASSUME TypeOK, NEW p \in Proc, Drop(p)
  PROVE  /\ UNCHANGED crew
         /\ req[p].u \in User
         /\ \A s \in Subgroup :
              Members(s)' = IF s = req[p].s THEN Members(s) \ {req[p].u} ELSE Members(s)
<1>1. req[p].s \in Subgroup /\ req[p].u \in User
  BY RequestFields DEF Drop, TypeOK
<1>2. ASSUME NEW s \in Subgroup, s = req[p].s
      PROVE  Members(s)' = Members(s) \ {req[p].u}
  BY <1>1, <1>2 DEF Drop, TypeOK, Members
<1>3. ASSUME NEW s \in Subgroup, s # req[p].s
      PROVE  Members(s)' = Members(s)
  BY <1>1, <1>3 DEF Drop, TypeOK, Members
<1> QED BY <1>1, <1>2, <1>3 DEF Drop

\* The removal of a subgroup takes all its members out.
LEMMA RemoveEffect ==
  ASSUME TypeOK, NEW p \in Proc, Remove(p)
  PROVE  /\ UNCHANGED crew
         /\ \A s \in Subgroup : Members(s)' = IF s = req[p].s THEN {} ELSE Members(s)
<1>1. req[p].s \in Subgroup
  BY RequestFields DEF Remove, TypeOK
<1> QED BY <1>1 DEF Remove, TypeOK, Members

\* A person outside the community gets into a subgroup only by a write that
\* does not take the community's row lock.
THEOREM StraysNeedAnUnlockedWrite == Spec => StraysOnlyWithoutLock
<1> DEFINE Unlocked == \E p \in Proc : req[p].op \in {"create", "role", "admit"} /\ req'[p] # req[p]
           Safe(s) == Members(s) \subseteq Crew /\ ~(Members(s)' \subseteq Crew') => Unlocked
<1>1. TypeOK /\ [Next]_vars => [\A s \in Subgroup : Safe(s)]_vars
  <2> SUFFICES ASSUME TypeOK, Next, NEW s \in Subgroup PROVE Safe(s)
    OBVIOUS
  <2>0. ASSUME NEW p \in Proc, Finish(p), req[p].op \in {"create", "role", "admit"} PROVE Unlocked
    BY <2>0 DEF Finish, Idle, TypeOK
  <2>1. ASSUME UNCHANGED <<crew, role>> PROVE Safe(s)
    BY <2>1, RostersStand
  <2>2. ASSUME NEW u \in User, EnterCommunity(u) PROVE Safe(s)
    BY <2>2, EnterCommunityEffect
  <2>3. ASSUME NEW u \in User, LeaveCommunity(u) PROVE Safe(s)
    BY <2>3, LeaveEffect
  <2>4. ASSUME NEW u \in User, NEW r \in {"member", "admin"}, SetCommunityRole(u, r) PROVE Safe(s)
    BY <2>4, SetCommunityRoleEffect DEF Members
  <2>5. ASSUME NEW p \in Proc, NEW t \in Subgroup, Create(p, t) PROVE Safe(s)
    BY <2>5, <2>0 DEF Create
  <2>6. ASSUME NEW p \in Proc, CommitOpen(p) PROVE Safe(s)
    BY <2>6, <2>0 DEF CommitOpen
  <2>7. ASSUME NEW p \in Proc, UpdateMemberRole(p) PROVE Safe(s)
    BY <2>7, <2>0 DEF UpdateMemberRole
  <2>8. ASSUME NEW p \in Proc, Enter(p) PROVE Safe(s)
    <3>1. Crew' = Crew
      BY <2>8, EnterEffect DEF Crew
    <3>2. Members(s)' \subseteq Members(s) \cup Crew
      BY <2>8, EnterEffect DEF OfCrew
    <3> QED BY <3>1, <3>2
  <2>9. ASSUME NEW p \in Proc, Drop(p) PROVE Safe(s)
    <3>1. Crew' = Crew
      BY <2>9, DropEffect DEF Crew
    <3>2. Members(s)' \subseteq Members(s)
      BY <2>9, DropEffect
    <3> QED BY <3>1, <3>2
  <2>10. ASSUME NEW p \in Proc, Remove(p) PROVE Safe(s)
    <3>1. Crew' = Crew
      BY <2>10, RemoveEffect DEF Crew
    <3>2. Members(s)' \subseteq Members(s)
      BY <2>10, RemoveEffect
    <3> QED BY <3>1, <3>2
  <2>11. ASSUME NEW p \in Proc, Save(p) \/ Admit(p) \/ Ask(p) \/ Reject(p) \/ Abort(p)
         PROVE  UNCHANGED <<crew, role>>
    BY <2>11 DEF Save, Admit, Ask, Reject, Abort, rows
  <2>12. ASSUME NEW p \in Proc, ReadStep(p) PROVE UNCHANGED <<crew, role>>
    BY <2>12, ReadStepType DEF rows
  <2>13. ASSUME NEW b \in BOOLEAN, SetSuspended(b) PROVE UNCHANGED <<crew, role>>
    BY <2>13 DEF SetSuspended
  <2> HIDE DEF Safe
  <2> QED
    BY <2>1, <2>2, <2>3, <2>4, <2>5, <2>6, <2>7, <2>8, <2>9, <2>10, <2>11, <2>12, <2>13, StepCases
<1> QED BY <1>1, TypeCorrect, PTL DEF Spec, StraysOnlyWithoutLock

(***************************************************************************)
(* The operations that take the lock keep the promise of NestedMembership. *)
(***************************************************************************)
Unlocked == {"create", "role", "open"}

\* No request that writes without the lock is under way.
Quiet == \A p \in Proc : req[p].op \notin Unlocked \cup {"admit"}

QuietInv == TypeOK /\ Quiet

\* An instance that offers none of those operations never has such a request.
LEMMA StaysQuiet ==
  ASSUME Ops \cap Unlocked = {}
  PROVE  Spec => []QuietInv
<1>1. Init => Quiet
  BY DEF Init, Quiet, Idle, Unlocked
<1>2. TypeOK /\ Quiet /\ [Next]_vars => Quiet'
  <2> SUFFICES ASSUME TypeOK, Quiet, [Next]_vars PROVE Quiet'
    OBVIOUS
  <2> USE DEF Quiet, Unlocked
  <2>1. ASSUME NEW p \in Proc, Finish(p) PROVE Quiet'
    BY <2>1 DEF Finish, Idle, TypeOK
  <2>2. ASSUME UNCHANGED req PROVE Quiet'
    BY <2>2
  <2>3. ASSUME NEW p \in Proc, NEW r, r.op \notin Unlocked \cup {"admit"}, Begin(p, r) PROVE Quiet'
    BY <2>3 DEF Begin, TypeOK
  <2>4. CASE CommunityStep
    BY <2>2, <2>4 DEF CommunityStep, EnterCommunity, LeaveCommunity, SetCommunityRole, SetSuspended
  <2>5. ASSUME NEW p \in Proc, EditStep(p) PROVE Quiet'
    <3>1. \/ \E a \in User, s \in Subgroup, v \in Visibility : BeginSave(p, a, s, v)
          \/ \E a \in User, s \in Subgroup : BeginRemove(p, a, s)
          \/ \E s \in Subgroup : Create(p, s)
          \/ Save(p) \/ Admit(p) \/ CommitOpen(p) \/ Remove(p)
      BY <2>5 DEF EditStep
    <3>2. ~(\E s \in Subgroup : Create(p, s)) /\ ~Admit(p) /\ ~CommitOpen(p)
      BY DEF Create, Admit, CommitOpen
    <3>3. ASSUME NEW a \in User, NEW s \in Subgroup, NEW v \in Visibility, BeginSave(p, a, s, v)
          PROVE  Quiet'
      BY <3>3, <2>3 DEF BeginSave
    <3>4. ASSUME NEW a \in User, NEW s \in Subgroup, BeginRemove(p, a, s) PROVE Quiet'
      BY <3>4, <2>3 DEF BeginRemove
    <3>5. CASE Save(p) \/ Remove(p)
      BY <3>5, <2>1 DEF Save, Remove
    <3> QED BY <3>1, <3>2, <3>3, <3>4, <3>5
  <2>6. ASSUME NEW p \in Proc, MemberStep(p) PROVE Quiet'
    <3>1. ASSUME NEW u \in User, NEW s \in Subgroup, BeginJoin(p, u, s) PROVE Quiet'
      BY <3>1, <2>3 DEF BeginJoin
    <3>2. ASSUME NEW a \in User, NEW u \in User, NEW s \in Subgroup, BeginInvite(p, a, u, s)
          PROVE  Quiet'
      BY <3>2, <2>3 DEF BeginInvite
    <3>3. ASSUME NEW a \in User, NEW u \in User, NEW s \in Subgroup,
                 NEW op \in {"approve", "reject"}, BeginDecide(p, a, u, s, op)
          PROVE  Quiet'
      BY <3>3, <2>3 DEF BeginDecide
    <3>4. ASSUME NEW a \in User, NEW u \in User, NEW s \in Subgroup, BeginDrop(p, a, u, s)
          PROVE  Quiet'
      BY <3>4, <2>3 DEF BeginDrop
    <3>5. CASE Enter(p) \/ Ask(p) \/ Reject(p) \/ Drop(p) \/ UpdateMemberRole(p) \/ Abort(p)
      BY <3>5, <2>1 DEF Enter, Ask, Reject, Drop, UpdateMemberRole, Abort
    <3> QED BY <2>6, <3>1, <3>2, <3>3, <3>4, <3>5 DEF MemberStep
  <2>7. CASE UNCHANGED vars
    BY <2>2, <2>7 DEF vars
  <2> QED BY <2>4, <2>5, <2>6, <2>7 DEF Next
<1> QED BY <1>1, <1>2, TypeCorrect, PTL DEF Spec, QuietInv

\* What is left of Next while no such request is under way.
LEMMA QuietStepCases ==
  ASSUME QuietInv, Next
  PROVE  \/ \E u \in User : EnterCommunity(u) \/ LeaveCommunity(u)
         \/ \E p \in Proc : Enter(p) \/ Drop(p) \/ Remove(p)
         \/ UNCHANGED <<Crew, role>>
<1>1. ASSUME NEW p \in Proc PROVE ~(\E s \in Subgroup : Create(p, s)) /\ ~CommitOpen(p) /\ ~UpdateMemberRole(p)
  BY DEF QuietInv, Quiet, Unlocked, Create, CommitOpen, UpdateMemberRole
<1>2. ASSUME NEW p \in Proc, Save(p) \/ Admit(p) \/ Ask(p) \/ Reject(p) \/ Abort(p)
      PROVE  UNCHANGED <<Crew, role>>
  BY <1>2 DEF Save, Admit, Ask, Reject, Abort, rows, Crew
<1>3. ASSUME NEW p \in Proc, ReadStep(p) PROVE UNCHANGED <<Crew, role>>
  BY <1>3, ReadStepType DEF rows, QuietInv, Crew
<1>4. ASSUME NEW b \in BOOLEAN, SetSuspended(b) PROVE UNCHANGED <<Crew, role>>
  BY <1>4 DEF SetSuspended, Crew
<1>5. ASSUME NEW u \in User, NEW r \in {"member", "admin"}, SetCommunityRole(u, r)
      PROVE  UNCHANGED <<Crew, role>>
  BY <1>5, SetCommunityRoleEffect DEF QuietInv
<1> QED BY <1>1, <1>2, <1>3, <1>4, <1>5, StepCases

\* Without those operations every step on the two tables is a step the promise
\* allows, or leaves both tables alone.
THEOREM LockedOperationsKeepThePromise ==
  ASSUME Ops \cap Unlocked = {}
  PROVE  Spec => KeepsPromise
<1> DEFINE inner == [s \in Subgroup |-> Members(s)]
<1>1. Init => Promise!Init
  BY DEF Init, Promise!Init, Crew, Members
<1>2. QuietInv /\ [Next]_vars => [Promise!Next]_(Promise!vars)
  <2> SUFFICES ASSUME QuietInv, [Next]_vars PROVE [Promise!Next]_(Promise!vars)
    OBVIOUS
  <2>1. ASSUME UNCHANGED <<Crew, role>> PROVE UNCHANGED Promise!vars
    BY <2>1 DEF Promise!vars, Members
  <2>2. ASSUME NEW u \in User, EnterCommunity(u) PROVE Promise!Next
    <3>1. Promise!Enter(u)
      BY <2>2, EnterCommunityEffect DEF Promise!Enter, QuietInv
    <3> QED BY <3>1 DEF Promise!Next
  <2>3. ASSUME NEW u \in User, LeaveCommunity(u) PROVE Promise!Next
    <3>1. Promise!Exit(u)
      BY <2>3, LeaveEffect DEF Promise!Exit, QuietInv
    <3> QED BY <3>1 DEF Promise!Next
  <2>4. ASSUME NEW p \in Proc, Enter(p) PROVE [Promise!Next]_(Promise!vars)
    <3> DEFINE s == req[p].s  u == req[p].u
    <3>1. /\ s \in Subgroup /\ u \in User
          /\ Crew' = Crew
          /\ \A t \in Subgroup :
               Members(t)' = IF t = s THEN Members(t) \cup OfCrew({u}) ELSE Members(t)
      BY <2>4, EnterEffect, RequestFields DEF QuietInv, TypeOK, Enter, Crew
    <3> HIDE DEF s, u
    <3>2. CASE u \in Crew
      <4>1. OfCrew({u}) = {u}
        BY <3>2 DEF OfCrew
      <4>2. Promise!EnterGroup(s, u)
        BY <3>1, <3>2, <4>1 DEF Promise!EnterGroup
      <4> QED BY <3>1, <4>2 DEF Promise!Next
    <3>3. CASE u \notin Crew
      <4>1. OfCrew({u}) = {}
        BY <3>3 DEF OfCrew
      <4> QED BY <3>1, <4>1 DEF Promise!vars
    <3> QED BY <3>2, <3>3
  <2>5. ASSUME NEW p \in Proc, Drop(p) PROVE Promise!Next
    <3> DEFINE s == req[p].s  u == req[p].u
    <3>1. /\ s \in Subgroup /\ u \in User
          /\ Crew' = Crew
          /\ \A t \in Subgroup : Members(t)' = IF t = s THEN Members(t) \ {u} ELSE Members(t)
      BY <2>5, DropEffect, RequestFields DEF QuietInv, TypeOK, Drop, Crew
    <3> HIDE DEF s, u
    <3>2. Promise!LeaveGroup(s, {u})
      BY <3>1 DEF Promise!LeaveGroup
    <3> QED BY <3>1, <3>2 DEF Promise!Next
  <2>6. ASSUME NEW p \in Proc, Remove(p) PROVE Promise!Next
    <3> DEFINE s == req[p].s
    <3>1. /\ s \in Subgroup
          /\ Crew' = Crew
          /\ \A t \in Subgroup : Members(t)' = IF t = s THEN {} ELSE Members(t)
      BY <2>6, RemoveEffect, RequestFields DEF QuietInv, TypeOK, Remove, Crew
    <3> HIDE DEF s
    <3>2. Promise!LeaveGroup(s, User)
      BY <3>1 DEF Promise!LeaveGroup, Members
    <3> QED BY <3>1, <3>2 DEF Promise!Next
  <2>7. ASSUME UNCHANGED vars PROVE UNCHANGED <<Crew, role>>
    BY <2>7 DEF vars, Crew
  <2> QED BY <2>1, <2>2, <2>3, <2>4, <2>5, <2>6, <2>7, QuietStepCases
<1> QED BY <1>1, <1>2, StaysQuiet, PTL DEF Spec, KeepsPromise, Promise!Spec

\* And a subgroup member is then always a community member.
THEOREM SubgroupMembersAreCrew ==
  ASSUME Ops \cap Unlocked = {}
  PROVE  Spec => []MembersAreCrew
<1>1. Init => MembersAreCrew
  BY DEF Init, MembersAreCrew, Members
<1>2. QuietInv /\ MembersAreCrew /\ [Next]_vars => MembersAreCrew'
  <2> SUFFICES ASSUME QuietInv, MembersAreCrew, [Next]_vars, NEW s \in Subgroup
               PROVE  Members(s)' \subseteq Crew'
    BY DEF MembersAreCrew
  <2>1. Members(s) \subseteq Crew
    BY DEF MembersAreCrew
  <2>2. ASSUME UNCHANGED <<Crew, role>> PROVE Members(s)' \subseteq Crew'
    BY <2>1, <2>2 DEF Members
  <2>3. ASSUME NEW u \in User, EnterCommunity(u) PROVE Members(s)' \subseteq Crew'
    BY <2>1, <2>3, EnterCommunityEffect DEF QuietInv
  <2>4. ASSUME NEW u \in User, LeaveCommunity(u) PROVE Members(s)' \subseteq Crew'
    BY <2>1, <2>4, LeaveEffect DEF QuietInv
  <2>5. ASSUME NEW p \in Proc, Enter(p) \/ Drop(p) \/ Remove(p)
        PROVE  Members(s)' \subseteq Members(s) \cup Crew /\ Crew' = Crew
    BY <2>5, EnterEffect, DropEffect, RemoveEffect DEF QuietInv, OfCrew, Crew
  <2>6. ASSUME UNCHANGED vars PROVE UNCHANGED <<Crew, role>>
    BY <2>6 DEF vars, Crew
  <2> QED BY <2>1, <2>2, <2>3, <2>4, <2>5, <2>6, QuietStepCases
<1> QED BY <1>1, <1>2, StaysQuiet, PTL DEF Spec

\* However decisions, joins, departures and openings overlap, the request of a community
\* member goes with a row in the subgroup or with a rejection, unless an opening that had
\* chosen whom to admit before overlooks it (admitPendingMembers).
THEOREM RequestsAreAnswered == Spec => Answered
<1> DEFINE Fine(s, u) ==
      u \in pending[s] /\ u \notin pending'[s] /\ Live(s)' /\ u \in Crew'
        => u \in Members(s)' \/ Rejected(s, u) \/ Overlooked(s, u)
<1>1. TypeOK /\ [Next]_vars => [\A s \in Subgroup, u \in User : Fine(s, u)]_vars
  <2> SUFFICES ASSUME TypeOK, Next, NEW s \in Subgroup, NEW u \in User PROVE Fine(s, u)
    OBVIOUS
  <2>1. ASSUME pending[s] \subseteq pending'[s] PROVE Fine(s, u)
    BY <2>1
  <2>2. ASSUME NEW v \in User, LeaveCommunity(v) PROVE Fine(s, u)
    <3>1. Crew' = Crew \ {v} /\ pending'[s] = pending[s] \ {v}
      BY <2>2, LeaveEffect DEF LeaveCommunity, DropSubgroupAccess
    <3> QED BY <3>1
  <2>3. ASSUME NEW p \in Proc, Enter(p) PROVE Fine(s, u)
    <3>1. req[p].s \in Subgroup /\ pending' = [pending EXCEPT ![req[p].s] = @ \ {req[p].u}]
      BY <2>3, RequestFields DEF Enter, TypeOK
    <3>2. req[p].u \in OfCrew({req[p].u}) \/ req[p].u \in Members(req[p].s)
      BY <2>3 DEF Enter, OfCrew
    <3>3. s = req[p].s => Members(s)' = Members(s) \cup OfCrew({req[p].u})
      BY <2>3, EnterEffect
    <3> QED BY <3>1, <3>2, <3>3 DEF TypeOK
  <2>4. ASSUME NEW p \in Proc, Reject(p) PROVE Fine(s, u)
    <3>1. req[p] = [op |-> "reject", s |-> req[p].s, u |-> req[p].u] /\ req[p].s \in Subgroup
      BY <2>4 DEF Reject, TypeOK, Request, Idle
    <3>2. req'[p] # req[p]
      BY <2>4 DEF Reject, Finish, TypeOK, Idle
    <3>3. pending' = [pending EXCEPT ![req[p].s] = @ \ {req[p].u}]
      BY <2>4 DEF Reject
    <3> QED BY <3>1, <3>2, <3>3 DEF TypeOK, Rejected
  <2>5. ASSUME NEW p \in Proc, Remove(p) PROVE Fine(s, u)
    <3>1. /\ life' = [life EXCEPT ![req[p].s] = "gone"] /\ pending' = [pending EXCEPT ![req[p].s] = {}]
          /\ req[p].s \in Subgroup
      BY <2>5, RequestFields DEF Remove, TypeOK
    <3> QED BY <3>1 DEF Live, TypeOK
  <2>6. ASSUME NEW p \in Proc, Ask(p) PROVE Fine(s, u)
    BY <2>1, <2>6 DEF Ask, TypeOK
  <2>7. ASSUME NEW p \in Proc, Save(p) \/ Drop(p) \/ UpdateMemberRole(p) \/ Abort(p)
        PROVE  Fine(s, u)
    BY <2>1, <2>7 DEF Save, Drop, UpdateMemberRole, Abort, rows
  <2>8. ASSUME NEW p \in Proc, ReadStep(p) PROVE Fine(s, u)
    BY <2>1, <2>8, ReadStepType DEF rows
  <2>9. ASSUME NEW p \in Proc, NEW t \in Subgroup, Create(p, t) PROVE Fine(s, u)
    BY <2>1, <2>9 DEF Create
  <2>10. ASSUME NEW v \in User, EnterCommunity(v) PROVE Fine(s, u)
    BY <2>1, <2>10 DEF EnterCommunity
  <2>11. ASSUME NEW v \in User, NEW r \in {"member", "admin"}, SetCommunityRole(v, r) PROVE Fine(s, u)
    BY <2>1, <2>11 DEF SetCommunityRole
  <2>12. ASSUME NEW b \in BOOLEAN, SetSuspended(b) PROVE Fine(s, u)
    BY <2>1, <2>12 DEF SetSuspended
  <2>13. ASSUME NEW p \in Proc, Admit(p) PROVE Fine(s, u)
    BY <2>1, <2>13 DEF Admit, rows
  <2>14. ASSUME NEW p \in Proc, CommitOpen(p) PROVE Fine(s, u)
    <3> DEFINE r == req[p]
    <3>0. /\ r.op = "admit" /\ pending' = [pending EXCEPT ![r.s] = @ \ OfCrew(@)] /\ AddMembers(r.s, r.users)
          /\ req \in [Proc -> Request] /\ role \in [Subgroup -> [User -> Role]] /\ Finish(p)
      BY <2>14 DEF CommitOpen, TypeOK
    <3>1. r.s \in Subgroup /\ req'[p] # r
      <4>1. req'[p] = Idle /\ req[p] \in Request
        BY <3>0 DEF Finish
      <4>2. r.op # Idle.op
        BY <3>0 DEF Idle
      <4> QED BY <3>0, <4>1, <4>2, RequestFields
    <3>2. s = r.s => Members(s)' = Members(s) \cup (r.users \cap User)
      BY <3>0, AddMembersEffect
    <3>3. CASE s = req[p].s /\ u \in req[p].users
      BY <3>2, <3>3
    <3>4. CASE s = req[p].s /\ u \notin req[p].users
      BY <3>0, <3>1, <3>4 DEF Overlooked
    <3>5. CASE s # req[p].s
      BY <2>1, <3>0, <3>1, <3>5 DEF TypeOK
    <3> QED BY <3>3, <3>4, <3>5
  <2> HIDE DEF Fine
  <2> QED
    BY <2>2, <2>3, <2>4, <2>5, <2>6, <2>7, <2>8, <2>9, <2>10, <2>11, <2>12, <2>13, <2>14, StepCases
<1> QED BY <1>1, TypeCorrect, PTL DEF Spec, Answered

-----------------------------------------------------------------------------
(* News and race series.  A request that nobody crossed finds what it read *)
(* as it was: no number below the one it tries is free (OnTheWay), and     *)
(* addresses and the key of imports are unique (Distinct).                 *)
Row == [kind : {"post", "series"}, slug : Title \X Nat, name : Title, key : BOOLEAN,
        status : N!Status \cup {null}, dated : BOOLEAN, tags : SUBSET (Tag \X Nat)]
Proper(row) ==
    /\ row \in Row
    /\ row.key => row.kind = "series"
    /\ row.kind = "post" /\ row.status = "published" => row.dated

\* The number an address ends with.
Number(row) == row.slug[2]

Editing == {"lookup", "clear", "save"}
Filed == [at : Editing \cup {"add", "put", "drop", "find", "link", "remove"}, id : Nat \cup {null}, row : Row,
          twice : BOOLEAN, event : Event \cup {null}, crossed : BOOLEAN]
Writing(r, n) ==
    \/ r \in [at : {"idle"}, crossed : BOOLEAN]
    \/ /\ r \in Filed /\ Proper(r.row) /\ (r.id = null \/ r.id \in 1 .. n)
       /\ r.at = "find" => r.id = null /\ Number(r.row) = 1

ArticlesShape ==
    /\ latest \in Nat /\ begun \in Nat
    /\ DOMAIN articles \subseteq 1 .. latest /\ \A i \in DOMAIN articles : Proper(articles[i])
    /\ DOMAIN entered = 1 .. latest
    /\ DOMAIN writing = Proc /\ \A p \in Proc : Writing(writing[p], latest)

Distinct ==
    /\ \A i, j \in DOMAIN articles :
           articles[i].kind = articles[j].kind /\ articles[i].slug = articles[j].slug => i = j
    /\ \A i, j \in DOMAIN articles : articles[i].key /\ articles[j].key => i = j

SmallerTaken(r) == \A n \in 1 .. Number(r.row) - 1 : N!Taken(<<r.row.slug[1], n>>, r.row.kind, r.id)

OnTheWay(r) ==
    /\ r.id # null =>
           /\ r.id \in DOMAIN articles
           /\ articles[r.id].kind = r.row.kind /\ articles[r.id].key = r.row.key
           /\ r.at # "clear" => articles[r.id].tags \subseteq r.row.tags
    /\ r.id = null /\ r.row.key => \A i \in DOMAIN articles : ~articles[i].key
    /\ r.at = "lookup" => SmallerTaken(r)
    /\ r.at = "save" => /\ ~N!Taken(r.row.slug, r.row.kind, r.id)
                        /\ r.id = null \/ articles[r.id].slug # r.row.slug => SmallerTaken(r)
    /\ r.at = "clear" => r.id # null /\ articles[r.id].slug = r.row.slug

Uncrossed == \A p \in Proc : writing[p].at \in Editing /\ ~writing[p].crossed => OnTheWay(writing[p])

ArticlesInv == ArticlesShape /\ Distinct /\ N!TagsOfOneEdit /\ Uncrossed

LEMMA SameRows ==
  ASSUME articles' = articles, NEW q
  PROVE  OnTheWay(writing[q])' <=> OnTheWay(writing'[q])
BY DEF OnTheWay, SmallerTaken, N!Taken, N!Ids

\* Where the rows stay, so does what the requests found.
LEMMA Remains ==
  ASSUME Uncrossed, NEW p \in Proc, NEW r, r.at \in Editing /\ ~r.crossed => OnTheWay(r), DOMAIN writing = Proc,
         writing' = [writing EXCEPT ![p] = r], articles' = articles
  PROVE  Uncrossed'
<1> SUFFICES ASSUME NEW q \in Proc, writing'[q].at \in Editing, ~writing'[q].crossed PROVE OnTheWay(writing[q])'
  BY DEF Uncrossed
<1>1. OnTheWay(writing'[q])
  BY DEF Uncrossed
<1> QED BY <1>1, SameRows

\* A request goes on, and the rows stay.
LEMMA GoesOn ==
  ASSUME ArticlesInv, NEW p \in Proc, NEW r, Writing(r, latest), r.at \in Editing /\ ~r.crossed => OnTheWay(r),
         writing' = [writing EXCEPT ![p] = r], UNCHANGED <<articles, entered, latest>>, begun' \in Nat
  PROVE  ArticlesInv'
<1>1. ArticlesShape'
  BY DEF ArticlesInv, ArticlesShape, Writing
<1>2. Distinct' /\ N!TagsOfOneEdit'
  BY DEF ArticlesInv, Distinct, N!TagsOfOneEdit
<1>3. Uncrossed'
  BY Remains DEF ArticlesInv, ArticlesShape
<1> QED BY <1>1, <1>2, <1>3 DEF ArticlesInv

\* A request writes, and crosses the others if that changes a row.
LEMMA WritesOver ==
  ASSUME ArticlesInv, NEW p \in Proc, NEW new, NEW r, N!Writes(p, new, r), Writing(r, latest'),
         latest' \in Nat, latest <= latest', begun' = begun, DOMAIN new \subseteq 1 .. latest',
         \A i \in DOMAIN new : Proper(new[i]), DOMAIN entered' = 1 .. latest',
         Distinct', N!TagsOfOneEdit', r.at \in Editing /\ ~r.crossed => OnTheWay(r)'
  PROVE  ArticlesInv'
<1>1. articles' = new
  BY DEF N!Writes
<1>2. \A x : Writing(x, latest) => Writing(x, latest')
  BY DEF Writing, ArticlesInv, ArticlesShape
<1>3. CASE new = articles
  <2>1. writing' = [writing EXCEPT ![p] = r] /\ articles' = articles
    BY <1>1, <1>3 DEF N!Writes
  <2>2. ArticlesShape'
    BY <1>1, <1>2, <2>1 DEF ArticlesInv, ArticlesShape
  <2>3. r.at \in Editing /\ ~r.crossed => OnTheWay(r)
    BY <2>1 DEF OnTheWay, SmallerTaken, N!Taken, N!Ids
  <2>4. Uncrossed'
    BY <2>1, <2>3, Remains DEF ArticlesInv, ArticlesShape
  <2> QED BY <2>2, <2>4 DEF ArticlesInv
<1>4. CASE new # articles
  <2>1. writing' = N!Crossed(p, r)
    BY <1>4 DEF N!Writes
  <2>2. DOMAIN writing' = Proc /\ writing'[p] = r
    BY <2>1 DEF N!Crossed
  <2>3. ASSUME NEW q \in Proc, q # p
        PROVE  /\ Writing(writing'[q], latest')
               /\ writing'[q].at \in Editing => writing'[q].crossed
    <3>1. Writing(writing[q], latest) /\ writing'[q] = [writing[q] EXCEPT !.crossed = ~N!At(q, "idle")]
      BY <2>1, <2>3 DEF N!Crossed, ArticlesInv, ArticlesShape
    <3>2. CASE writing[q] \in [at : {"idle"}, crossed : BOOLEAN]
      <4>1. writing'[q] \in [at : {"idle"}, crossed : BOOLEAN]
        BY <3>1, <3>2 DEF N!At
      <4> QED BY <4>1 DEF Writing, Editing
    <3>3. CASE /\ writing[q] \in Filed /\ Proper(writing[q].row) /\ (writing[q].id = null \/ writing[q].id \in 1 .. latest)
               /\ writing[q].at = "find" => writing[q].id = null /\ Number(writing[q].row) = 1
      <4>1. writing[q].at # "idle"
        BY <3>3 DEF Filed, Editing
      <4>2. writing'[q] = [writing[q] EXCEPT !.crossed = TRUE]
        BY <3>1, <4>1 DEF N!At
      <4>3. /\ writing'[q] \in Filed /\ writing'[q].crossed
            /\ writing'[q].row = writing[q].row /\ writing'[q].id = writing[q].id /\ writing'[q].at = writing[q].at
        BY <3>3, <4>2 DEF Filed
      <4>4. Writing(writing'[q], latest)
        BY <3>3, <4>3 DEF Writing
      <4> QED BY <1>2, <4>3, <4>4
    <3> QED BY <3>1, <3>2, <3>3 DEF Writing
  <2>4. ArticlesShape'
    BY <1>1, <2>2, <2>3 DEF ArticlesInv, ArticlesShape
  <2>5. Uncrossed'
    BY <2>2, <2>3 DEF Uncrossed
  <2> QED BY <2>4, <2>5 DEF ArticlesInv
<1> QED BY <1>3, <1>4

\* A request begins.
LEMMA BeginsWell ==
  ASSUME ArticlesInv, NEW p \in Proc, NEW op, NEW r, N!Begin(p, op, r), Writing(r, latest),
         r.at \in Editing => OnTheWay(r)
  PROVE  ArticlesInv'
<1>1. begun' \in Nat
  BY DEF N!Begin, ArticlesInv, ArticlesShape
<1> QED BY <1>1, GoesOn DEF N!Begin, N!Goes

\* What a request to edit or remove a row holds when it begins.
LEMMA ReadsRow ==
  ASSUME ArticlesInv, NEW id \in DOMAIN articles
  PROVE  /\ Proper(articles[id]) /\ articles[id] \in Row /\ id \in Nat /\ id \in 1 .. latest /\ id # null
         /\ ~N!Taken(articles[id].slug, articles[id].kind, id)
BY ArticlesAssumption DEF ArticlesInv, ArticlesShape, Proper, Distinct, N!Taken, N!Ids

\* Requests about news begin.
LEMMA NewsBegins ==
  ASSUME ArticlesInv, NEW p \in Proc, N!NewsBegin(p)
  PROVE  ArticlesInv'
<1>0. latest \in Nat /\ begun \in Nat /\ null \in Event \cup {null}
  BY DEF ArticlesInv, ArticlesShape
<1>1. ASSUME NEW name \in Title, NEW status \in N!GivenStatus, NEW given \in N!GivenTags,
             N!CreatePost(p, name, status, given[1], given[2])
      PROVE  ArticlesInv'
  <2> DEFINE row == N!NewPost(name, status, given[1])
             r == N!Request("lookup", null, row, given[2], null)
  <2>1. given[1] \in SUBSET Tag /\ given[2] \in BOOLEAN /\ status \in N!Status
    BY DEF N!GivenTags, N!GivenStatus, N!Status
  <2>2. Proper(row) /\ Number(row) = 1 /\ ~row.key
    BY <1>0, <2>1 DEF N!NewPost, N!TagRows, Proper, Row, N!Status, Number
  <2> HIDE DEF row
  <2>3. Writing(r, latest) /\ r.at = "lookup" /\ r.id = null /\ r.row = row /\ ~r.crossed
    BY <1>0, <2>1, <2>2 DEF N!Request, Writing, Filed, Editing, Proper
  <2>4. N!Begin(p, "post", r)
    BY <1>1 DEF N!CreatePost, row
  <2> HIDE DEF r
  <2>5. OnTheWay(r)
    BY <2>2, <2>3 DEF OnTheWay, SmallerTaken
  <2> QED BY <2>3, <2>4, <2>5, BeginsWell
<1>2. ASSUME NEW id \in N!Ids("post"), NEW status \in N!Status, N!UpdatePost(p, id, status) PROVE ArticlesInv'
  <2> DEFINE row == [articles[id] EXCEPT !.status = status, !.dated = N!Dated(articles[id], status)]
             r == N!Request("save", id, row, FALSE, null)
  <2>1. id \in DOMAIN articles /\ id # null /\ id \in 1 .. latest /\ Proper(articles[id]) /\ articles[id].kind = "post"
        /\ ~N!Taken(articles[id].slug, articles[id].kind, id)
    BY ReadsRow DEF N!Ids
  <2>2. N!Dated(articles[id], status) \in BOOLEAN /\ (status = "published" => N!Dated(articles[id], status))
    BY <2>1 DEF N!Dated, Proper, Row
  <2>3. /\ Proper(row) /\ row.kind = articles[id].kind /\ row.slug = articles[id].slug
        /\ row.key = articles[id].key /\ row.tags = articles[id].tags
    BY <2>1, <2>2 DEF Proper, Row
  <2> HIDE DEF row
  <2>4. Writing(r, latest) /\ r.at = "save" /\ r.id = id /\ r.row = row /\ ~r.crossed
    BY <1>0, <2>1, <2>3 DEF N!Request, Writing, Filed, Editing, Proper
  <2>5. N!Begin(p, "edit", r)
    BY <1>2 DEF N!UpdatePost, row
  <2> HIDE DEF r
  <2>6. OnTheWay(r)
    BY <2>1, <2>3, <2>4 DEF OnTheWay
  <2> QED BY <2>4, <2>5, <2>6, BeginsWell
<1>3. ASSUME NEW id \in N!Ids("post"), NEW given \in N!GivenTags, N!Retag(p, id, given[1], given[2]) PROVE ArticlesInv'
  <2> DEFINE row == [articles[id] EXCEPT !.tags = N!TagRows(given[1])]
             r == N!Request("clear", id, row, given[2], null)
  <2>1. id \in DOMAIN articles /\ id # null /\ id \in 1 .. latest /\ Proper(articles[id])
    BY ReadsRow DEF N!Ids
  <2>2. given[2] \in BOOLEAN /\ N!TagRows(given[1]) \in SUBSET (Tag \X Nat)
    BY <1>0 DEF N!GivenTags, N!TagRows
  <2>3. Proper(row) /\ row.kind = articles[id].kind /\ row.slug = articles[id].slug /\ row.key = articles[id].key
    BY <2>1, <2>2 DEF Proper, Row
  <2> HIDE DEF row
  <2>4. Writing(r, latest) /\ r.at = "clear" /\ r.id = id /\ r.row = row /\ ~r.crossed
    BY <1>0, <2>1, <2>2, <2>3 DEF N!Request, Writing, Filed, Editing, Proper
  <2>5. N!Begin(p, "tags", r)
    BY <1>3 DEF N!Retag, row
  <2> HIDE DEF r
  <2>6. OnTheWay(r)
    BY <2>1, <2>3, <2>4 DEF OnTheWay
  <2> QED BY <2>4, <2>5, <2>6, BeginsWell
<1> QED BY <1>1, <1>2, <1>3 DEF N!NewsBegin

\* Requests about series begin, and removals.
LEMMA SeriesBegins ==
  ASSUME ArticlesInv, NEW p \in Proc, N!SeriesBegin(p) \/ \E id \in DOMAIN articles : N!BeginRemove(p, id)
  PROVE  ArticlesInv'
<1>0. latest \in Nat /\ begun \in Nat /\ null \in Event \cup {null}
  BY DEF ArticlesInv, ArticlesShape
<1>1. ASSUME NEW name \in Title, NEW key \in BOOLEAN
      PROVE  LET row == N!NewSeries(name, key) IN Proper(row) /\ Number(row) = 1 /\ (row.key <=> key)
  BY DEF N!NewSeries, Proper, Row, Number
<1>2. ASSUME NEW name \in Title, N!CreateSeries(p, name) PROVE ArticlesInv'
  <2> DEFINE row == N!NewSeries(name, FALSE)
             r == N!Request("lookup", null, row, FALSE, null)
  <2>1. Proper(row) /\ Number(row) = 1 /\ ~row.key
    BY <1>1
  <2> HIDE DEF row
  <2>2. Writing(r, latest) /\ r.at = "lookup" /\ r.id = null /\ r.row = row /\ ~r.crossed
    BY <1>0, <2>1 DEF N!Request, Writing, Filed, Editing, Proper
  <2>3. N!Begin(p, "series", r)
    BY <1>2 DEF N!CreateSeries, row
  <2> HIDE DEF r
  <2>4. OnTheWay(r)
    BY <2>1, <2>2 DEF OnTheWay, SmallerTaken
  <2> QED BY <2>2, <2>3, <2>4, BeginsWell
<1>3. ASSUME NEW name \in Title, NEW event \in Event, N!Link(p, name, event) PROVE ArticlesInv'
  <2> DEFINE row == N!NewSeries(name, TRUE)
             r == N!Request("find", null, row, FALSE, event)
  <2>1. Proper(row) /\ Number(row) = 1
    BY <1>1
  <2> HIDE DEF row
  <2>2. Writing(r, latest) /\ r.at = "find"
    BY <1>0, <2>1 DEF N!Request, Writing, Filed, Editing, Proper
  <2>3. N!Begin(p, "import", r)
    BY <1>3 DEF N!Link, row
  <2> HIDE DEF r
  <2> QED BY <2>2, <2>3, BeginsWell DEF Editing
<1>4. ASSUME NEW id \in DOMAIN articles, NEW name \in N!GivenNames, N!UpdateSeries(p, id, name) PROVE ArticlesInv'
  <2>1. id # null /\ id \in 1 .. latest /\ Proper(articles[id]) /\ ~N!Taken(articles[id].slug, articles[id].kind, id)
    BY ReadsRow
  <2>2. CASE name = null
    <3> DEFINE r == N!Request("save", id, articles[id], FALSE, null)
    <3>1. Writing(r, latest) /\ r.at = "save" /\ r.id = id /\ r.row = articles[id] /\ ~r.crossed
      BY <1>0, <2>1 DEF N!Request, Writing, Filed, Editing, Proper
    <3>2. N!Begin(p, "rename", r)
      BY <1>4, <2>2 DEF N!UpdateSeries
    <3> HIDE DEF r
    <3>3. OnTheWay(r)
      BY <2>1, <3>1 DEF OnTheWay
    <3> QED BY <3>1, <3>2, <3>3, BeginsWell
  <2>3. CASE name # null
    <3> DEFINE row == [articles[id] EXCEPT !.name = name, !.slug = <<name, 1>>]
               r == N!Request("lookup", id, row, FALSE, null)
    <3>1. /\ Proper(row) /\ row.kind = articles[id].kind /\ Number(row) = 1
          /\ row.key = articles[id].key /\ row.tags = articles[id].tags
      BY <2>1, <2>3 DEF Proper, Row, N!GivenNames, Number
    <3> HIDE DEF row
    <3>2. Writing(r, latest) /\ r.at = "lookup" /\ r.id = id /\ r.row = row /\ ~r.crossed
      BY <1>0, <2>1, <3>1 DEF N!Request, Writing, Filed, Editing, Proper
    <3>3. N!Begin(p, "rename", r)
      BY <1>4, <2>3 DEF N!UpdateSeries, row
    <3> HIDE DEF r
    <3>4. OnTheWay(r)
      BY <2>1, <3>1, <3>2 DEF OnTheWay, SmallerTaken
    <3> QED BY <3>2, <3>3, <3>4, BeginsWell
  <2> QED BY <2>2, <2>3
<1>5. ASSUME NEW id \in DOMAIN articles, NEW event \in Event \cup {null}, NEW at \in {"add", "put", "drop", "remove"}, NEW op,
             N!Begin(p, op, N!Request(at, id, articles[id], FALSE, event))
      PROVE  ArticlesInv'
  <2> DEFINE r == N!Request(at, id, articles[id], FALSE, event)
  <2>1. id \in 1 .. latest /\ Proper(articles[id])
    BY ReadsRow
  <2>2. Writing(r, latest) /\ r.at \notin Editing
    BY <1>0, <2>1 DEF N!Request, Writing, Filed, Editing, Proper
  <2> HIDE DEF r
  <2>3. N!Begin(p, op, r)
    BY <1>5 DEF r
  <2> QED BY <2>2, <2>3, BeginsWell
<1> QED BY <1>2, <1>3, <1>4, <1>5
        DEF N!SeriesBegin, N!Ids, N!AddEvent, N!UpdateEvent, N!RemoveEvent, N!BeginRemove

\* A request that is under way.
LEMMA UnderWay ==
  ASSUME ArticlesInv, NEW p \in Proc, writing[p].at # "idle"
  PROVE  /\ writing[p] \in Filed /\ Proper(writing[p].row) /\ latest \in Nat
         /\ writing[p].id = null \/ writing[p].id \in 1 .. latest
         /\ writing[p].at = "find" => writing[p].id = null /\ Number(writing[p].row) = 1
         /\ writing[p].at \in Editing /\ ~writing[p].crossed => OnTheWay(writing[p])
BY DEF ArticlesInv, ArticlesShape, Writing, Uncrossed

LEMMA IdleTyped == \A n : Writing(N!Idle, n) /\ N!Idle.at \notin Editing
BY DEF Writing, N!Idle, Editing

\* One number more, or the address is free.
LEMMA LooksUp ==
  ASSUME ArticlesInv, NEW p \in Proc, N!LookUp(p)
  PROVE  ArticlesInv'
<1> DEFINE r == writing[p]
<1>1. /\ r \in Filed /\ Proper(r.row) /\ latest \in Nat /\ (r.id = null \/ r.id \in 1 .. latest)
      /\ r.at = "lookup" /\ (~r.crossed => OnTheWay(r))
  BY UnderWay DEF N!LookUp, N!At, Editing
<1>2. begun' \in Nat /\ UNCHANGED <<articles, entered, latest>>
  BY DEF N!LookUp, ArticlesInv, ArticlesShape
<1>3. CASE N!Taken(r.row.slug, r.row.kind, r.id)
  <2> DEFINE row == [r.row EXCEPT !.slug = <<@[1], @[2] + 1>>]
             x == [r EXCEPT !.row = row]
  <2>1. r.row \in Row /\ r.row.slug \in Title \X Nat
    BY <1>1 DEF Proper, Row
  <2>2. /\ Proper(row) /\ row.kind = r.row.kind /\ row.key = r.row.key /\ row.tags = r.row.tags
        /\ row.slug[1] = r.row.slug[1] /\ row.slug[2] = r.row.slug[2] + 1
    BY <1>1, <2>1 DEF Proper, Row
  <2>3. writing' = [writing EXCEPT ![p] = x]
    BY <1>3 DEF N!LookUp, N!Goes, N!Excluded
  <2>4. r.row.slug = <<r.row.slug[1], r.row.slug[2]>> /\ r.row.slug[2] \in Nat
    BY <2>1
  <2> HIDE DEF row
  <2>5. /\ x \in Filed /\ x.row = row /\ x.id = r.id /\ x.at = "lookup" /\ x.crossed = r.crossed
    BY <1>1, <2>2 DEF Filed, Proper
  <2> HIDE DEF x
  <2>6. ~r.crossed => OnTheWay(x)
    <3> SUFFICES ASSUME ~r.crossed PROVE OnTheWay(x)
      OBVIOUS
    <3>1. OnTheWay(r)
      BY <1>1
    <3>2. SmallerTaken(r)
      BY <1>1, <3>1 DEF OnTheWay
    <3> HIDE DEF r
    <3>3. SmallerTaken(x)
      <4> SUFFICES ASSUME NEW n \in 1 .. row.slug[2] - 1 PROVE N!Taken(<<row.slug[1], n>>, row.kind, r.id)
        BY <2>5 DEF SmallerTaken, Number
      <4>1. n \in 1 .. r.row.slug[2] - 1 \/ n = r.row.slug[2]
        BY <2>2, <2>4
      <4>2. CASE n = r.row.slug[2]
        BY <1>3, <2>2, <2>4, <4>2
      <4>3. CASE n \in 1 .. r.row.slug[2] - 1
        BY <2>2, <3>2, <4>3 DEF SmallerTaken, Number
      <4> QED BY <4>1, <4>2, <4>3
    <3> QED BY <1>1, <2>2, <2>5, <3>1, <3>3 DEF OnTheWay
  <2>7. Writing(x, latest)
    BY <1>1, <2>2, <2>5 DEF Writing
  <2> QED BY <1>2, <2>3, <2>5, <2>6, <2>7, GoesOn
<1>4. CASE ~N!Taken(r.row.slug, r.row.kind, r.id)
  <2> DEFINE x == [r EXCEPT !.at = "save"]
  <2>1. writing' = [writing EXCEPT ![p] = x]
    BY <1>4 DEF N!LookUp, N!Goes, N!Excluded
  <2>2. /\ x \in Filed /\ x.row = r.row /\ x.id = r.id /\ x.at = "save" /\ x.crossed = r.crossed
    BY <1>1 DEF Filed, Editing
  <2> HIDE DEF x
  <2>3. Writing(x, latest)
    BY <1>1, <2>2 DEF Writing
  <2>4. ~r.crossed => OnTheWay(x)
    BY <1>1, <1>4, <2>2 DEF OnTheWay, SmallerTaken
  <2> QED BY <1>2, <2>1, <2>2, <2>3, <2>4, GoesOn
<1> QED BY <1>3, <1>4

\* The tags go, and the address is the row's own.
LEMMA Clears ==
  ASSUME ArticlesInv, NEW p \in Proc, N!Clear(p)
  PROVE  ArticlesInv'
<1>0. PICK r : r = writing[p]
  OBVIOUS
<1> DEFINE i == r.id
           x == [r EXCEPT !.at = "save"]
           new == IF i \in DOMAIN articles THEN [articles EXCEPT ![i].tags = {}] ELSE articles
<1>1. /\ r \in Filed /\ Proper(r.row) /\ latest \in Nat /\ (r.id = null \/ r.id \in 1 .. latest)
      /\ r.at = "clear" /\ (~r.crossed => OnTheWay(r))
  BY <1>0, UnderWay DEF N!Clear, N!At, Editing
<1>2. N!Writes(p, new, x) /\ UNCHANGED <<entered, latest, begun>>
  BY <1>0 DEF N!Clear
<1>3. articles' = new
  BY <1>2 DEF N!Writes
<1>4. /\ x \in Filed /\ x.row = r.row /\ x.id = r.id /\ x.at = "save" /\ x.crossed = r.crossed
  BY <1>1 DEF Filed, Editing
<1>5. Writing(x, latest)
  BY <1>1, <1>4 DEF Writing
<1>6. /\ DOMAIN new = DOMAIN articles
      /\ \A j \in DOMAIN articles :
           /\ new[j].kind = articles[j].kind /\ new[j].slug = articles[j].slug /\ new[j].key = articles[j].key
           /\ Proper(new[j]) /\ (new[j].tags = articles[j].tags \/ new[j].tags = {})
           /\ j = i => new[j].tags = {}
  BY DEF ArticlesInv, ArticlesShape, Proper, Row
<1> HIDE DEF x, new
<1>7. Distinct'
  BY <1>3, <1>6 DEF ArticlesInv, Distinct
<1>8. N!TagsOfOneEdit'
  BY <1>2, <1>3, <1>6 DEF ArticlesInv, N!TagsOfOneEdit, N!Tags
<1>9. ~r.crossed => OnTheWay(x)'
  <2> SUFFICES ASSUME ~r.crossed PROVE OnTheWay(x)'
    OBVIOUS
  <2>1. /\ i # null /\ i \in DOMAIN articles /\ articles[i].kind = r.row.kind /\ articles[i].key = r.row.key
        /\ articles[i].slug = r.row.slug
    BY <1>1 DEF OnTheWay
  <2>2. ~N!Taken(r.row.slug, r.row.kind, i)'
    BY <1>3, <1>6, <2>1 DEF N!Taken, N!Ids, ArticlesInv, Distinct
  <2>3. /\ x.id = i /\ x.row = r.row /\ x.at = "save" /\ i \in DOMAIN articles' /\ articles'[i].tags = {}
        /\ articles'[i].kind = r.row.kind /\ articles'[i].key = r.row.key /\ articles'[i].slug = r.row.slug
    BY <1>3, <1>4, <1>6, <2>1
  <2> QED BY <2>1, <2>2, <2>3 DEF OnTheWay
<1> QED BY <1>1, <1>2, <1>3, <1>4, <1>5, <1>6, <1>7, <1>8, <1>9, WritesOver DEF ArticlesInv, ArticlesShape

\* The series of a record is there, or none.
LEMMA Finds ==
  ASSUME ArticlesInv, NEW p \in Proc, N!Find(p)
  PROVE  ArticlesInv'
<1> DEFINE r == writing[p]
           known == {i \in N!Ids("series") : articles[i].key}
<1>1. /\ r \in Filed /\ Proper(r.row) /\ latest \in Nat /\ r.at = "find" /\ r.id = null /\ Number(r.row) = 1
  BY UnderWay DEF N!Find, N!At
<1>2. begun' \in Nat /\ UNCHANGED <<articles, entered, latest>>
  BY DEF N!Find, ArticlesInv, ArticlesShape
<1>3. CASE known = {}
  <2> DEFINE x == [r EXCEPT !.at = "lookup"]
  <2>1. writing' = [writing EXCEPT ![p] = x]
    BY <1>3 DEF N!Find, N!Goes
  <2>2. x \in Filed /\ x.row = r.row /\ x.id = null /\ x.at = "lookup" /\ x.crossed = r.crossed
    BY <1>1 DEF Filed, Editing
  <2> HIDE DEF x
  <2>3. Writing(x, latest)
    BY <1>1, <2>2 DEF Writing
  <2>4. \A i \in DOMAIN articles : ~articles[i].key
    BY <1>3 DEF N!Ids, ArticlesInv, ArticlesShape, Proper
  <2>5. OnTheWay(x)
    BY <1>1, <2>2, <2>4 DEF OnTheWay, SmallerTaken
  <2> QED BY <1>2, <2>1, <2>3, <2>5, GoesOn
<1>4. CASE known # {}
  <2> DEFINE k == CHOOSE i \in known : TRUE
             x == [r EXCEPT !.at = "link", !.id = k]
  <2>1. writing' = [writing EXCEPT ![p] = x]
    BY <1>4 DEF N!Find, N!Goes
  <2>2. k \in 1 .. latest /\ k \in Nat
    BY <1>1, <1>4 DEF N!Ids, ArticlesInv, ArticlesShape
  <2> HIDE DEF k
  <2>3. x \in Filed /\ x.row = r.row /\ x.id = k /\ x.at = "link"
    BY <1>1, <2>2 DEF Filed, Editing
  <2> HIDE DEF x
  <2>4. Writing(x, latest) /\ x.at \notin Editing
    BY <1>1, <2>2, <2>3 DEF Writing, Editing
  <2> QED BY <1>2, <2>1, <2>4, GoesOn
<1> QED BY <1>3, <1>4

\* An import's series takes the name of its record, and keeps its address.
LEMMA Links ==
  ASSUME ArticlesInv, NEW p \in Proc, N!Linked(p)
  PROVE  ArticlesInv'
<1>0. PICK r : r = writing[p]
  OBVIOUS
<1> DEFINE new == IF r.id \in DOMAIN articles THEN [articles EXCEPT ![r.id].name = r.row.name] ELSE articles
<1>1. r \in Filed /\ Proper(r.row) /\ latest \in Nat
  BY <1>0, UnderWay DEF N!Linked, N!At
<1>2. N!Writes(p, new, N!Idle) /\ UNCHANGED <<entered, latest, begun>>
  BY <1>0 DEF N!Linked
<1>3. articles' = new
  BY <1>2 DEF N!Writes
<1>4. /\ DOMAIN new = DOMAIN articles
      /\ \A j \in DOMAIN articles :
           /\ new[j].kind = articles[j].kind /\ new[j].slug = articles[j].slug /\ new[j].key = articles[j].key
           /\ Proper(new[j]) /\ new[j].tags = articles[j].tags
  BY <1>1 DEF ArticlesInv, ArticlesShape, Proper, Row
<1> HIDE DEF new
<1>5. Distinct'
  BY <1>3, <1>4 DEF ArticlesInv, Distinct
<1>6. N!TagsOfOneEdit'
  BY <1>2, <1>3, <1>4 DEF ArticlesInv, N!TagsOfOneEdit, N!Tags
<1> QED BY <1>1, <1>2, <1>4, <1>5, <1>6, IdleTyped, WritesOver DEF ArticlesInv, ArticlesShape

\* A row goes.
LEMMA Removes ==
  ASSUME ArticlesInv, NEW p \in Proc, N!Remove(p)
  PROVE  ArticlesInv'
<1>0. PICK new : new = N!Without(articles, {writing[p].id})
  OBVIOUS
<1>1. N!Writes(p, new, N!Idle) /\ UNCHANGED <<entered, latest, begun>>
  BY <1>0 DEF N!Remove
<1>2. articles' = new
  BY <1>1 DEF N!Writes
<1>3. DOMAIN new \subseteq DOMAIN articles /\ \A j \in DOMAIN new : new[j] = articles[j]
  BY <1>0 DEF N!Without
<1>4. Distinct'
  BY <1>2, <1>3 DEF ArticlesInv, Distinct
<1>5. N!TagsOfOneEdit'
  BY <1>1, <1>2, <1>3 DEF ArticlesInv, N!TagsOfOneEdit
<1> QED BY <1>1, <1>2, <1>3, <1>4, <1>5, IdleTyped, WritesOver DEF ArticlesInv, ArticlesShape

\* A row comes or changes, at an address and for a key no other has.
LEMMA Saves ==
  ASSUME ArticlesInv, NEW p \in Proc, N!Save(p)
  PROVE  ArticlesInv'
<1>0. PICK r : r = writing[p]
  OBVIOUS
<1>1. r \in Filed /\ Proper(r.row) /\ latest \in Nat /\ (r.id = null \/ r.id \in 1 .. latest)
  BY <1>0, UnderWay DEF N!Save, N!At
<1>2. CASE N!Refused(r) /\ writing' = N!Ends(p) /\ UNCHANGED <<articles, stages, entered, latest>>
  <2>1. begun' \in Nat /\ writing' = [writing EXCEPT ![p] = N!Idle]
    BY <1>2 DEF N!Save, N!Ends, ArticlesInv, ArticlesShape
  <2> QED BY <1>2, <2>1, IdleTyped, GoesOn
<1> DEFINE i == IF r.id = null THEN latest + 1 ELSE r.id
<1>3. PICK new : new = N!Put(articles, i, r.row)
  OBVIOUS
<1>4. CASE /\ ~N!Refused(r) /\ N!Writes(p, new, N!Idle)
           /\ latest' = (IF r.id = null THEN i ELSE latest)
           /\ entered' = N!Put(entered, i, (IF r.id = null THEN {} ELSE entered[i]) \cup {N!Tags(r.row)})
  <2>1. articles' = new /\ begun' = begun
    BY <1>4 DEF N!Writes, N!Save
  <2>2. /\ i \in 1 .. latest' /\ latest' \in Nat /\ latest <= latest' /\ (r.id = null => i = latest + 1 /\ latest' = i)
        /\ (r.id # null => i = r.id /\ latest' = latest)
    BY <1>1, <1>4
  <2> HIDE DEF i
  <2>3. DOMAIN new = DOMAIN articles \cup {i} /\ new[i] = r.row /\ \A j \in DOMAIN articles : j # i => new[j] = articles[j]
    BY <1>3 DEF N!Put
  <2>4. /\ DOMAIN entered' = 1 .. latest' /\ N!Tags(r.row) \in entered'[i]
        /\ \A j \in DOMAIN entered : j # i => entered'[j] = entered[j]
    <3>1. /\ DOMAIN entered' = DOMAIN entered \cup {i} /\ N!Tags(r.row) \in entered'[i]
          /\ \A j \in DOMAIN entered : j # i => entered'[j] = entered[j]
      BY <1>4 DEF N!Put
    <3> QED BY <1>1, <2>2, <3>1 DEF ArticlesInv, ArticlesShape
  <2>5. \A j \in DOMAIN articles \ {i} : /\ articles[j].kind = r.row.kind => articles[j].slug # r.row.slug
                                         /\ ~(articles[j].key /\ r.row.key)
    <3>1. \A j \in DOMAIN articles \ {i} : j # r.id
      BY <1>1, <2>2, ArticlesAssumption DEF ArticlesInv, ArticlesShape
    <3>2. \A j \in DOMAIN articles : articles[j].key => articles[j].kind = "series"
      BY DEF ArticlesInv, ArticlesShape, Proper
    <3> QED BY <1>4, <3>1, <3>2 DEF N!Refused, N!Taken, N!Ids
  <2>6. Distinct'
    BY <2>1, <2>3, <2>5 DEF ArticlesInv, Distinct
  <2>7. N!TagsOfOneEdit'
    <3> SUFFICES ASSUME NEW j \in DOMAIN new PROVE N!Tags(new[j]) \in entered'[j] \cup {{}}
      BY <2>1 DEF N!TagsOfOneEdit, N!Tags
    <3>1. CASE j = i
      BY <2>3, <2>4, <3>1
    <3>2. CASE j # i
      <4>1. j \in DOMAIN articles /\ j \in DOMAIN entered /\ new[j] = articles[j] /\ entered'[j] = entered[j]
        BY <2>3, <2>4, <3>2 DEF ArticlesInv, ArticlesShape
      <4> QED BY <4>1 DEF ArticlesInv, N!TagsOfOneEdit
    <3> QED BY <3>1, <3>2
  <2>8. DOMAIN new \subseteq 1 .. latest' /\ \A j \in DOMAIN new : Proper(new[j])
    BY <1>1, <2>2, <2>3 DEF ArticlesInv, ArticlesShape
  <2> QED BY <1>4, <2>1, <2>2, <2>4, <2>6, <2>7, <2>8, IdleTyped, WritesOver
<1> QED BY <1>0, <1>2, <1>3, <1>4 DEF N!Save

\* The entries of a series are not its row.
LEMMA SavesStage ==
  ASSUME ArticlesInv, NEW p \in Proc, N!SaveStage(p)
  PROVE  ArticlesInv'
<1>1. begun' \in Nat /\ UNCHANGED <<articles, entered, latest>> /\ writing' = [writing EXCEPT ![p] = N!Idle]
  BY DEF N!SaveStage, N!Ends, ArticlesInv, ArticlesShape
<1> QED BY <1>1, IdleTyped, GoesOn

LEMMA ArticlesSteps == ArticlesInv /\ (N!Next \/ UNCHANGED N!vars) => ArticlesInv'
<1>1. CASE UNCHANGED N!vars
  <2>1. ASSUME NEW p \in Proc PROVE OnTheWay(writing[p])' <=> OnTheWay(writing[p])
    BY <1>1 DEF N!vars, OnTheWay, SmallerTaken, N!Taken, N!Ids
  <2>2. ArticlesInv => Uncrossed'
    BY <1>1, <2>1 DEF N!vars, ArticlesInv, Uncrossed
  <2>3. ArticlesInv => ArticlesShape' /\ Distinct' /\ N!TagsOfOneEdit'
    BY <1>1 DEF N!vars, ArticlesInv, ArticlesShape, Distinct, N!TagsOfOneEdit
  <2> QED BY <2>2, <2>3 DEF ArticlesInv
<1>2. CASE N!Next
  BY <1>2, NewsBegins, SeriesBegins, LooksUp, Clears, Finds, Links, SavesStage, Saves, Removes DEF N!Next
<1> QED BY <1>1, <1>2

\* A request nobody crossed gets the first free address and is refused only for a tag that
\* comes twice, the tags of a post were entered together, and what is published has a date,
\* for any number of titles, tags, events and requests (posts.service.ts, series.service.ts).
THEOREM ArticlesStand == HostSpec => []NewsAndSeriesStand
<1> DEFINE I == part = "articles" => ArticlesInv
<1>1. SubgroupsInit \/ ArticlesInit => I
  <2>1. N!Init => ArticlesShape /\ Distinct /\ N!TagsOfOneEdit
    BY DEF N!Init, N!Idle, ArticlesShape, Distinct, N!TagsOfOneEdit, Writing
  <2>2. N!Init => Uncrossed
    BY DEF N!Init, N!Idle, Uncrossed, Editing
  <2> QED BY <2>1, <2>2 DEF SubgroupsInit, ArticlesInit, ArticlesInv
<1>2. I /\ [SubgroupsStep \/ ArticlesStep]_all => I'
  <2> SUFFICES ASSUME I, [SubgroupsStep \/ ArticlesStep]_all PROVE I'
    OBVIOUS
  <2>1. CASE SubgroupsStep
    BY <2>1 DEF SubgroupsStep
  <2>2. CASE ArticlesStep
    BY <2>2, ArticlesSteps DEF ArticlesStep
  <2>3. CASE UNCHANGED all
    <3>1. UNCHANGED N!vars /\ UNCHANGED part
      BY <2>3 DEF all, print, N!vars
    <3> QED BY <3>1, ArticlesSteps
  <2> QED BY <2>1, <2>2, <2>3
<1>3. I => NewsAndSeriesStand
  <2> SUFFICES ASSUME ArticlesInv PROVE N!NewsAndSeriesStand
    BY DEF NewsAndSeriesStand
  <2>1. N!PublishedHaveDates
    BY DEF ArticlesInv, ArticlesShape, Proper, N!PublishedHaveDates, N!Ids
  <2>2. ASSUME NEW p \in Proc, N!At(p, "save"), ~writing[p].crossed
        PROVE  LET r == writing[p] IN
               /\ N!Refused(r) => r.twice
               /\ r.row.slug[1] = r.row.name /\ (r.id = null \/ articles[r.id].slug # r.row.slug) =>
                    \A n \in 1 .. r.row.slug[2] - 1 : N!Taken(<<r.row.slug[1], n>>, r.row.kind, r.id)
    <3>1. writing[p].at = "save" /\ OnTheWay(writing[p]) /\ latest \in Nat
      BY <2>2, UnderWay DEF N!At, Editing
    <3>2. N!Refused(writing[p]) => writing[p].twice
      BY <3>1, ArticlesAssumption DEF OnTheWay, N!Refused, N!Ids, ArticlesInv, ArticlesShape, Distinct
    <3>3. writing[p].id = null \/ articles[writing[p].id].slug # writing[p].row.slug => SmallerTaken(writing[p])
      BY <3>1 DEF OnTheWay
    <3> QED BY <3>2, <3>3 DEF SmallerTaken, Number
  <2>3. N!FirstFreeAddress
    BY <2>2 DEF N!FirstFreeAddress
  <2> QED BY <2>1, <2>3 DEF ArticlesInv, N!NewsAndSeriesStand
<1> QED BY <1>1, <1>2, <1>3, PTL DEF HostSpec
=============================================================================
