-------------------------- MODULE NestedMembership --------------------------
(***************************************************************************)
(* What docs/COMMUNITIES.md promises of the two membership tables: a       *)
(* subgroup member is always a community member, and removing someone from *)
(* the community removes them from its subgroups.                          *)
(***************************************************************************)
CONSTANTS User, Group

VARIABLES
  outer,   \* the members of the community
  inner    \* group -> its members

vars == <<outer, inner>>

Init ==
  /\ outer \in SUBSET User
  /\ inner = [g \in Group |-> {}]

Enter(u) ==
  /\ outer' = outer \cup {u}
  /\ UNCHANGED inner

Exit(u) ==
  /\ outer' = outer \ {u}
  /\ inner' = [g \in Group |-> inner[g] \ {u}]

EnterGroup(g, u) ==
  /\ u \in outer
  /\ inner' = [inner EXCEPT ![g] = @ \cup {u}]
  /\ UNCHANGED outer

LeaveGroup(g, S) ==
  /\ inner' = [inner EXCEPT ![g] = @ \ S]
  /\ UNCHANGED outer

Next ==
  \/ \E u \in User : Enter(u) \/ Exit(u)
  \/ \E g \in Group, u \in User : EnterGroup(g, u)
  \/ \E g \in Group, S \in SUBSET User : LeaveGroup(g, S)

Spec == Init /\ [][Next]_vars
=============================================================================
