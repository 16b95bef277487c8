------------------------------- MODULE MCPolls -------------------------------
(***************************************************************************)
(* Polls on small instances, and the pages of communities (Views).  A      *)
(* behaviour is one of the two: the requests of a poll leave the pages     *)
(* alone, and a page is asked for while the poll rests.                    *)
(***************************************************************************)
EXTENDS Polls, TLC

CONSTANTS ann, ben, o1, o2, o3, o4, p1, p2, p3, null, Endpoints, MaxMoves

VARIABLES part, db, kind, seen, could, moves

views == <<db, kind, seen, could, moves>>

V == INSTANCE Views WITH Kind <- Endpoints, None <- null

ASSUME EndpointsAssumption == Endpoints \subseteq DOMAIN V!Script

Symmetry == Permutations(Proc) \cup Permutations(Option) \cup Permutations(User \ {Author})

-----------------------------------------------------------------------------
ViewsRest == db = null /\ kind = null /\ seen = null /\ could = null /\ moves = null

PagesInit == part = "views" /\ V!Init /\ Init
HostInit == (part = "polls" /\ Init /\ ViewsRest) \/ PagesInit

PollsStep == part = "polls" /\ Next /\ UNCHANGED <<part, views>>
ViewsStep == part = "views" /\ V!Next /\ UNCHANGED <<part, vars>>
\* An answered page rests, so that a deadlock is one of the requests of the poll.
Answered == part = "views" /\ V!Done /\ UNCHANGED <<part, vars, views>>
HostNext == PollsStep \/ ViewsStep \/ Answered

HostSpec == HostInit /\ [][HostNext]_<<part, vars, views>>
PollsAlone == /\ part = "polls" /\ Init /\ ViewsRest
              /\ [][PollsStep]_<<part, vars, views>>
              /\ \A p \in Proc : SF_<<part, vars, views>>(Serve(p) /\ UNCHANGED <<part, views>>)
PagesSpec == PagesInit /\ [][ViewsStep]_<<part, vars, views>>

-----------------------------------------------------------------------------
\* The properties of the pages.
ServedToTheEntitled == part = "views" => V!ServedToTheEntitled
ButtonsWork == part = "views" => V!ButtonsWork

\* A page is served to those it is for, and what it offers can be done (Views).
PagesKeepToRights == ServedToTheEntitled /\ ButtonsWork
SiteAdminsModerate == part = "views" => V!SiteAdminsModerate
==============================================================================
