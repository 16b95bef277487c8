---------------------------- MODULE MCCommunities ----------------------------
(***************************************************************************)
(* Communities on small instances, and the pages of one thing (Details)    *)
(* and of lists of people (Rosters).  A behaviour is one of the three: a   *)
(* page is a browser's, with a server of its own that says what an answer  *)
(* depends on; the variables of the others rest.                           *)
(***************************************************************************)
EXTENDS Communities, TLC

CONSTANTS alice, bob, carol, p1, p2, p3, c1, c2, null, Things, Lists, MaxActs, MaxMoves

VARIABLES part, screen, db, viewer, page, net, timer, acts, moves, spoiled, cause

pages == <<screen, db, viewer, page, net, timer, acts, moves, spoiled, cause>>
all == <<part, vars, pages>>

D == INSTANCE Details WITH None <- null, Screens <- Things
R == INSTANCE Rosters WITH None <- null, Screens <- Lists

ASSUME ScreensAssumption ==
    /\ Lists \subseteq {"members", "subgroup", "requests"}
    /\ Things \subseteq {"community", "subgroup", "poll", "post", "event", "comments"}
    /\ null \notin [count : Nat]

\* Accounts and request slots are interchangeable; no definition names one.
Symmetry == Permutations({alice, bob, carol} \ SiteAdmin) \cup Permutations(Proc)

-----------------------------------------------------------------------------
PagesRest ==
    /\ screen = null /\ db = null /\ viewer = null /\ page = null /\ net = null
    /\ timer = null /\ acts = null /\ moves = null /\ spoiled = null /\ cause = null

CommunitiesInit == part = "communities" /\ Init /\ PagesRest
DetailsInit == part = "details" /\ D!Init /\ Init /\ timer = null /\ cause = null
RostersInit == part = "rosters" /\ R!Init /\ Init /\ viewer = null /\ spoiled = null

CommunitiesStep == part = "communities" /\ Next /\ UNCHANGED <<part, pages>>
DetailsStep == part = "details" /\ D!Next /\ UNCHANGED <<part, vars, timer, cause>>
RostersStep == part = "rosters" /\ R!Next /\ UNCHANGED <<part, vars, viewer, spoiled>>

HostInit == CommunitiesInit \/ DetailsInit \/ RostersInit
HostSpec == HostInit /\ [][CommunitiesStep \/ DetailsStep \/ RostersStep]_all
CommunitiesAlone == CommunitiesInit /\ [][CommunitiesStep]_all
DetailsAlone == DetailsInit /\ [][DetailsStep]_all
RostersAlone == RostersInit /\ [][RostersStep]_all

\* The fairness of Communities, for CommunitiesEmptied.cfg.
FairAlone ==
    /\ CommunitiesAlone
    /\ \A p \in Proc : /\ WF_all(DeleteAccount(p) /\ UNCHANGED <<part, pages>>)
                       /\ WF_all((\E c \in Community : Sweep(p, c)) /\ UNCHANGED <<part, pages>>)

-----------------------------------------------------------------------------
\* The properties of the pages.
CopiesAreTrue == part = "details" => D!CopiesAreTrue
KnowsTheViewer == part = "details" => D!KnowsTheViewer
ErrorGivesWay == part = "details" => D!ErrorGivesWay
SelectionStands ==
    [][part = "details" => \A i \in DOMAIN net : D!PollChanged(i) /\ page.selection \in D!Option
                                                  => page'.selection = page.selection]_all
RosterFits == part = "rosters" => R!RosterFits

\* What a page shows of one thing, and of a list of people, is what the server would
\* answer now, as far as nothing is under way (Details, Rosters).
PagesAreTrue == CopiesAreTrue /\ RosterFits
OneChangeAtATime == part = "rosters" => R!OneChangeAtATime
==============================================================================
