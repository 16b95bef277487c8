----------------------------- MODULE MCSubgroups -----------------------------
(***************************************************************************)
(* The instances of Subgroups and of the news and series (Articles).  A    *)
(* behaviour is one of the two; the variables of the other rest.           *)
(* Accounts, requests, titles and tags are interchangeable.                *)
(***************************************************************************)
EXTENDS Subgroups, TLC

CONSTANTS alice, bob, carol, p1, p2, s1, s2, null, Title, Tag, Event, MaxItems, Mixes

VARIABLES part, articles, stages, entered, writing, latest, begun, doing

print == <<articles, stages, entered, writing, latest, begun, doing>>
all == <<part, vars, print>>

\* News edited and taken down, their tags, series by hand, their events, and series of imports.
ArticleMixes ==
    {[ops |-> {"post", "edit", "remove"}, requests |-> 5], [ops |-> {"post", "tags", "remove"}, requests |-> 3],
     [ops |-> {"series", "rename", "remove"}, requests |-> 5], [ops |-> {"series", "stages", "import"}, requests |-> 5],
     [ops |-> {"import", "rename", "remove"}, requests |-> 5]}

N == INSTANCE Articles WITH
        rows <- articles, req <- writing, last <- latest, mix <- doing, Name <- Title, None <- null

\* Nothing is no id.
ASSUME ArticlesAssumption == null \notin Nat

Symmetry == Permutations({alice, bob, carol}) \cup Permutations(Proc)
SymmetryOfTwo ==
    Permutations({alice, bob}) \cup Permutations(Subgroup) \cup Permutations(Proc)
        \cup Permutations(Title) \cup Permutations(Tag)

-----------------------------------------------------------------------------
\* One of the initial states, so that the properties of Subgroups have a meaning.
SubgroupsRest ==
    /\ crew = [u \in User |-> "admin"] /\ suspended = FALSE
    /\ life = [g \in Subgroup |-> "unborn"] /\ vis = [g \in Subgroup |-> "open"]
    /\ role = [g \in Subgroup |-> [u \in User |-> "none"]]
    /\ pending = [g \in Subgroup |-> {}] /\ req = [p \in Proc |-> Idle]
ArticlesRest ==
    /\ articles = null /\ stages = null /\ entered = null /\ writing = null /\ latest = null
    /\ begun = null /\ doing = null

SubgroupsInit == part = "subgroups" /\ Init /\ ArticlesRest
ArticlesInit == part = "articles" /\ N!Init /\ SubgroupsRest

SubgroupsStep == part = "subgroups" /\ Next /\ UNCHANGED <<part, print>>
ArticlesStep == part = "articles" /\ N!Next /\ UNCHANGED <<part, vars>>

HostSpec == (SubgroupsInit \/ ArticlesInit) /\ [][SubgroupsStep \/ ArticlesStep]_all
SubgroupsAlone == SubgroupsInit /\ [][SubgroupsStep]_all
ArticlesAlone == ArticlesInit /\ [][ArticlesStep]_all

\* The property of the news and series.
NewsAndSeriesStand == part = "articles" => N!NewsAndSeriesStand
=============================================================================
