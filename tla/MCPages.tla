------------------------------- MODULE MCPages -------------------------------
(***************************************************************************)
(* The pages of communities on small instances: their feeds (Posts) and    *)
(* their addresses (Addresses).  A behaviour is one of the two; the        *)
(* variables of the other rest.                                            *)
(***************************************************************************)
EXTENDS Naturals, FiniteSets, TLC

CONSTANTS
    nil,
    User, Site, Writers, Nobody, Gone, Pages, Posts, Comments, Reports, Mixes,   \* of Posts
    Communities, Subgroups, MaxLength, Reserved, Forms, MaxRequests              \* of Addresses

VARIABLES half,
    live, born, crew, squad, suspended, posts, comments, reports, inbox, writes, kinds,
    slug, parent, link, form, listed, selected, waits, plan, renaming, asked

feedVars == <<live, born, crew, squad, suspended, posts, comments, reports, inbox, writes, kinds>>
addressVars == <<slug, parent, link, form, listed, selected, waits, plan, renaming, asked>>
all == <<half, feedVars, addressVars>>

W == INSTANCE Posts WITH Proc <- Writers, req <- writes, ops <- kinds
A == INSTANCE Addresses WITH Community <- Communities, Subgroup <- Subgroups, Form <- Forms, shown <- listed,
                             None <- nil

\* Communities and subgroups are different things and finitely many; a subgroup has the address at first.
ASSUME FeedsAssumption ==
  /\ IsFiniteSet(Communities) /\ IsFiniteSet(Subgroups) /\ Communities \cap Subgroups = {}
  /\ MaxLength \in Nat /\ Pages \in Nat \ {0}

\* Accounts, requests and communities are interchangeable.
Symmetric == Permutations(User) \cup Permutations(Writers) \cup Permutations(Communities)

LetterForms == {[find |-> 1, replace |-> 2], [find |-> 2, replace |-> 1]}

PostMixes ==
    {{"write", "comment", "members"}, {"write", "comment", "remove", "report"},
     {"write", "comment", "report", "drop"}, {"write", "drop", "delete", "renew"},
     {"write", "delete", "suspend", "report"}}

-----------------------------------------------------------------------------
AddressesRest ==
    /\ slug = nil /\ parent = nil /\ link = nil /\ form = nil /\ listed = nil /\ selected = nil
    /\ waits = nil /\ plan = nil /\ renaming = nil /\ asked = nil
PostsRest ==
    /\ live = nil /\ born = nil /\ crew = nil /\ squad = nil /\ suspended = nil /\ posts = nil
    /\ comments = nil /\ reports = nil /\ inbox = nil /\ writes = nil /\ kinds = nil

PagesInit ==
    \/ half = "posts" /\ W!Init /\ AddressesRest
    \/ half = "addresses" /\ A!Init /\ PostsRest

PostsStep == half = "posts" /\ W!Next /\ UNCHANGED <<half, addressVars>>
AddressesStep == half = "addresses" /\ A!Next /\ UNCHANGED <<half, feedVars>>

PagesNext == PostsStep \/ AddressesStep

PagesSpec == PagesInit /\ [][PagesNext]_all

-----------------------------------------------------------------------------
\* The properties of the modules, each of its own half.
TypesKept == (half = "posts" => W!TypeOK) /\ (half = "addresses" => A!TypeOK)
ReportsAreSettled == [][half = "posts" => W!ReportsSettled]_all

\* Inbox entries lead somewhere: they go with the page they point at (Posts), and follow it
\* to its new address (Addresses).
LinksLeadOn == [][(half = "posts" => W!LinksLeadSomewhere) /\ (half = "addresses" => A!LinksFollow)]_all
=============================================================================
