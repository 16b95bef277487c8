------------------------------- MODULE MCInbox -------------------------------
(***************************************************************************)
(* Inbox on small instances, and the pages on which events are looked for  *)
(* (Finder).  A behaviour is one of the two: the page is a browser's, and  *)
(* an inbox entry changes nothing on it; the other's variables rest.       *)
(***************************************************************************)
EXTENDS Inbox, TLC

CONSTANTS rtf, race, ann, ben, p1, p2, p3, null, Screens, MaxActs

VARIABLES part, screen, f, due, last, dirty, alive, out, loads, asking, viewer, fetched, own, url, shown, acts, cause

finder == <<screen, f, due, last, dirty, alive, out, loads, asking, viewer, fetched, own, url, shown, acts, cause>>

F == INSTANCE Finder WITH None <- null

\* What a page can ask for; no question is null.
Questions == [q : F!Texts, place : F!Zips \cup {null, "here"}, radius : {null, 25}, pick : {null, "road", "profile"},
              from : F!Froms, page : 1 .. 2, viewer : {"nobody", "somebody", "resident"}]
ASSUME PagesAssumption == Screens \subseteq {"list", "map", "calendar"} /\ null \notin Questions

Symmetry == Permutations(Proc) \cup Permutations(Event)

-----------------------------------------------------------------------------
FinderRests ==
    /\ screen = null /\ f = null /\ due = null /\ last = null /\ dirty = null /\ alive = null /\ out = null
    /\ loads = null /\ asking = null /\ viewer = null /\ fetched = null /\ own = null /\ url = null
    /\ shown = null /\ acts = null /\ cause = null

InboxInit == part = "inbox" /\ Init /\ FinderRests
FinderInit == part = "finder" /\ F!Init /\ Init
HostInit == InboxInit \/ FinderInit

InboxStep == part = "inbox" /\ Next /\ UNCHANGED <<part, finder>>
FinderStep == part = "finder" /\ F!Next /\ UNCHANGED <<part, vars>>

HostSpec == HostInit /\ [][InboxStep \/ FinderStep]_<<part, vars, finder>>
InboxAlone == InboxInit /\ [][InboxStep]_<<part, vars, finder>>
FinderAlone == FinderInit /\ [][FinderStep]_<<part, vars, finder>>

-----------------------------------------------------------------------------
\* The properties of the pages.
ShowsWhatIsAsked == part = "finder" => F!ShowsWhatIsAsked
MapShowsTheSearch == part = "finder" => F!MapShowsTheSearch
ErrorsAreSurvived == part = "finder" => F!ErrorsAreSurvived
ReloadKeepsTheSearch == [][part = "finder" /\ F!Reload => F!SameEvents]_<<part, vars, finder>>
==============================================================================
