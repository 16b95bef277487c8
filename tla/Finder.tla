------------------------------- MODULE Finder -------------------------------
(***************************************************************************)
(* The pages on which people look for events: the list, the map and the    *)
(* calendar (event-list, event-map and event-calendar of the client).      *)
(*                                                                         *)
(* A text takes effect when its timer ends; other filters start a search   *)
(* at once, or in the effect that follows the change.  Searches go through *)
(* switchMap: a new one drops the one under way, and an error ends the     *)
(* stream.  The map loads all events outside of it, and asks for the       *)
(* postcode of a place that was clicked.  The session may be restored      *)
(* after the page is there.  One page is looked at in a behaviour.         *)
(***************************************************************************)
EXTENDS Naturals

CONSTANTS
    None,        \* no text, postcode, radius, answer or timer
    Screens,     \* the pages that are looked at
    MaxActs      \* how often somebody does something on the page

VARIABLES
    screen,
    f,           \* the filters: the signals of the component
    due,         \* the texts whose timers run, each in a set of at most one
    last,        \* the texts distinctUntilChanged let through last, likewise
    dirty,       \* the effect on the filters has yet to run
    alive,       \* the stream of searches has not ended
    out,         \* what the search under way asks for
    loads,       \* the loads of all events under way (map)
    asking,      \* "position" or "postcode" while one is being asked for
    viewer,      \* who is signed in; "unknown" until the session is restored
    fetched,     \* viewerFetchDone (list)
    own,         \* disciplines were picked here: those of the profile do not count
    url,         \* the filters in the address (list)
    shown,       \* what the answer on the page was asked with
    acts,
    cause        \* why an answer may not fit: history

asks == <<due, last>>
session == <<viewer, fetched, own>>
answers == <<out, loads, shown, alive>>
vars == <<screen, f, asks, dirty, asking, session, url, answers, acts, cause>>

Texts == {None, "text"}
Zips == {"home", "typed"}
Froms == {"past", "today", "any"}
NoFilters == [q |-> None, zip |-> None, here |-> FALSE, radius |-> None, pick |-> None, from |-> "today", page |-> 1]
Idle == [q |-> {}, zip |-> {}]

GeoActive(g) == g.zip # None \/ g.here
Who(v) == IF v = "unknown" THEN "nobody" ELSE v

-----------------------------------------------------------------------------
(* What is asked of the server. *)
BuildParams(g, v) ==
    [q |-> g.q, place |-> IF g.here THEN "here" ELSE g.zip, radius |-> IF GeoActive(g) THEN g.radius ELSE None,
     pick |-> g.pick, from |-> g.from, page |-> g.page, viewer |-> Who(v)]

AllParams(g, v) == BuildParams([NoFilters EXCEPT !.from = g.from], v)
PeriodParams(g, v) == BuildParams([NoFilters EXCEPT !.from = g.from, !.pick = g.pick], v)

Wanted ==
    CASE screen = "list"     -> BuildParams(f, viewer)
      [] screen = "calendar" -> PeriodParams(f, viewer)
      [] screen = "map"      -> IF GeoActive(f) THEN BuildParams(f, viewer) ELSE AllParams(f, viewer)

\* What the address keeps, and what a page opened at it starts with.
ReadUrl(u) == [u EXCEPT !.from = IF @ = "any" THEN "today" ELSE @, !.radius = IF GeoActive(u) THEN @ ELSE None]
PrefillFromUser(g, v) == IF v = "resident" /\ ~GeoActive(g) THEN [g EXCEPT !.zip = "home"] ELSE g

-----------------------------------------------------------------------------
(* Searching. *)
\* Fault: an answer is taken whatever was asked after it.
Search_Kept(params) == /\ out' = IF alive /\ out = None THEN params ELSE out
                       /\ UNCHANGED <<loads, shown, alive>>

\* switchMap: a search drops the one under way.
Search(params) == /\ out' = IF alive THEN params ELSE out
                  /\ UNCHANGED <<loads, shown, alive>>

\* Only what is under way besides can spoil the answer.
Causes(new) == cause' = IF new = {} THEN {} ELSE cause \cup new

\* syncUrlAndFetch of the list; the effect follows a change of the page's number.
SyncUrlAndFetch(g) ==
    /\ f' = g /\ url' = g
    /\ dirty' = (dirty \/ g.page # f.page)
    /\ Search(BuildParams(g, viewer))
    /\ Causes({})

TriggerGeoSearch(g) ==
    /\ f' = g
    /\ Search(BuildParams(g, viewer))
    /\ Causes(IF loads # {} THEN {"crossed"} ELSE {})
    /\ UNCHANGED <<url, dirty>>

LoadData(g) ==
    /\ f' = g
    /\ loads' = loads \cup {AllParams(g, viewer)}
    /\ Causes(IF out # None \/ loads # {} THEN {"crossed"} ELSE {})
    /\ UNCHANGED <<out, shown, alive, url, dirty>>

\* A filter of the map changes: with a place it is searched for, without one the events
\* that are there are filtered.
Refilter(g) ==
    IF GeoActive(g) THEN TriggerGeoSearch(g)
    ELSE /\ f' = g
         /\ cause' = IF g.from # f.from THEN cause \cup {"not loaded"} ELSE cause
         /\ UNCHANGED <<answers, url, dirty>>

\* A filter that the effect of the page depends on.
Tracked(g) == f' = g /\ dirty' = (dirty \/ g # f) /\ UNCHANGED <<answers, url, cause>>

-----------------------------------------------------------------------------
(* What somebody does on the page. *)
Act(s) == screen \in s /\ acts < MaxActs /\ acts' = acts + 1 /\ UNCHANGED screen

\* onSearchInput, onZipInput: the timer starts anew.  The map searches for a text at once.
TypeText(t) == Act({"list"}) /\ due' = [due EXCEPT !.q = {t}]
               /\ UNCHANGED <<f, last, dirty, asking, session, url, answers, cause>>
MapText(t) == Act({"map"}) /\ Refilter([f EXCEPT !.q = t]) /\ UNCHANGED <<asks, asking, session>>
TypeZip(z) == Act({"list", "map"}) /\ due' = [due EXCEPT !.zip = {z}]
              /\ UNCHANGED <<f, last, dirty, asking, session, url, answers, cause>>

\* onDisciplineChange, onFormatChange, onRacingFilter; onDateFromChange, onFutureOnlyToggle,
\* onYearSelect, navigateMonth; onPageChange.
Change(g, picked) ==
    /\ Act({"list", "map", "calendar"})
    /\ own' = (own \/ picked)
    /\ IF screen = "map" THEN Refilter(g) ELSE Tracked(IF screen = "list" THEN g ELSE [g EXCEPT !.page = 1])
    /\ UNCHANGED <<asks, asking, viewer, fetched>>
Pick(v) == Change([f EXCEPT !.pick = v, !.page = 1], TRUE)
SetFrom(v) == Change([f EXCEPT !.from = v, !.page = 1], FALSE)
SetPage(n) == Act({"list"}) /\ Tracked([f EXCEPT !.page = n]) /\ UNCHANGED <<asks, asking, session>>

\* onRadiusChange, with which onCountryChange goes.
SetRadius(r) ==
    /\ Act({"list", "map"})
    /\ LET g == [f EXCEPT !.radius = r]
       IN  IF ~GeoActive(f) THEN f' = g /\ UNCHANGED <<answers, url, dirty, cause>>
           ELSE IF screen = "list" THEN SyncUrlAndFetch([g EXCEPT !.page = 1]) ELSE TriggerGeoSearch(g)
    /\ UNCHANGED <<asks, asking, session>>

AtPlace == [f EXCEPT !.here = TRUE, !.zip = None, !.page = 1]
Nowhere == [f EXCEPT !.here = FALSE, !.zip = None, !.page = 1]

UseMyLocation == Act({"list", "map"}) /\ asking' = asking \cup {"position"}
                 /\ UNCHANGED <<f, asks, dirty, session, url, answers, cause>>
OnMapClick == Act({"map"}) /\ TriggerGeoSearch(AtPlace) /\ asking' = asking \cup {"postcode"}
              /\ UNCHANGED <<asks, session>>
ClearGeoSearch ==
    /\ Act({"list", "map"})
    /\ IF screen = "list" THEN SyncUrlAndFetch(Nowhere) ELSE LoadData(Nowhere)
    /\ UNCHANGED <<asks, asking, session>>

\* The page is opened again at its address.
Reload ==
    /\ Act({"list"}) /\ viewer # "unknown"
    /\ LET g == PrefillFromUser(ReadUrl(url), viewer)
       IN  f' = g /\ url' = g /\ out' = BuildParams(g, viewer)
    /\ due' = Idle /\ last' = Idle /\ dirty' = FALSE /\ alive' = TRUE /\ asking' = {} /\ cause' = {}
    /\ fetched' = (viewer # "nobody")
    /\ UNCHANGED <<loads, shown, viewer, own>>

\* Leads to the list, where the filter of disciplines is set anew to what it was.
SignOut ==
    /\ Act({"list"}) /\ viewer \in {"somebody", "resident"}
    /\ viewer' = "nobody"
    /\ url' = NoFilters
    /\ dirty' = TRUE
    /\ UNCHANGED <<f, asks, asking, fetched, own, answers, cause>>

-----------------------------------------------------------------------------
(* What happens by itself. *)
\* debounceTime and distinctUntilChanged: whether the text is a new one.
Due(k) ==
    /\ due[k] # {}
    /\ due' = [due EXCEPT ![k] = {}]
    /\ last' = [last EXCEPT ![k] = due[k]]
    /\ UNCHANGED <<screen, acts, asking, session>>
Anew(k) == due[k] # last[k]

SearchInputDue ==
    /\ Due("q")
    /\ IF Anew("q") THEN \A t \in due.q : SyncUrlAndFetch([f EXCEPT !.q = t, !.page = 1])
       ELSE UNCHANGED <<f, url, dirty, answers, cause>>
ZipInputDue ==
    /\ Due("zip")
    /\ IF Anew("zip")
       THEN \A z \in due.zip :
              LET g == [f EXCEPT !.zip = z, !.here = FALSE, !.page = 1]
              IN  IF screen = "list" THEN SyncUrlAndFetch(g)
                  ELSE IF z # None THEN TriggerGeoSearch(g) ELSE LoadData(g)
       ELSE UNCHANGED <<f, url, dirty, answers, cause>>

Effect ==
    /\ dirty /\ dirty' = FALSE
    /\ IF screen = "list" THEN url' = f ELSE UNCHANGED url
    /\ Search(Wanted)
    /\ Causes({})
    /\ UNCHANGED <<screen, f, asks, asking, session, acts>>

\* The session is restored; the list is fetched for its viewer once.
SessionRestored(v) ==
    /\ viewer = "unknown" /\ viewer' = v
    /\ LET home == PrefillFromUser(f, v)
           g == IF url.zip # None THEN f ELSE home
       IN  IF v = "nobody" \/ screen # "list" \/ fetched
           THEN /\ cause' = IF v # "nobody" THEN cause \cup {"viewer came later"} ELSE cause
                /\ UNCHANGED <<f, fetched, url, answers>>
           ELSE /\ fetched' = TRUE /\ f' = g
                /\ url' = IF g # f THEN g ELSE url
                /\ Search(BuildParams(g, v))
                /\ Causes({})
    /\ UNCHANGED <<screen, asks, dirty, asking, own, acts>>

\* The disciplines of the profile arrive (FilterStateService).
PrefsCome ==
    /\ viewer \in {"somebody", "resident"} /\ ~own /\ own' = TRUE
    /\ f' = [f EXCEPT !.pick = "profile"]
    /\ dirty' = (dirty \/ screen # "map")
    /\ cause' = IF screen = "map" THEN cause \cup {"not loaded"} ELSE cause
    /\ UNCHANGED <<screen, asks, asking, viewer, fetched, url, answers, acts>>

PositionFound ==
    /\ "position" \in asking /\ asking' = asking \ {"position"}
    /\ IF screen = "list" THEN SyncUrlAndFetch(AtPlace) ELSE TriggerGeoSearch(AtPlace)
    /\ UNCHANGED <<screen, asks, session, acts>>

\* The postcode of a place that was clicked is put down, whatever was done since.
PostcodeFound ==
    /\ "postcode" \in asking /\ asking' = asking \ {"postcode"}
    /\ f' = [f EXCEPT !.zip = "typed"]
    /\ cause' = IF f.here THEN cause ELSE cause \cup {"late postcode"}
    /\ UNCHANGED <<screen, asks, dirty, session, url, answers, acts>>

SearchAnswered == /\ out # None /\ out' = None /\ shown' = out
                  /\ UNCHANGED <<screen, f, asks, dirty, asking, session, url, loads, alive, acts, cause>>
SearchFails == /\ out # None /\ out' = None /\ alive' = FALSE
               /\ UNCHANGED <<screen, f, asks, dirty, asking, session, url, loads, shown, acts, cause>>
LoadAnswered == \E l \in loads :
    /\ loads' = loads \ {l} /\ shown' = l
    /\ UNCHANGED <<screen, f, asks, dirty, asking, session, url, out, alive, acts, cause>>
LoadFails == \E l \in loads :
    /\ loads' = loads \ {l} /\ cause' = cause \cup {"failed"}
    /\ UNCHANGED <<screen, f, asks, dirty, asking, session, url, out, shown, alive, acts>>

-----------------------------------------------------------------------------
\* The page is there: the list was read from its address and the others from the filters
\* at hand, for whoever is known by then.
Init ==
    /\ screen \in Screens
    /\ viewer \in {"unknown", "nobody", "somebody", "resident"}
    /\ due = Idle /\ last = Idle
    /\ dirty = (screen = "calendar")
    /\ alive = TRUE /\ asking = {} /\ own = FALSE /\ shown = None /\ acts = 0
    /\ f = IF screen = "calendar" THEN NoFilters ELSE PrefillFromUser(NoFilters, viewer)
    /\ url = f
    /\ fetched = (viewer \in {"somebody", "resident"})
    /\ loads = IF screen = "map" THEN {AllParams(f, viewer)} ELSE {}
    /\ out = IF screen = "list" \/ (screen = "map" /\ GeoActive(f)) THEN BuildParams(f, viewer) ELSE None
    /\ cause = IF screen = "map" /\ GeoActive(f) THEN {"crossed"} ELSE {}

Acts ==
    \/ \E t \in Texts : TypeText(t) \/ MapText(t)
    \/ \E z \in {None, "typed"} : TypeZip(z)
    \/ \E v \in {None, "road"} : Pick(v)
    \/ \E v \in Froms : SetFrom(v)
    \/ \E n \in 1 .. 2 : SetPage(n)
    \/ SetRadius(25)
    \/ UseMyLocation \/ OnMapClick \/ ClearGeoSearch \/ Reload \/ SignOut

Happens ==
    \/ SearchInputDue \/ ZipInputDue \/ Effect \/ PrefsCome \/ PositionFound \/ PostcodeFound
    \/ \E v \in {"nobody", "somebody", "resident"} : SessionRestored(v)
    \/ SearchAnswered \/ SearchFails \/ LoadAnswered \/ LoadFails

Next == Acts \/ Happens

Spec == Init /\ [][Next]_vars

-----------------------------------------------------------------------------
\* Nothing is under way and no timer runs.
Quiet == out = None /\ loads = {} /\ ~dirty /\ due = Idle

SameViewer(a, b) == [a EXCEPT !.viewer = b.viewer] = b

\* What a page shows when it is quiet is the answer to the filters it shows, on the list
\* and in the calendar also for the viewer, unless a search has failed.  On the map an answer may
\* not fit for a known reason only: a load and a search under way at once, a filter or a
\* postcode that changed without a search.
ShowsWhatIsAsked ==
    Quiet /\ alive /\ shown # None /\ cause \subseteq {"viewer came later"} =>
        /\ SameViewer(shown, Wanted)
        /\ (screen # "map" /\ cause = {}) => shown = Wanted

\* The answer on the map is to what is asked there, whichever request ends first.
MapShowsTheSearch ==
    Quiet /\ alive /\ shown # None /\ screen = "map" /\ cause \subseteq {"crossed"} => SameViewer(shown, Wanted)

\* A page goes on searching after a search has failed.
ErrorsAreSurvived == alive

\* Opening the list again at its address asks for the same events.
SameEvents == BuildParams(f', viewer) = BuildParams(f, viewer)
ReloadKeepsTheSearch == [][Reload => SameEvents]_vars
=============================================================================
