------------------------------ MODULE Rosters ------------------------------
(***************************************************************************)
(* The pages on which a community or a subgroup is run: the lists of its   *)
(* members, filtered and paged, and of those who ask to join.              *)
(*                                                                         *)
(* A change is asked of the server, and its answer starts a refresh, which *)
(* starts a load of the list; `mutating` keeps the buttons off meanwhile.  *)
(* Loads are not dropped by later ones: answers come in any order, and     *)
(* other people change the lists at any time.  The viewer is person 1.     *)
(***************************************************************************)
EXTENDS Naturals, FiniteSets, SequencesExt

CONSTANTS
    None,        \* no answer, no text, nobody
    Screens,     \* the pages: "members", "subgroup", "requests"
    MaxActs,     \* how often the viewer does something
    MaxMoves     \* how often somebody else changes the list

VARIABLES
    screen,
    db,          \* what the server holds
    page,        \* the signals of the component
    net,         \* the requests under way, served or not
    timer,       \* suggestTimer: a text, or None
    acts, moves,
    cause        \* why the list may not be the server's: history

vars == <<screen, db, page, net, timer, acts, moves, cause>>

Person == 1 .. 3
Viewer == 1
Roles == {"member", "lead"}
PageSize == IF screen = "requests" THEN 3 ELSE 1
Matching == [a |-> {2, 3}, b |-> {3}]

-----------------------------------------------------------------------------
(* The server. *)
Leads(d) == IF screen = "subgroup" THEN d.boss ELSE d.role[Viewer] = "lead"
Invites(d) == Leads(d) \/ d.role[Viewer] = "lead"
Sees(d) == IF screen = "requests" THEN Leads(d) ELSE d.role[Viewer] # "none" \/ Leads(d)

Fits(d, role) ==
    IF screen = "requests" THEN d.asks
    ELSE {u \in Person : d.role[u] # "none" /\ role \in {"all", d.role[u]}}
PageOf(d, role, no) ==
    LET all == Fits(d, role)
        Rank(u) == Cardinality({v \in all : v <= u})
    IN  [u \in {v \in all : Rank(v) > (no - 1) * PageSize /\ Rank(v) <= no * PageSize} |-> d.role[u]]
PagesOf(total) == IF total = 0 THEN 1 ELSE (total + PageSize - 1) \div PageSize

\* A member leaves or becomes a plain one: not the last admin of a community.
MaySink(d, u) ==
    /\ Leads(d) /\ d.role[u] # "none"
    /\ screen = "members" /\ d.role[u] = "lead" => \E v \in Person \ {u} : d.role[v] = "lead"

\* The states a change may leave, none when it is refused.
Changed(d, what, u) ==
    CASE what = "demote"  -> IF MaySink(d, u) THEN {[d EXCEPT !.role[u] = "member"]} ELSE {}
      [] what = "remove"  -> IF MaySink(d, u) THEN {[d EXCEPT !.role[u] = "none"]} ELSE {}
      [] what = "promote" -> IF Leads(d) /\ d.role[u] # "none" THEN {[d EXCEPT !.role[u] = "lead"]} ELSE {}
      [] what = "invite"  -> IF Invites(d) /\ d.role[u] = "none"
                             THEN {[d EXCEPT !.role[u] = "member", !.asks = @ \ {u}]} ELSE {}
      [] what = "approve" -> IF Leads(d) /\ u \in d.asks
                             THEN {[d EXCEPT !.role[u] = "member", !.asks = @ \ {u}]} ELSE {}
      [] what = "reject"  -> IF Leads(d) /\ u \in d.asks THEN {[d EXCEPT !.asks = @ \ {u}]} ELSE {}

-----------------------------------------------------------------------------
(* What the page sends. *)
Ask(kind, what, u) == [kind |-> kind, what |-> what, who |-> u, role |-> page.role, no |-> page.no, state |-> "sent", ans |-> None]
Pending(kind) == {i \in DOMAIN net : net[i].kind = kind}
Sends(r) == net' = Append(net, r)

\* loadPeople, with the filter and the number of the page as they are set by now.
LoadPeople(p, rest) ==
    /\ page' = p
    /\ net' = Append(rest, [Ask("people", None, None) EXCEPT !.role = p.role, !.no = p.no])
    /\ cause' = IF \E i \in DOMAIN rest : rest[i].kind # "suggest" THEN cause \cup {"crossed"} ELSE {}

Change(what, u) ==
    /\ ~page.mutating
    /\ page' = [page EXCEPT !.mutating = TRUE, !.candidate = None]
    /\ Sends(Ask("change", what, u))
    /\ UNCHANGED <<timer, cause>>

-----------------------------------------------------------------------------
(* What the viewer does. *)
May(s) == page.here /\ screen \in s /\ acts < MaxActs /\ acts' = acts + 1 /\ UNCHANGED <<screen, db, moves>>
\* The question that is asked before rights are given covers the page.
Act(s) == May(s) /\ page.candidate = None

OnRoleFilter(role) == Act({"members", "subgroup"}) /\ role # page.role
                      /\ LoadPeople([page EXCEPT !.role = role, !.no = 1], net) /\ UNCHANGED timer
OnPage(no) == Act({"members", "subgroup"}) /\ no # page.no /\ no <= PagesOf(page.total)
              /\ LoadPeople([page EXCEPT !.no = no], net) /\ UNCHANGED timer

\* Rights are given after a question; they are taken at once.
OnRoleToggle(u) ==
    /\ Act({"members", "subgroup"}) /\ page.leads /\ u \in DOMAIN page.shown /\ ~page.mutating
    /\ IF page.shown[u] = "lead" THEN Change("demote", u)
       ELSE page' = [page EXCEPT !.candidate = u] /\ UNCHANGED <<net, timer, cause>>
ConfirmPromote == May({"members", "subgroup"}) /\ page.candidate # None /\ Change("promote", page.candidate)
CancelPromote == /\ May({"members", "subgroup"}) /\ page.candidate # None
                 /\ page' = [page EXCEPT !.candidate = None] /\ UNCHANGED <<net, timer, cause>>
OnRemove(u) == Act({"members", "subgroup"}) /\ page.leads /\ u \in DOMAIN page.shown /\ Change("remove", u)
OnInvite(u) == Act({"members", "subgroup"}) /\ page.invites /\ Change("invite", u)
OnPick(u) == Act({"subgroup"}) /\ page.invites /\ u \in page.suggested /\ Change("invite", u)
Decide(what, u) == Act({"requests"}) /\ u \in DOMAIN page.shown /\ Change(what, u)

OnQuery(text) ==
    /\ Act({"subgroup"}) /\ text # page.text
    /\ timer' = text
    /\ page' = [page EXCEPT !.text = text, !.suggested = IF text = None THEN {} ELSE @]
    /\ UNCHANGED <<net, cause>>

-----------------------------------------------------------------------------
(* What happens by itself. *)
LoadSuggestions ==
    /\ page.here /\ timer # None /\ timer' = None
    /\ Sends(Ask("suggest", timer, None))
    /\ UNCHANGED <<screen, db, page, acts, moves, cause>>

Says(i, ans) == net' = [net EXCEPT ![i].state = "ok", ![i].ans = ans]
Fails(i) == net' = [net EXCEPT ![i].state = "failed"]
\* The server answers request i, and takes its change over; or it fails to answer.
Serve(i) ==
    LET r == net[i]
    IN  /\ r.state = "sent"
        /\ \/ Fails(i) /\ UNCHANGED <<db, cause>>
           \/ /\ r.kind = "people" /\ Sees(db) /\ UNCHANGED <<db, cause>>
              /\ Says(i, [items |-> PageOf(db, r.role, r.no), total |-> Cardinality(Fits(db, r.role))])
           \/ /\ r.kind = "refresh" /\ UNCHANGED <<db, cause>>
              /\ Says(i, [mine |-> db.role[Viewer], leads |-> Leads(db), invites |-> Invites(db)])
           \/ /\ r.kind = "suggest" /\ UNCHANGED <<db, cause>>
              /\ Says(i, [items |-> {u \in Matching[r.what] : db.role[u] = "none"}])
           \/ /\ r.kind = "change"
              /\ \E d \in Changed(db, r.what, r.who) : db' = d
              /\ (Says(i, None) /\ UNCHANGED cause) \/ (Fails(i) /\ cause' = cause \cup {"lost"})
        /\ UNCHANGED <<screen, page, timer, acts, moves>>

Answered(i, kind) == /\ page.here /\ net[i].kind = kind /\ net[i].state # "sent"
                     /\ UNCHANGED <<screen, db, acts, moves>>

\* "The last row of a page was removed: show the page before it."
StepsBack(p, ans) == ans.items = <<>> /\ p.no > 1

PeopleCome(i) ==
    /\ Answered(i, "people")
    /\ LET ans == net[i].ans
           rest == RemoveAt(net, i)
           done == [page EXCEPT !.mutating = FALSE]
       IN  IF net[i].state = "failed"
           THEN page' = done /\ net' = rest /\ cause' = cause \cup {"failed"}
           ELSE IF StepsBack(page, ans)
           THEN LoadPeople([page EXCEPT !.no = PagesOf(ans.total)], rest)
           ELSE /\ page' = [done EXCEPT !.shown = ans.items, !.total = ans.total]
                /\ net' = rest /\ UNCHANGED cause
    /\ UNCHANGED timer

\* A change is done: the page refreshes its head, or the requests are loaded again.
ChangeDone(i) ==
    /\ Answered(i, "change")
    /\ LET rest == RemoveAt(net, i)
           cleared == IF screen = "subgroup" /\ net[i].what = "invite"
                      THEN [page EXCEPT !.text = None, !.suggested = {}] ELSE page
       IN  IF net[i].state = "failed"
           THEN page' = [page EXCEPT !.mutating = FALSE] /\ net' = rest /\ UNCHANGED cause
           ELSE IF screen = "requests" THEN LoadPeople(page, rest)
           ELSE page' = cleared /\ net' = Append(rest, Ask("refresh", None, None)) /\ UNCHANGED cause
    /\ UNCHANGED timer

\* Who may not see the list any more is led away, as is everybody when the refresh fails.
Refreshed(i) ==
    /\ Answered(i, "refresh")
    /\ LET ans == net[i].ans
       IN  IF net[i].state = "failed" \/ (screen = "members" /\ ans.mine = "none")
           THEN page' = [page EXCEPT !.here = FALSE] /\ net' = <<>> /\ timer' = None /\ UNCHANGED cause
           ELSE /\ LoadPeople([page EXCEPT !.leads = ans.leads, !.invites = ans.invites], RemoveAt(net, i))
                /\ UNCHANGED timer

\* An answer for a text that is no longer in the box is ignored; a failure is not.
SuggestionsCome(i) ==
    /\ Answered(i, "suggest")
    /\ page' = [page EXCEPT !.suggested = IF net[i].state = "failed" THEN {}
                                          ELSE IF page.text = net[i].what THEN net[i].ans.items ELSE @,
                            !.suggestedFor = IF net[i].state = "ok" /\ page.text = net[i].what THEN net[i].what ELSE @]
    /\ net' = RemoveAt(net, i)
    /\ UNCHANGED <<timer, cause>>

\* Other people change roles, join, leave and ask.
Moved ==
    /\ moves < MaxMoves /\ moves' = moves + 1
    /\ \/ \E u \in Person, r \in {"none", "member", "lead"} : db.role[u] # r /\ db' = [db EXCEPT !.role[u] = r]
       \/ screen = "subgroup" /\ db' = [db EXCEPT !.boss = ~@]
       \/ \E u \in db.asks : db' = [db EXCEPT !.asks = @ \ {u}]
    /\ cause' = cause \cup {"moved"}
    /\ UNCHANGED <<screen, page, net, timer, acts>>

-----------------------------------------------------------------------------
\* The head of the page is there, and the list is being loaded.
Init ==
    /\ screen \in Screens
    /\ \E r \in {"none", "lead"} :
          db = [role |-> <<"lead", r, IF r = "none" THEN r ELSE "member">>, boss |-> TRUE,
                asks |-> IF screen = "requests" /\ r = "none" THEN {2, 3} ELSE {}]
    /\ page = [shown |-> <<>>, total |-> 0, role |-> "all", no |-> 1, mutating |-> FALSE, candidate |-> None,
               text |-> None, suggested |-> {}, suggestedFor |-> None, leads |-> TRUE, invites |-> TRUE, here |-> TRUE]
    /\ net = <<Ask("people", None, None)>>
    /\ timer = None /\ acts = 0 /\ moves = 0 /\ cause = {}

Acts ==
    \/ \E role \in Roles \cup {"all"} : OnRoleFilter(role)
    \/ \E no \in Person : OnPage(no)
    \/ \E u \in Person : \/ OnRoleToggle(u) \/ OnRemove(u) \/ OnInvite(u) \/ OnPick(u)
                       \/ Decide("approve", u) \/ Decide("reject", u)
    \/ ConfirmPromote \/ CancelPromote
    \/ \E text \in {None, "a", "b"} : OnQuery(text)

Happens ==
    \/ LoadSuggestions \/ Moved
    \/ \E i \in DOMAIN net : Serve(i) \/ PeopleCome(i) \/ ChangeDone(i) \/ Refreshed(i) \/ SuggestionsCome(i)

Next == Acts \/ Happens

Spec == Init /\ [][Next]_vars

-----------------------------------------------------------------------------
Quiet == page.here /\ net = <<>> /\ timer = None

\* When nothing is under way the list is the server's for the filter and the page that are
\* set, it is not an empty page behind the last one, the buttons are back, and the names
\* that are suggested are for the text in the box - unless two answers crossed, one failed,
\* or somebody else changed the list.
RosterFits ==
    Quiet =>
        /\ ~page.mutating
        /\ page.suggested # {} => page.suggestedFor = page.text
        /\ cause = {} =>
             /\ page.shown = PageOf(db, page.role, page.no)
             /\ page.total = Cardinality(Fits(db, page.role))
             /\ page.no <= PagesOf(page.total)

\* "mutating": one change at a time.
OneChangeAtATime == Cardinality(Pending("change")) <= 1
=============================================================================
