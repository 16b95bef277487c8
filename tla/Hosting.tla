------------------------------ MODULE Hosting ------------------------------
(***************************************************************************)
(* Events and their audiences: events/events.service.ts.                   *)
(*                                                                         *)
(* An event is open (hosted by nobody), or hosted by the community or one  *)
(* of its subgroups.  An open one can be shared with either, and answers   *)
(* and comments belong to the audience of the host or of the share.  A     *)
(* request checks first and writes in a step of its own; update and a      *)
(* repeated share save the whole row they read.                            *)
(*                                                                         *)
(* There is one community with one subgroup.  Routes are named by their    *)
(* owners.  Status, dates and texts are left out, and so are the site's    *)
(* admins, who may edit every open event and use every route.              *)
(***************************************************************************)
EXTENDS Integers, FiniteSets

CONSTANTS
    User,    \* accounts, each the owner of one route
    Events,  \* how many events there may be
    Shares,  \* how many shares there may be
    Proc,    \* concurrent requests
    None,    \* nobody, no event, share or route
    Mixes    \* what a behaviour has of operations, roles and events (see Mix)

ASSUME BoundsAssumption == Events \in Nat \ {0} /\ Shares \in Nat \ {0}

\* Ids are handed out in order, each once.
Event == 1 .. Events
Share == 1 .. Shares

Operation == {"create", "series", "update", "remove", "groups", "share", "rsvp", "comment",
              "member", "suspend"}
Host == {"open", "community", "subgroup"}
Role == {r \in {"none", "member", "admin"} \X {"none", "member", "moderator"} :
           r[2] # "none" => r[1] # "none"}

\* The operations in play, the roles people start with and can get, the hosts of new
\* events and how many there may be, the columns that are edited, and whether the community
\* is private and its subgroup by invitation.
Mix == [ops : SUBSET Operation, roles : SUBSET Role, hosts : SUBSET Host,
        events : Event, edits : SUBSET {"listing", "day", "route", "meetup"},
        closed : BOOLEAN]

ASSUME MixesAssumption == Mixes \subseteq Mix
ASSUME NoneAssumption == None \notin User /\ None \notin Share

VARIABLES
    crew,      \* community_members: "none", "member" or "admin"
    sub,       \* subgroup_members: "none", "member" or "moderator"
    suspended, \* suspended_at of the community IS NOT NULL
    events,    \* rows of events
    groups,    \* rows of event_pace_groups with a route, and who wrote them
    shares,    \* rows of event_shares
    rsvps,     \* rows of event_rsvps
    comments,  \* rows of event_comments
    made,      \* the last event id handed out
    passed,    \* the last share id handed out
    brought,   \* routes that their owner once put on an event
    saved,     \* events saved since a request read its series
    req,       \* what each request is doing
    mix        \* what is in play

people == <<crew, sub, suspended>>
talk == <<rsvps, comments>>
issued == <<made, passed>>
vars == <<people, events, groups, shares, talk, issued, brought, saved, req, mix>>

Listing == {"public", "members"}
Place == {"unset", "here", "there"}
Row == [host : Host, listing : Listing, owner : User, series : Event \cup {None},
        day : Event, route : User \cup {None}]
NoRow == [host |-> "open", listing |-> "public", owner |-> None, series |-> None,
          day |-> 1, route |-> None]
ShareRow == [event : Event, host : Host \ {"open"}, place : Place]
NoShare == [event |-> None, host |-> "community", place |-> "unset"]

\* A request: whose it is, its event with the row it read, its share likewise, the
\* meetup or answer sent, the routes or events it is about, the list it deletes.
Idle == [step |-> "idle", who |-> None, event |-> None, row |-> NoRow, share |-> None,
         shared |-> NoShare, text |-> "unset", ids |-> {}, seen |-> {}]

-----------------------------------------------------------------------------
At(p, s) == req[p].step = s
Ends(p) == req' = [req EXCEPT ![p] = Idle]
Starts(p, r) == At(p, "idle") /\ req' = [req EXCEPT ![p] = r]
Offers(o) == o \in mix.ops /\ UNCHANGED <<people, mix>>

Put(f, k, v) == [x \in DOMAIN f \cup {k} |-> IF x = k THEN v ELSE f[x]]
Without(f, S) == [x \in DOMAIN f \ S |-> f[x]]

InCrew(u) == u # None /\ crew[u] # "none"
InSub(u) == u # None /\ sub[u] # "none"
IsAdmin(u) == u # None /\ crew[u] = "admin"
IsModerator(u) == u # None /\ sub[u] = "moderator"

(***************************************************************************)
(* Who may do what.                                                        *)
(***************************************************************************)
HostRole(e, u) ==
    CASE e.host = "open" -> [member |-> FALSE, manager |-> u # None /\ e.owner = u]
      [] e.host = "community" -> [member |-> InCrew(u), manager |-> IsAdmin(u)]
      [] e.host = "subgroup" -> [member |-> IsAdmin(u) \/ InSub(u),
                                 manager |-> IsAdmin(u) \/ IsModerator(u)]

CanSee(e, u) ==
    /\ e.host # "open" => ~suspended
    /\ e.listing = "members" => HostRole(e, u).member

CanMutate(e, u) == CanSee(e, u) /\ HostRole(e, u).manager

\* Fault: the host does not matter.
Audience_Community(host, u) == InCrew(u)

\* The people a host's attendee data is for, in SQL.
Audience(host, u) ==
    \/ host = "community" /\ InCrew(u)
    \/ host = "subgroup" /\ (InSub(u) \/ IsAdmin(u))

\* applyAudience.
Listed(e, u) ==
    /\ ~(e.host # "open" /\ suspended)
    /\ \/ e.listing = "public"
       \/ u # None /\ e.host # "open" /\ Audience(e.host, u)

\* accessMap: hostRole for a page of events, from the rows of all their hosts.
AccessMap(S, u) ==
    LET clubs == {s.host : s \in S} \ {"open"}
        inClub == clubs # {} /\ InCrew(u)
        inRide == "subgroup" \in clubs /\ InSub(u) IN
    [e \in S |->
        IF e.host = "open" THEN [member |-> FALSE, manager |-> u # None /\ e.owner = u]
        ELSE IF e.host = "community" THEN [member |-> inClub, manager |-> inClub /\ IsAdmin(u)]
        ELSE [member |-> (inClub /\ IsAdmin(u)) \/ inRide,
              manager |-> (inClub /\ IsAdmin(u)) \/ (inRide /\ IsModerator(u))]]

\* resolveHost: whether the host is found, and what the reader may do there.
Found(host, u) ==
    /\ mix.closed => InCrew(u)
    /\ ~suspended
    /\ host = "subgroup" /\ mix.closed => IsAdmin(u) \/ InSub(u)
CanSeeMembers(host, u) == IF host = "community" THEN InCrew(u) ELSE InSub(u) \/ IsAdmin(u)
CanManage(host, u) == IsAdmin(u) \/ (host = "subgroup" /\ IsModerator(u))

SharesOf(e, host) == {s \in DOMAIN shares : shares[s].event = e /\ shares[s].host = host}

\* attendeeScope: the shares (None for a hosted event) whose audience u is asked as a
\* member of, when the page of the event names ctx as its host.
Scopes(e, u, ctx) ==
    IF events[e].host # "open"
    THEN {s \in {None} : HostRole(events[e], u).member}
    ELSE {s \in SharesOf(e, ctx) : Found(ctx, u) /\ CanSeeMembers(ctx, u)}
Manages(e, u, ctx) ==
    IF events[e].host # "open" THEN HostRole(events[e], u).manager ELSE CanManage(ctx, u)

\* present: whether the page of an event is shown, what it offers, and whose meetup it tells.
Page(e, u, ctx) ==
    LET row == events[e]
        scopes == IF row.host = "open" \/ u # None THEN Scopes(e, u, ctx) ELSE {} IN
    [shown   |-> row.listing = "members" => HostRole(row, u).member,
     answers |-> scopes # {},
     edits   |-> row.host # "open" /\ HostRole(row, u).manager,
     meetup  |-> HostRole(row, u).member \/ scopes # {}]

\* listHosted: the events on the page of a host, its own and those shared with it.
OnHostPage(host, u) ==
    {e \in DOMAIN events :
        \/ events[e].host = host /\ (events[e].listing = "public" \/ CanSeeMembers(host, u))
        \/ SharesOf(e, host) # {} /\ events[e].listing = "public"}

\* listMyUpcoming.
Upcoming(u) ==
    {r \in rsvps :
        /\ r.user = u /\ r.status # "declined"
        /\ ~(events[r.event].host # "open" /\ suspended)
        /\ r.share # None => Audience(shares[r.share].host, u)
        /\ events[r.event].host # "open" => Audience(events[r.event].host, u)}

\* goingCounts and restrictToAudience.
Counted(e, s, host) ==
    {r \in rsvps : r.event = e /\ r.share = s /\ r.status = "going"
                   /\ IF host = "subgroup" THEN InSub(r.user) ELSE InCrew(r.user)}

-----------------------------------------------------------------------------
Init ==
    /\ mix \in Mixes
    /\ \E role \in [User -> mix.roles] :
         crew = [u \in User |-> role[u][1]] /\ sub = [u \in User |-> role[u][2]]
    /\ suspended = FALSE
    /\ events = [e \in {} |-> NoRow] /\ shares = [s \in {} |-> NoShare]
    /\ groups = {} /\ rsvps = {} /\ comments = {} /\ made = 0 /\ passed = 0
    /\ brought = [e \in Event |-> {}]
    /\ saved = [p \in Proc |-> {}]
    /\ req = [p \in Proc |-> Idle]

-----------------------------------------------------------------------------
(***************************************************************************)
(* Events.                                                                 *)
(***************************************************************************)

\* create and createHosted: what may be wrong is checked before the transaction.  Routes
\* given at once, for the event and its pace groups, are the creator's.
BeginCreate(p, u) ==
    /\ Offers("create")
    /\ made < mix.events
    /\ \E host \in mix.hosts, listing \in Listing,
          route \in {None} \cup {x \in {u} : "route" \in mix.edits},
          routes \in SUBSET {x \in {u} : "groups" \in mix.ops} :
         /\ IF host = "open" THEN listing = "public" ELSE Found(host, u) /\ CanManage(host, u)
         /\ Starts(p, [Idle EXCEPT !.step = "insert", !.who = u, !.ids = routes,
                         !.row = [NoRow EXCEPT !.host = host, !.listing = listing, !.owner = u,
                                               !.route = route]])
    /\ UNCHANGED <<events, groups, shares, talk, issued, brought, saved>>

\* One event, or a series with one on each of some days, all of them in one transaction.
Insert(p) ==
    /\ At(p, "insert")
    /\ \E n \in 1 .. mix.events - made :
         /\ n > 1 => "series" \in mix.ops
         /\ made' = made + n
         /\ LET S == made + 1 .. made + n IN
              /\ events' = [e \in DOMAIN events \cup S |->
                             IF e \notin S THEN events[e]
                             ELSE [req[p].row EXCEPT !.day = e - made,
                                                     !.series = IF n = 1 THEN None ELSE made + 1]]
              /\ groups' = groups \cup [event : S, route : req[p].ids, by : {p}]
              /\ brought' = [e \in Event |-> IF e \in S THEN ({req[p].row.route} \ {None}) \cup req[p].ids
                                             ELSE brought[e]]
    /\ Ends(p)
    /\ UNCHANGED <<people, mix, shares, talk, passed, saved>>

\* The row as read with the values of the form; the listing only for hosted events.
Edited(row, listing, day, route) ==
    [row EXCEPT !.listing = IF row.host = "open" THEN @ ELSE listing,
                !.day = day, !.route = route]

BeginUpdate(p, u, e) ==
    LET row == events[e] IN
    /\ Offers("update")
    /\ CanMutate(row, u)
    /\ \E listing \in {row.listing} \cup {x \in Listing : "listing" \in mix.edits},
          day \in {row.day} \cup {x \in Event : "day" \in mix.edits},
          route \in {row.route} \cup {x \in {None, u} : "route" \in mix.edits} :
         Starts(p, [Idle EXCEPT !.step = "save", !.who = u, !.event = e,
                         !.row = Edited(row, listing, day, route)])
    /\ UNCHANGED <<events, groups, shares, talk, issued, brought, saved>>

SaveEvent(p) ==
    LET e == req[p].event
        route == req[p].row.route IN
    /\ At(p, "save")
    /\ events' = Put(events, e, req[p].row)
    /\ brought' = [brought EXCEPT ![e] = @ \cup ({route} \cap {req[p].who})]
    /\ saved' = [q \in Proc |-> saved[q] \cup {e}]
    /\ Ends(p)
    /\ UNCHANGED <<people, mix, groups, shares, talk, issued>>

\* Rows that go with their event, or with their share.
DropEvents(S) ==
    LET gone == {s \in DOMAIN shares : shares[s].event \in S} IN
    /\ events' = Without(events, S)
    /\ groups' = {g \in groups : g.event \notin S}
    /\ shares' = Without(shares, gone)
    /\ rsvps' = {r \in rsvps : r.event \notin S}
    /\ comments' = {c \in comments : c.event \notin S}

BeginRemove(p, u, e) ==
    /\ Offers("remove")
    /\ CanMutate(events[e], u)
    /\ Starts(p, [Idle EXCEPT !.step = "remove", !.event = e])
    /\ UNCHANGED <<events, groups, shares, talk, issued, brought, saved>>

Remove(p) ==
    /\ At(p, "remove")
    /\ DropEvents({req[p].event})
    /\ Ends(p)
    /\ UNCHANGED <<people, mix, issued, brought, saved>>

BeginStop(p, u, e) ==
    /\ Offers("series")
    /\ CanMutate(events[e], u)
    /\ events[e].series # None
    /\ Starts(p, [Idle EXCEPT !.step = "later", !.event = e, !.row = events[e]])
    /\ UNCHANGED <<events, groups, shares, talk, issued, brought, saved>>

\* Fault: the occurrence it stops at stays.
Later_After(row) ==
    {x \in DOMAIN events : events[x].series = row.series /\ events[x].day > row.day}

Later(row) ==
    {x \in DOMAIN events : events[x].series = row.series /\ events[x].day >= row.day}

ReadLater(p) ==
    /\ At(p, "later")
    /\ req' = [req EXCEPT ![p] = [Idle EXCEPT !.step = "stop", !.event = req[p].event,
                                    !.row = req[p].row, !.ids = Later(req[p].row)]]
    /\ saved' = [saved EXCEPT ![p] = {}]
    /\ UNCHANGED <<people, mix, events, groups, shares, talk, issued, brought>>

\* Deletes what it found by id, and marks the series as ended, which nothing reads.
StopSeries(p) ==
    /\ At(p, "stop")
    /\ DropEvents(req[p].ids)
    /\ Ends(p)
    /\ UNCHANGED <<people, mix, issued, brought, saved>>

-----------------------------------------------------------------------------
(***************************************************************************)
(* Pace groups: a transaction that deletes the list and writes it again.   *)
(***************************************************************************)
GroupsOf(e) == {g \in groups : g.event = e}

\* Fault: routes are only looked at when they are new to the site.
Usable_Any(e, u) == User

\* Routes of one's own, and those the event already has.
Usable(e, u) ==
    {u} \cup ({events[e].route} \ {None}) \cup {g.route : g \in GroupsOf(e)}

BeginGroups(p, u, e) ==
    /\ Offers("groups")
    /\ CanMutate(events[e], u)
    /\ \E routes \in SUBSET Usable(e, u) :
         Starts(p, [Idle EXCEPT !.step = "clear", !.who = u, !.event = e, !.ids = routes])
    /\ UNCHANGED <<events, groups, shares, talk, issued, brought, saved>>

\* The DELETE sees the rows committed before it, and waits for transactions that are
\* deleting one of them.
ClearGroups(p) ==
    /\ At(p, "clear")
    /\ \A q \in Proc : At(q, "write") => req[q].seen \cap GroupsOf(req[p].event) = {}
    /\ req' = [req EXCEPT ![p] = [Idle EXCEPT !.step = "write", !.who = req[p].who,
                                    !.event = req[p].event, !.ids = req[p].ids,
                                    !.seen = GroupsOf(req[p].event)]]
    /\ UNCHANGED <<people, mix, events, groups, shares, talk, issued, brought, saved>>

WriteGroups(p) ==
    LET e == req[p].event
        new == [event : {e}, route : req[p].ids, by : {p}] IN
    /\ At(p, "write")
    /\ IF e \in DOMAIN events
       THEN /\ groups' = (groups \ req[p].seen) \cup new
            /\ brought' = [brought EXCEPT ![e] = @ \cup (req[p].ids \cap {req[p].who})]
       ELSE UNCHANGED <<groups, brought>>
    /\ Ends(p)
    /\ UNCHANGED <<people, mix, events, shares, talk, issued, saved>>

-----------------------------------------------------------------------------
(***************************************************************************)
(* Shares.                                                                 *)
(***************************************************************************)

\* "unsent" leaves the meetup out of the call, "unset" empties it.
BeginShare(p, u, host, e) ==
    /\ Offers("share")
    /\ Found(host, u) /\ CanManage(host, u)
    /\ events[e].host = "open" /\ events[e].listing = "public"
    /\ \E s \in IF SharesOf(e, host) = {} THEN {None} ELSE SharesOf(e, host),
          text \in {"unsent"} \cup {x \in Place : "meetup" \in mix.edits} :
         Starts(p, [Idle EXCEPT !.step = "share", !.event = e, !.share = s, !.text = text,
                      !.shared = IF s = None THEN [NoShare EXCEPT !.event = e, !.host = host]
                                 ELSE shares[s]])
    /\ UNCHANGED <<events, groups, shares, talk, issued, brought, saved>>

\* Only what the caller sent is written over what was read.
Merged(row, text) == [row EXCEPT !.place = IF text = "unsent" THEN @ ELSE text]

\* The index allows one share of an event per host.
Clash(s, row) == SharesOf(row.event, row.host) \ {s} # {}

\* Saves the share read before, inserting it when it is gone, or inserts a new one; the
\* event must be there, and no other share of it.
WriteShare(p) ==
    LET row == Merged(req[p].shared, req[p].text) IN
    /\ At(p, "share")
    /\ \E s \in IF req[p].share = None THEN {passed + 1} \cap Share ELSE {req[p].share} :
         IF row.event \notin DOMAIN events \/ Clash(s, row) THEN UNCHANGED <<shares, passed>>
         ELSE /\ shares' = Put(shares, s, row)
              /\ passed' = IF s > passed THEN s ELSE passed
    /\ Ends(p)
    /\ UNCHANGED <<people, mix, events, groups, talk, made, brought, saved>>

BeginUnshare(p, u, host, e) ==
    /\ Offers("share")
    /\ Found(host, u) /\ CanManage(host, u)
    /\ \E s \in SharesOf(e, host) : Starts(p, [Idle EXCEPT !.step = "unshare", !.share = s])
    /\ UNCHANGED <<events, groups, shares, talk, issued, brought, saved>>

\* What goes with a share.
WithShare(s) == /\ comments' = {c \in comments : c.share # s}
                /\ rsvps' = {r \in rsvps : r.share # s}

Unshare(p) ==
    /\ At(p, "unshare")
    /\ shares' = Without(shares, {req[p].share})
    /\ WithShare(req[p].share)
    /\ Ends(p)
    /\ UNCHANGED <<people, mix, events, groups, issued, brought, saved>>

-----------------------------------------------------------------------------
(***************************************************************************)
(* Answers and comments.                                                   *)
(***************************************************************************)
BeginRsvp(p, u, e, ctx) ==
    /\ Offers("rsvp")
    /\ CanSee(events[e], u)
    /\ \E s \in Scopes(e, u, ctx), status \in {"going", "declined"} :
         Starts(p, [Idle EXCEPT !.step = "rsvp", !.who = u, !.event = e, !.share = s,
                                !.text = status])
    /\ UNCHANGED <<events, groups, shares, talk, issued, brought, saved>>

\* The foreign keys: the event and, if there is one, the share are there.
Stands(e, s) == e \in DOMAIN events /\ s \in DOMAIN shares \cup {None}

\* What the unique index of the audience lets an answer stand in for.
SameAnswer(r, e, s, u) == r.event = e /\ r.share = s /\ r.user = u

SaveRsvp(p) ==
    LET q == req[p] IN
    /\ At(p, "rsvp")
    /\ rsvps' = IF ~Stands(q.event, q.share) THEN rsvps
                ELSE {r \in rsvps : ~SameAnswer(r, q.event, q.share, q.who)}
                     \cup {[event |-> q.event, share |-> q.share, user |-> q.who,
                            status |-> q.text]}
    /\ Ends(p)
    /\ UNCHANGED <<people, mix, events, groups, shares, comments, issued, brought, saved>>

BeginComment(p, u, e, ctx) ==
    /\ Offers("comment")
    /\ CanSee(events[e], u)
    /\ \E s \in Scopes(e, u, ctx) :
         Starts(p, [Idle EXCEPT !.step = "comment", !.who = u, !.event = e, !.share = s])
    /\ UNCHANGED <<events, groups, shares, talk, issued, brought, saved>>

AddComment(p) ==
    LET q == req[p] IN
    /\ At(p, "comment")
    /\ comments' = IF ~Stands(q.event, q.share) THEN comments
                   ELSE comments \cup {[event |-> q.event, share |-> q.share, author |-> q.who]}
    /\ Ends(p)
    /\ UNCHANGED <<people, mix, events, groups, shares, rsvps, issued, brought, saved>>

\* Found by its id, its event and the audience, and one's own or the manager's to delete.
BeginUncomment(p, u, c, ctx) ==
    /\ Offers("comment")
    /\ CanSee(events[c.event], u)
    /\ c.share \in Scopes(c.event, u, ctx)
    /\ c.author = u \/ Manages(c.event, u, ctx)
    /\ Starts(p, [Idle EXCEPT !.step = "uncomment", !.seen = {c}])
    /\ UNCHANGED <<events, groups, shares, talk, issued, brought, saved>>

DeleteComment(p) ==
    /\ At(p, "uncomment")
    /\ comments' = comments \ req[p].seen
    /\ Ends(p)
    /\ UNCHANGED <<people, mix, events, groups, shares, rsvps, issued, brought, saved>>

-----------------------------------------------------------------------------
\* Who belongs to the community and its subgroup changes, and the site's admins suspend
\* it (modules Communities and Subgroups).
MembershipChanges(u, role) ==
    /\ "member" \in mix.ops
    /\ crew' = [crew EXCEPT ![u] = role[1]]
    /\ sub' = [sub EXCEPT ![u] = role[2]]
    /\ UNCHANGED <<suspended, mix, events, groups, shares, talk, issued,
                   brought, saved, req>>

SuspensionChanges ==
    /\ "suspend" \in mix.ops
    /\ suspended' = ~suspended
    /\ UNCHANGED <<crew, sub, mix, events, groups, shares, talk, issued,
                   brought, saved, req>>

Next ==
    \/ \E p \in {q \in Proc : At(q, "idle")}, u \in User :
         \/ BeginCreate(p, u)
         \/ \E e \in DOMAIN events :
              \/ BeginUpdate(p, u, e) \/ BeginRemove(p, u, e) \/ BeginStop(p, u, e)
              \/ BeginGroups(p, u, e)
              \/ \E ctx \in Host \ {"open"} :
                   \/ BeginShare(p, u, ctx, e) \/ BeginUnshare(p, u, ctx, e)
                   \/ BeginRsvp(p, u, e, ctx) \/ BeginComment(p, u, e, ctx)
         \/ \E c \in comments, ctx \in Host \ {"open"} : BeginUncomment(p, u, c, ctx)
    \/ \E p \in Proc :
         \/ Insert(p) \/ SaveEvent(p) \/ Remove(p) \/ ReadLater(p) \/ StopSeries(p)
         \/ ClearGroups(p) \/ WriteGroups(p)
         \/ WriteShare(p) \/ Unshare(p) \/ SaveRsvp(p) \/ AddComment(p) \/ DeleteComment(p)
    \/ \E u \in User, role \in mix.roles : MembershipChanges(u, role)
    \/ SuspensionChanges

Spec == Init /\ [][Next]_vars

-----------------------------------------------------------------------------
(***************************************************************************)
(* Properties.                                                             *)
(***************************************************************************)

PageKeeps(e, u, ctx) ==
    LET page == Page(e, u, ctx) IN
    /\ page.shown <=> CanSee(events[e], u)
    /\ page.answers => page.shown
    /\ page.edits <=> events[e].host # "open" /\ CanMutate(events[e], u)
    /\ page.meetup /\ ~page.answers => u = None

\* Every row has its columns, and answers and comments are for an event and an audience
\* it has: nobody answers to an open event that is not shared (the foreign keys and
\* attendeeScope, events.service.ts:1828).
TypeOK ==
    /\ crew \in [User -> {"none", "member", "admin"}]
    /\ sub \in [User -> {"none", "member", "moderator"}]
    /\ events \in [DOMAIN events -> Row] /\ shares \in [DOMAIN shares -> ShareRow]
    /\ DOMAIN events \subseteq 1 .. made /\ DOMAIN shares \subseteq 1 .. passed
    /\ groups \subseteq [event : DOMAIN events, route : User, by : Proc]
    /\ \A x \in rsvps \cup comments :
         /\ x.event \in DOMAIN events
         /\ IF x.share = None THEN events[x.event].host # "open"
            ELSE x.share \in DOMAIN shares /\ shares[x.share].event = x.event

\* The lists and the page of an event agree on who sees it, a page of events gives
\* everybody the role the event's own page gives them, what a host lists can be opened,
\* and a page offers what the server will accept: applyAudience, accessMap and listHosted
\* say in SQL and in bulk what canSee and hostRole say one at a time.  (present does not
\* look at the suspension of the host, so while it lasts a page offers too much.)
ViewsAgree ==
    LET rows == {events[e] : e \in DOMAIN events} IN
    \A u \in User \cup {None} :
        /\ \A r \in rows : Listed(r, u) <=> CanSee(r, u)
        /\ AccessMap(rows, u) = [r \in rows |-> HostRole(r, u)]
        /\ \A ctx \in Host \ {"open"} :
             /\ Found(ctx, u) => \A e \in OnHostPage(ctx, u) : CanSee(events[e], u)
             /\ \A e \in DOMAIN events : suspended \/ PageKeeps(e, u, ctx)

\* What is on one's list of upcoming events can be opened, and answered there unless the
\* community it is shared with is suspended (listMyUpcoming against setRsvp).
UpcomingCanBeAnswered ==
    \A u \in User : \A r \in Upcoming(u) :
        /\ CanSee(events[r.event], u)
        /\ \/ \E ctx \in Host \ {"open"} : r.share \in Scopes(r.event, u, ctx)
           \/ r.share # None /\ suspended

\* The two at once: what people are shown is what they may open and answer.
PeopleSeeWhatTheyMay == ViewsAgree /\ UpcomingCanBeAnswered

\* What a club shared stays a public event that nobody hosts, whatever its owner edits
\* later: everybody in the club can open it.
SharesStayPublic ==
    \A s \in DOMAIN shares :
        events[shares[s].event].host = "open" /\ events[shares[s].event].listing = "public"

\* An event is shared once with a host and answered once by a person per audience,
\* however many requests share and answer at once (event-rsvp.entity.ts:25).
OnePerAudience ==
    /\ \A s, t \in DOMAIN shares :
         shares[s].event = shares[t].event /\ shares[s].host = shares[t].host => s = t
    /\ \A r, t \in rsvps :
         r.event = t.event /\ r.user = t.user /\ r.share = t.share => r = t

\* A route is used by an event only when its owner once put it there: others can keep it,
\* not bring it (setPaceGroups, update and create).
RoutesBroughtByOwners ==
    \A e \in DOMAIN events :
        ({events[e].route} \ {None}) \cup {g.route : g \in GroupsOf(e)} \subseteq brought[e]

\* A stop takes every occurrence from its day on and no earlier one, except those that
\* were saved since it looked.
StopTakes ==
    \A p \in Proc : At(p, "stop") /\ ~At(p, "stop")' =>
        \A e \in DOMAIN events \ saved[p] :
            events[e].series = req[p].row.series =>
                (e \notin DOMAIN events' <=> events[e].day >= req[p].row.day)

\* The same of every step (stopSeries, which deletes by the ids it read before).
StopTakesTheRest == [][StopTakes]_vars

-----------------------------------------------------------------------------
(***************************************************************************)
(* What does not hold (further configurations).                            *)
(***************************************************************************)

\* "a second share call that omits the meetup does not wipe one that is already stored".
MeetupNotWiped ==
    [][\A p \in Proc : At(p, "share") /\ ~At(p, "share")' /\ req[p].text = "unsent" =>
         \A s \in DOMAIN shares \cap DOMAIN shares' : shares[s] = shares'[s]]_vars

\* The list of an event is one list.
OneList == \A g, h \in groups : g.event = h.event => g.by = h.by

\* "Events of a suspended community disappear from every list" (events.service.ts:1652),
\* and their pages go with the lists.
PagesGoToo ==
    \A u \in User \cup {None}, e \in DOMAIN events, ctx \in Host \ {"open"} : PageKeeps(e, u, ctx)

\* Everybody who may answer is counted.
GoingIsCounted ==
    \A r \in rsvps : r.share = None /\ r.status = "going" =>
        (HostRole(events[r.event], r.user).member => r \in Counted(r.event, None, events[r.event].host))

\* A removed event and a removed share do not come back.
NothingRevived ==
    [][(DOMAIN events' \ DOMAIN events) \cap 1 .. made = {}
       /\ (DOMAIN shares' \ DOMAIN shares) \cap 1 .. passed = {}]_vars
=============================================================================
