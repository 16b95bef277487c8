------------------------------- MODULE Views -------------------------------
(***************************************************************************)
(* The pages of communities: who is served one, what it says of the viewer *)
(* and which buttons it shows.  A request reads the rows it needs one by   *)
(* one, without a transaction, and answers from what it read; the rows     *)
(* move between its reads.  One viewer, a community with a subgroup, and a *)
(* poll or a post in one of them.  A request that the code ends early is   *)
(* let read on: the answer is the same.                                    *)
(***************************************************************************)
EXTENDS Naturals, FiniteSets, SequencesExt

CONSTANTS
    Kind,        \* the endpoints that are asked
    MaxMoves,    \* how often the rows move while a request runs
    None         \* no answer yet, nothing to say

VARIABLES
    db,          \* what the tables say of the viewer and of the pages
    kind, seen,  \* the endpoint asked, and what the request read so far
    could,       \* what the viewer was entitled to at some moment since it began
    moves        \* how often the rows moved since

vars == <<db, kind, seen, could, moves>>

Visibilities == {"public", "request", "private"}
Groups == {"open", "approval", "invite"}
NoPoll == [inGroup |-> FALSE, public |-> FALSE, all |-> TRUE, closed |-> FALSE, own |-> FALSE]

CommunityKinds == {"findAll", "findMine", "findBySlug", "members", "requests"}
GroupKinds == {"groups", "group", "crew", "begs"}
HostKinds == {"polls", "poll", "voters", "posts"}

-----------------------------------------------------------------------------
\* The rows an endpoint reads, in its order: a name, and the field of db it reads.
Script ==
    [findAll    |-> <<"row", "role", "ask">>,
     findMine   |-> <<"role", "row">>,
     findBySlug |-> <<"row", "in", "still", "role", "ask">>,
     members    |-> <<"row", "role">>,
     requests   |-> <<"row", "role">>,
     groups     |-> <<"row", "in", "admin", "group", "inside", "crew", "beg", "still">>,
     group      |-> <<"row", "in", "group", "admin", "inside", "seen", "crew", "beg", "still">>,
     crew       |-> <<"row", "in", "group", "admin", "inside", "crew">>,
     begs       |-> <<"row", "in", "group", "admin", "inside", "crew">>,
     polls      |-> <<"row", "role", "group", "crew", "poll">>,
     poll       |-> <<"row", "role", "group", "crew", "poll">>,
     voters     |-> <<"row", "role", "group", "crew", "poll">>,
     posts      |-> <<"row", "role", "group", "crew", "poll">>]

FieldOf(name) ==
    CASE name = "row"                              -> "club"
      [] name \in {"role", "in", "still", "admin"} -> "role"
      [] name \in {"crew", "inside", "seen"}       -> "crew"
      [] OTHER                                     -> name

Names(k) == Range(Script[k])

-----------------------------------------------------------------------------
(* What the services check, of the rows `r` they read. *)
ReadableCommunity(r) == r.in # "none" \/ (r.row.vis # "private" /\ ~r.row.suspended)
\* Fault: a page is not looked at again for a suspension.
FoundBySlug_AnyState(r) == r.row.vis = "private" => r.in # "none"
FoundBySlug(r) == (r.row.vis = "private" => r.in # "none") /\ (r.row.suspended => r.still # "none")
CanSee(visibility, admin, inside) == admin \/ visibility # "invite" \/ inside # "none"
RequireVisible(r) == ReadableCommunity(r) /\ CanSee(r.group, r.admin = "admin", r.inside)
RequireManageable(r) == RequireVisible(r) /\ (r.admin = "admin" \/ r.crew = "moderator")

\* What the viewer is to the host of a poll or a post; an answer of the site's admin counts for polls.
ResolveHost(r, siteAdmin) ==
    LET isAdmin == r.role = "admin"
        sub == r.poll.inGroup
    IN  [found       |-> /\ r.row.vis = "private" => r.role # "none" \/ siteAdmin
                         /\ ~r.row.suspended
                         /\ sub => r.group # "invite" \/ isAdmin \/ siteAdmin \/ r.crew # "none",
         canModerate |-> isAdmin \/ siteAdmin \/ (sub /\ r.crew = "moderator"),
         isMember    |-> IF sub THEN isAdmin \/ r.crew # "none" ELSE r.role # "none"]

CanBePublic(r) == r.row.vis # "private" /\ (r.poll.inGroup => r.group # "invite")

\* The picture of a page is linked with its token where the page is not public.
ImagesRestricted(r) == r.row.vis = "private" \/ r.group = "invite"

-----------------------------------------------------------------------------
(* The pages: refused, or what they say.  `can` holds the operations they offer. *)
Page(served, said, can, signed) == [served |-> served, says |-> said, can |-> can, signed |-> signed]
Refused == Page(FALSE, {}, {}, None)

Flags(is) == {name \in DOMAIN is : is[name]}

SerializeCommunity(r, role, ask, counted) ==
    Page(TRUE,
         Flags([member |-> role # "none", pending |-> role = "none" /\ ask]),
         Flags([requests |-> counted /\ role = "admin"]),
         r.row.vis = "private")

SerializeSubgroup(r) ==
    Page(TRUE,
         Flags([crew |-> r.crew # "none", begged |-> r.beg]),
         Flags([begs |-> r.still = "admin" \/ r.crew = "moderator"]),
         ImagesRestricted(r))

SerializePoll(r, host, site) ==
    LET results == (host.isMember \/ site) /\ (r.poll.all \/ host.canModerate)
    IN  Page(TRUE,
             Flags([results |-> results]),
             Flags([vote |-> host.isMember /\ ~r.poll.closed, voters |-> host.canModerate, edit |-> r.poll.own,
                    delete |-> r.poll.own \/ host.canModerate, publish |-> CanBePublic(r)]),
             None)

SerializePost(r, host) ==
    Page(TRUE, {}, Flags([edit |-> r.poll.own, delete |-> r.poll.own \/ host.canModerate]), None)

\* The endpoints, each named for its method.
Only(guard, page) == IF guard THEN page ELSE Refused
Plain(guard) == Page(guard, {}, {}, None)

FindAll(r) == Only(r.row.vis # "private" /\ ~r.row.suspended, SerializeCommunity(r, r.role, r.ask, FALSE))
FindMine(r) == Only(r.role # "none", SerializeCommunity(r, r.role, FALSE, FALSE))
FindBySlug(r) == Only(FoundBySlug(r), SerializeCommunity(r, r.role, r.ask, TRUE))
ListMembers(r) == Plain(r.role # "none")
ListJoinRequests(r) == Plain(r.role = "admin")

ListSubgroups(r) == Only(ReadableCommunity(r) /\ CanSee(r.group, r.admin = "admin", r.inside), SerializeSubgroup(r))
FindSubgroup(r) == Only(RequireVisible(r) /\ CanSee(r.group, r.admin = "admin", r.seen), SerializeSubgroup(r))
ListCrew(r) == Plain(RequireVisible(r) /\ (r.admin = "admin" \/ r.crew # "none"))
ListCrewRequests(r) == Plain(RequireManageable(r))

ListPolls(r) == LET host == ResolveHost(r, FALSE) IN Only(host.found /\ host.isMember, SerializePoll(r, host, FALSE))
FindPoll(r, site) ==
    LET host == ResolveHost(r, site)
    IN  Only(host.found /\ (host.isMember \/ site \/ (r.poll.public /\ CanBePublic(r))), SerializePoll(r, host, site))
Voters(r, site) == LET host == ResolveHost(r, site) IN Plain(host.found /\ host.canModerate)
ListPosts(r) == LET host == ResolveHost(r, FALSE) IN Only(host.found /\ host.isMember, SerializePost(r, host))

Answer(k, r, site) ==
    CASE k = "findAll" -> FindAll(r)       [] k = "findMine" -> FindMine(r)       [] k = "findBySlug" -> FindBySlug(r)
      [] k = "members" -> ListMembers(r)   [] k = "requests" -> ListJoinRequests(r)
      [] k = "groups"  -> ListSubgroups(r) [] k = "group"    -> FindSubgroup(r)
      [] k = "crew"    -> ListCrew(r)      [] k = "begs"     -> ListCrewRequests(r)
      [] k = "polls"   -> ListPolls(r)     [] k = "poll"     -> FindPoll(r, site) [] k = "voters"     -> Voters(r, site)
      [] k = "posts"   -> ListPosts(r)

-----------------------------------------------------------------------------
(* What the operations behind the buttons accept, of the rows as they are. *)
Rows(k) == [n \in Names(k) |-> db[FieldOf(n)]]

Restriction(k) ==
    IF db.club.vis = "private" \/ (k \in GroupKinds /\ db.group = "invite") THEN "signed" ELSE "public"

Accepts(op) ==
    LET host == ResolveHost(Rows("poll"), FALSE)
        requireHost == host.found /\ host.isMember
    IN  CASE op = "requests" -> ListJoinRequests(Rows("requests")).served
          [] op = "begs"     -> ListCrewRequests(Rows("begs")).served
          [] op = "voters"   -> Voters(Rows("voters"), db.site).served
          [] op = "vote"     -> requireHost /\ ~db.poll.closed
          [] op = "edit"     -> requireHost /\ db.poll.own
          [] op = "delete"   -> requireHost /\ (db.poll.own \/ host.canModerate)
          [] op = "publish"  -> CanBePublic(Rows("poll"))

Offered(k) ==
    CASE k = "findBySlug"          -> {"requests"}
      [] k \in {"groups", "group"} -> {"begs"}
      [] k \in {"polls", "poll"}   -> {"vote", "voters", "edit", "delete", "publish"}
      [] k = "posts"               -> {"edit", "delete"}
      [] OTHER                     -> {}

-----------------------------------------------------------------------------
(* What the viewer is entitled to, whatever the code checks. *)
Entitled(d) ==
    LET admin == d.role = "admin"
        crew == admin \/ d.crew # "none"
        member == IF d.poll.inGroup THEN crew ELSE d.role # "none"
    IN  Flags([club      |-> d.role # "none" \/ (d.club.vis # "private" /\ ~d.club.suspended),
               member    |-> d.role # "none",
               admin     |-> admin,
               group     |-> crew \/ d.group # "invite",
               crew      |-> crew,
               moderator |-> admin \/ d.crew = "moderator",
               host      |-> member,
               moderates |-> admin \/ (d.poll.inGroup /\ d.crew = "moderator"),
               openPoll  |-> d.poll.public,
               openClub  |-> d.club.vis # "private",
               openGroup |-> d.group # "invite"])

Needs(k) ==
    CASE k \in {"findAll", "findMine", "findBySlug"} -> {{"club"}}
      [] k = "members"                   -> {{"member"}}
      [] k = "requests"                  -> {{"admin"}}
      [] k \in {"groups", "group"}       -> {{"club"}, {"group"}}
      [] k = "crew"                      -> {{"club"}, {"crew"}}
      [] k = "begs"                      -> {{"club"}, {"moderator"}}
      [] k \in {"polls", "posts"}        -> {{"host"}}
      [] k = "poll"                      -> {{"host", "openPoll"}, {"host", "openClub"},
                                             {"host", "openGroup", IF db.poll.inGroup THEN "host" ELSE "openClub"}}
      [] k = "voters"                    -> {{"moderates"}}

-----------------------------------------------------------------------------
(* A request: the rows it reads, and the rows moving meanwhile. *)
\* What the endpoint does not read stays as it is at first.
Polls == [inGroup : BOOLEAN, public : IF kind = "poll" THEN BOOLEAN ELSE {FALSE},
          all : IF kind \in {"polls", "poll"} THEN BOOLEAN ELSE {TRUE},
          closed : IF kind \in {"polls", "poll"} THEN BOOLEAN ELSE {FALSE},
          own : IF kind = "voters" THEN {FALSE} ELSE BOOLEAN]

Possible(d) ==
    /\ d.ask => d.role = "none"
    /\ d.crew # "none" => d.role # "none"
    /\ d.beg => d.role # "none"

Done == DOMAIN seen = Names(kind)
Given == Answer(kind, seen, db.site)

Init ==
    /\ kind \in Kind
    /\ seen = <<>>
    /\ moves = 0
    /\ \E vis \in Visibilities, suspended \in BOOLEAN, role \in {"none", "member", "admin"} :
         \E ask \in IF kind \in CommunityKinds THEN BOOLEAN ELSE {FALSE},
            poll \in IF kind \in HostKinds THEN Polls ELSE {NoPoll},
            beg \in IF kind \in GroupKinds THEN BOOLEAN ELSE {FALSE} :
          \E group \in IF kind \in GroupKinds \/ poll.inGroup THEN Groups ELSE {"open"},
            crew \in IF kind \in GroupKinds \/ poll.inGroup THEN {"none", "member", "moderator"} ELSE {"none"},
            site \in IF kind \in {"poll", "voters"} THEN BOOLEAN ELSE {FALSE} :
              db = [club |-> [vis |-> vis, suspended |-> suspended], role |-> role, ask |-> ask, group |-> group,
                    crew |-> crew, beg |-> beg, poll |-> poll, site |-> site]
    /\ Possible(db)
    /\ could = Entitled(db)

Read ==
    /\ ~Done
    /\ LET name == Script[kind][Cardinality(DOMAIN seen) + 1]
       IN  seen' = [n \in DOMAIN seen \cup {name} |-> IF n = name THEN db[FieldOf(n)] ELSE seen[n]]
    /\ UNCHANGED <<db, kind, could, moves>>

Moved(d) ==
    /\ ~Done /\ seen # <<>> /\ moves < MaxMoves
    /\ d # db /\ Possible(d)
    /\ db' = d
    /\ could' = could \cup Entitled(d)
    /\ moves' = moves + 1
    /\ UNCHANGED <<kind, seen>>

SetVisibility == \E v \in Visibilities : ~db.club.suspended /\ Moved([db EXCEPT !.club.vis = v])
Suspend == Moved([db EXCEPT !.club.suspended = ~@])
Ask == kind \in CommunityKinds /\ db.role = "none" /\ db.club.vis = "request" /\ Moved([db EXCEPT !.ask = TRUE])
SetRole == \E role \in {"member", "admin"} : Moved([db EXCEPT !.role = role, !.ask = FALSE])
Leave == Moved([db EXCEPT !.role = "none", !.crew = "none", !.beg = FALSE])
InGroup == kind \in GroupKinds \/ db.poll.inGroup
SetGroup == InGroup /\ \E g \in Groups : Moved([db EXCEPT !.group = g])
SetCrew ==
    /\ InGroup
    /\ \E crew \in {"none", "member", "moderator"} : Moved([db EXCEPT !.crew = crew, !.beg = FALSE])
SetPoll == kind \in HostKinds /\ \E poll \in Polls :
    /\ poll.inGroup = db.poll.inGroup /\ poll.own = db.poll.own
    /\ poll.public => db.poll.public \/ CanBePublic(Rows("poll"))
    /\ Moved([db EXCEPT !.poll = poll])

Next == Read \/ SetVisibility \/ Suspend \/ Ask \/ SetRole \/ Leave \/ SetGroup \/ SetCrew \/ SetPoll

Spec == Init /\ [][Next]_vars

-----------------------------------------------------------------------------
\* A page is served only to somebody who was entitled to it at some moment
\* since the request began: to the community and to the subgroup, to the
\* lists of members and of requests, to who voted what.
ServedToTheEntitled ==
    Done /\ Given.served => \A need \in Needs(kind) : need \cap could # {} \/ db.site

\* The buttons on a page are the operations that accept the viewer: while no
\* row moved, a page offers a member exactly what the services would do.
OneOfTheHost == kind \in HostKinds => "host" \in Entitled(db) /\ ~db.site
ButtonsDo ==
    Done /\ Given.served /\ moves = 0 /\ OneOfTheHost =>
        \A op \in Offered(kind) : op \in Given.can <=> Accepts(op)

\* "Site admin: may read and moderate any poll" (community-polls.service.ts:84):
\* the button that removes a poll works for them as well.
SiteAdminsModerate ==
    Done /\ Given.served /\ moves = 0 /\ db.site => ("delete" \in Given.can <=> Accepts("delete"))

\* The picture of a page loads: its link has the token where the uploads ask
\* for it, and is bare only where the page was public at some moment.
PicturesLoad ==
    Done /\ Given.served /\ Given.signed # None =>
        /\ moves = 0 => (Given.signed <=> Restriction(kind) = "signed")
        /\ ~Given.signed => {"openClub"} \cup (IF kind \in GroupKinds THEN {"openGroup"} ELSE {}) \subseteq could

\* Whatever a page offers works: its buttons, and the link of its picture.
ButtonsWork == ButtonsDo /\ PicturesLoad
=============================================================================
