------------------------------- MODULE Posts -------------------------------
(***************************************************************************)
(* The feed of a community and of a subgroup in it: posts, comments, the   *)
(* inbox entries that tell of them (community-posts.service.ts,            *)
(* notifications.service.ts), reports of what is in the feed               *)
(* (reports.service.ts), and what the deletion of a page does to all of    *)
(* them (community-cleanup.service.ts).                                    *)
(*                                                                         *)
(* Pages: 0 is the community, g > 0 the g-th subgroup that had the         *)
(* subgroup's address.  Inbox entries name a page by its address, so what  *)
(* looks for entries finds those of every subgroup that had it.            *)
(***************************************************************************)
EXTENDS Naturals, FiniteSets

CONSTANTS
    User,      \* accounts
    Site,      \* a site admin
    Proc,      \* requests under way at a time
    Nobody,    \* who deletes when nobody is to be left out of the notice
    Gone,      \* a row that was deleted; the page of a notice
    Pages,     \* how many subgroups may get the address
    Posts,     \* how many posts,
    Comments,  \* comments
    Reports,   \* and reports may be created
    Mixes      \* the mixes of operations of which a behaviour has one

VARIABLES
    live,      \* the pages that exist
    born,      \* subgroups created so far
    crew,      \* community_members: the role of each account
    squad,     \* subgroup_members of the subgroup that exists
    suspended,
    posts,     \* ids in order of creation
    comments,
    reports,
    inbox,
    req,
    ops

pages == <<live, born, crew, squad, suspended>>
feed == <<posts, comments>>
vars == <<pages, feed, reports, inbox, req, ops>>

Community == 0
Page == 0 .. Pages
Post == 1 .. Posts
Comment == 1 .. Comments
Report == 1 .. Reports
Operation == {"write", "comment", "remove", "report", "drop", "delete", "members", "suspend", "renew"}

Idle == [step |-> "idle", by |-> Nobody, page |-> Community, item |-> 0,
         told |-> {}, closes |-> {}, filed |-> 0]

-----------------------------------------------------------------------------
At(p, s) == req[p].step = s
Starts(p, r) == At(p, "idle") /\ req' = [req EXCEPT ![p] = r]
Ends(p) == req' = [req EXCEPT ![p] = Idle]
Goes(p, s) == req' = [req EXCEPT ![p].step = s]

Rows(f) == {i \in DOMAIN f : f[i] # Gone}
Grown(f, row) == [i \in DOMAIN f \cup {Cardinality(DOMAIN f) + 1} |-> IF i \in DOMAIN f THEN f[i] ELSE row]
Without(f, S) == [i \in DOMAIN f |-> IF i \in S THEN Gone ELSE f[i]]

Subgroup == {g \in live : g # Community}
Crew == {u \in User : crew[u] # "none"}
Admins == {u \in User : crew[u] = "admin"}
Squad(g) == IF g \in live THEN {u \in User : squad[u] # "none"} ELSE {}

\* communityMembers and subgroupAudience: who is told of what happens on a page.
Audience(g, author) == (IF g = Community THEN Crew ELSE Squad(g) \cup Admins) \ {author}

\* requireHost: who writes on a page, and who may remove what others wrote.
Enters(u, g) ==
    /\ g \in live /\ Community \in live /\ ~suspended
    /\ u \in Audience(g, Nobody)
Moderates(u, g) == u \in Admins \/ (g \in Subgroup /\ squad[u] = "moderator")

On(g) == {i \in Rows(posts) : posts[i].page = g}

Under(S) == {c \in Rows(comments) : comments[c].post \in S}

\* What a report names.
Target == ({"community"} \X {Community}) \cup ({"post"} \X Post) \cup ({"comment"} \X Comment)
Exists(t) == CASE t[1] = "community" -> Community \in live
               [] t[1] = "post" -> t[2] \in Rows(posts)
               [] t[1] = "comment" -> t[2] \in Rows(comments)
\* The bound on posts: a second one when an address is taken again.
PostLimit == IF "renew" \in ops THEN Posts ELSE 1

Open(r) == r \in DOMAIN reports /\ reports[r].open
Closing == UNION {req[p].closes : p \in Proc}

Init ==
    /\ live = {Community, 1} /\ born = 1 /\ suspended = FALSE
    /\ \E a \in User : /\ crew = [u \in User |-> IF u = a THEN "admin" ELSE "member"]
                       /\ squad = [u \in User |-> IF u = a THEN "moderator" ELSE "none"]
    /\ posts = <<>> /\ comments = <<>> /\ reports = <<>>
    /\ inbox = {}
    /\ req = [p \in Proc |-> Idle]
    /\ ops \in Mixes

-----------------------------------------------------------------------------
\* Writing.  The page is checked, then the row is inserted, which fails by its
\* foreign keys when the page has gone, then it is read again for the answer.
BeginCreate(p, u, g) ==
    /\ "write" \in ops /\ Enters(u, g)
    /\ Starts(p, [Idle EXCEPT !.step = "post", !.by = u, !.page = g])
    /\ UNCHANGED <<pages, feed, reports, inbox, ops>>

BeginAddComment(p, u, i) ==
    /\ "comment" \in ops /\ i \in Rows(posts) /\ Enters(u, posts[i].page)
    /\ Starts(p, [Idle EXCEPT !.step = "comment", !.by = u, !.page = posts[i].page, !.item = i,
                              !.told = {posts[i].author}])
    /\ UNCHANGED <<pages, feed, reports, inbox, ops>>

Create(p) ==
    /\ At(p, "post") /\ Cardinality(DOMAIN posts) < PostLimit
    /\ IF req[p].page \in live
       THEN /\ posts' = Grown(posts, [page |-> req[p].page, author |-> req[p].by])
            /\ req' = [req EXCEPT ![p].step = "tell", ![p].item = Cardinality(DOMAIN posts) + 1]
       ELSE Ends(p) /\ UNCHANGED posts
    /\ UNCHANGED <<pages, comments, reports, inbox, ops>>

AddComment(p) ==
    /\ At(p, "comment") /\ Cardinality(DOMAIN comments) < Comments
    /\ IF req[p].item \in Rows(posts)
       THEN /\ comments' = Grown(comments, [post |-> req[p].item, author |-> req[p].by])
            /\ Goes(p, "commenters")
       ELSE Ends(p) /\ UNCHANGED comments
    /\ UNCHANGED <<pages, posts, reports, inbox, ops>>

\* postComment: the author, as read before, and everybody who commented.
Commenters(p) ==
    /\ At(p, "commenters")
    /\ req' = [req EXCEPT ![p].step = "answer",
                          ![p].told = @ \cup {comments[c].author : c \in Under({req[p].item})}]
    /\ UNCHANGED <<pages, feed, reports, inbox, ops>>

\* Who of them sees the page; a post's audience is all who do.
ReadAudience(p) ==
    /\ req[p].step \in {"tell", "answer"}
    /\ LET all == Audience(req[p].page, req[p].by)
           told == IF At(p, "tell") THEN all ELSE req[p].told \cap all
       IN IF told = {} \/ (At(p, "tell") /\ req[p].item \notin Rows(posts)) THEN Ends(p)
          ELSE req' = [req EXCEPT ![p].step = "insert", ![p].told = told]
    /\ UNCHANGED <<pages, feed, reports, inbox, ops>>

\* insertMany, after the request was answered; no key ties an entry to its page.
InsertEntries(p) ==
    /\ At(p, "insert")
    /\ inbox' = inbox \cup {[to |-> u, page |-> req[p].page] : u \in req[p].told}
    /\ Ends(p)
    /\ UNCHANGED <<pages, feed, reports, ops>>

BeginRemove(p, u, i) ==
    /\ "remove" \in ops /\ i \in Rows(posts) /\ Enters(u, posts[i].page)
    /\ u = posts[i].author \/ Moderates(u, posts[i].page)
    /\ Starts(p, [Idle EXCEPT !.step = "remove", !.by = u, !.item = i])
    /\ UNCHANGED <<pages, feed, reports, inbox, ops>>

Remove(p) ==
    /\ At(p, "remove")
    /\ posts' = Without(posts, {req[p].item})
    /\ comments' = Without(comments, Under({req[p].item}))
    /\ Ends(p)
    /\ UNCHANGED <<pages, reports, inbox, ops>>

BeginRemoveComment(p, u, c) ==
    /\ "remove" \in ops /\ c \in Rows(comments)
    /\ LET g == posts[comments[c].post].page IN
       Enters(u, g) /\ (u = comments[c].author \/ Moderates(u, g))
    /\ Starts(p, [Idle EXCEPT !.step = "uncomment", !.by = u, !.item = c])
    /\ UNCHANGED <<pages, feed, reports, inbox, ops>>

RemoveComment(p) ==
    /\ At(p, "uncomment")
    /\ comments' = Without(comments, {req[p].item})
    /\ Ends(p)
    /\ UNCHANGED <<pages, posts, reports, inbox, ops>>

-----------------------------------------------------------------------------
\* Reports.  A public page can be reported by everybody while it is not suspended;
\* what is in the feeds by members, whether they see the subgroup or not.
MayReport(u, t) ==
    /\ Exists(t)
    /\ CASE t[1] = "community" -> u \in Crew \/ ~suspended
         [] t[1] = "post" -> u \in Crew
         [] t[1] = "comment" -> u \in Crew /\ comments[t[2]].author # u

Same(r, u, t) == Open(r) /\ reports[r].by = u /\ reports[r].target = t

BeginReport(p, u, t) ==
    /\ "report" \in ops /\ MayReport(u, t)
    /\ ~\E r \in Report : Same(r, u, t)
    /\ Starts(p, [Idle EXCEPT !.step = "report", !.by = u, !.told = {t}])
    /\ UNCHANGED <<pages, feed, reports, inbox, ops>>

\* The insert fails without the community and when the index finds the same report
\* open; it waits for a deletion that is about to close that one.
FileReport(p) ==
    LET u == req[p].by
        t == CHOOSE x \in req[p].told : TRUE
    IN
    /\ At(p, "report") /\ Cardinality(DOMAIN reports) < Reports
    /\ \A r \in Closing : ~Same(r, u, t)
    /\ reports' = IF Community \in live /\ ~\E r \in Report : Same(r, u, t)
                  THEN Grown(reports, [by |-> u, target |-> t, open |-> TRUE])
                  ELSE reports
    /\ Ends(p)
    /\ UNCHANGED <<pages, feed, inbox, ops>>

Closed(S) == [r \in DOMAIN reports |-> [reports[r] EXCEPT !.open = @ /\ r \notin S]]

\* One statement, which waits for a deletion that has the row.
Resolve(r) ==
    /\ "report" \in ops /\ Open(r) /\ r \notin Closing
    /\ reports' = Closed({r})
    /\ UNCHANGED <<pages, feed, inbox, req, ops>>

-----------------------------------------------------------------------------
\* The deletion of a page.

\* Members are read first; who deletes is left out of the notice.
BeginDelete(p, u) ==
    /\ "delete" \in ops /\ Community \in live
    /\ u = Site \/ (u \in Admins /\ ~suspended)
    /\ Starts(p, [Idle EXCEPT !.step = "close", !.by = u, !.told = Crew \ {u}])
    /\ UNCHANGED <<pages, feed, reports, inbox, ops>>

BeginDrop(p, u, g) ==
    /\ "drop" \in ops /\ g \in Subgroup
    /\ u = Site \/ (u \in Admins /\ ~suspended)
    /\ Starts(p, [Idle EXCEPT !.step = "close", !.by = u, !.page = g, !.told = Squad(g) \ {u}])
    /\ UNCHANGED <<pages, feed, reports, inbox, ops>>

\* Fault: reports of comments are forgotten.
About_Posts(g) == {r \in DOMAIN reports : reports[r].target \in {"post"} \X On(g)}

\* The reports about a subgroup; every report in a community names the community.
About(g) ==
    IF g = Community THEN DOMAIN reports
    ELSE {r \in DOMAIN reports :
            reports[r].target \in ({"post"} \X On(g)) \cup ({"comment"} \X Under(On(g)))}

\* First statement of the transaction; the others see it when that commits.
CloseReports(p) ==
    /\ At(p, "close")
    /\ LET mine == {r \in About(req[p].page) : Open(r)} IN
       /\ mine \cap Closing = {}
       /\ req' = [req EXCEPT ![p].step = "rows", ![p].closes = mine,
                             ![p].filed = Cardinality(DOMAIN reports)]
    /\ UNCHANGED <<pages, feed, reports, inbox, ops>>

\* Fault: the notice names the page it is about.
Notice_Linked(u, g) == [to |-> u, page |-> g]

Notice(u, g) == [to |-> u, page |-> Gone]

\* The entries that name the address of a page.
Pointing(g) == {e \in inbox : e.page # Gone /\ (g = Community \/ e.page # Community)}

\* Its other statements: the row with what hangs on it, and the inbox.
DeleteRows(p) ==
    LET g == req[p].page
        gone == IF g = Community THEN live ELSE {g}
        rows == {i \in Rows(posts) : posts[i].page \in gone}
    IN
    /\ At(p, "rows")
    /\ live' = live \ gone
    /\ squad' = IF Subgroup \subseteq gone THEN [u \in User |-> "none"] ELSE squad
    /\ crew' = IF g = Community THEN [u \in User |-> "none"] ELSE crew
    /\ posts' = Without(posts, rows)
    /\ comments' = Without(comments, Under(rows))
    /\ reports' = Closed(req[p].closes)
    /\ inbox' = inbox \ Pointing(g)
    /\ req' = [req EXCEPT ![p].step = "notice", ![p].closes = {}]
    /\ UNCHANGED <<born, suspended, ops>>

\* After the commit and the files.
TellMembers(p) ==
    /\ At(p, "notice")
    /\ inbox' = inbox \cup {Notice(u, req[p].page) : u \in req[p].told}
    /\ Ends(p)
    /\ UNCHANGED <<pages, feed, reports, ops>>

-----------------------------------------------------------------------------
\* What Communities and Subgroups do meanwhile, and a stop of the server.
MembershipChanges(u) ==
    /\ "members" \in ops /\ Community \in live
    /\ \/ \E r \in {"none", "member", "admin"} \ {crew[u]} :
            /\ Admins \ {u} # {} \/ r = "admin"
            /\ crew' = [crew EXCEPT ![u] = r]
            /\ squad' = IF r = "none" THEN [squad EXCEPT ![u] = "none"] ELSE squad
       \/ \E r \in {"none", "member", "moderator"} \ {squad[u]} :
            /\ u \in Crew /\ Subgroup # {}
            /\ squad' = [squad EXCEPT ![u] = r] /\ UNCHANGED crew
    /\ UNCHANGED <<live, born, suspended, feed, reports, inbox, req, ops>>

\* A new subgroup takes the address of one that is gone.
CreateSubgroup(u) ==
    /\ "renew" \in ops /\ u \in Admins /\ Subgroup = {} /\ born < Pages /\ ~suspended
    /\ live' = live \cup {born + 1} /\ born' = born + 1
    /\ squad' = [squad EXCEPT ![u] = "moderator"]
    /\ UNCHANGED <<crew, suspended, feed, reports, inbox, req, ops>>

Suspension ==
    /\ "suspend" \in ops /\ Community \in live
    /\ suspended' = ~suspended
    /\ UNCHANGED <<live, born, crew, squad, feed, reports, inbox, req, ops>>

Next ==
    \/ \E p \in Proc :
        \/ At(p, "idle") /\ \E u \in User :
            \/ \E g \in Page : BeginCreate(p, u, g)
            \/ \E i \in DOMAIN posts : BeginAddComment(p, u, i) \/ BeginRemove(p, u, i)
            \/ \E c \in DOMAIN comments : BeginRemoveComment(p, u, c)
            \/ \E t \in Target : BeginReport(p, u, t)
        \/ At(p, "idle") /\ \E u \in User \cup {Site} :
            BeginDelete(p, u) \/ \E g \in Page : BeginDrop(p, u, g)
        \/ Create(p) \/ AddComment(p) \/ Commenters(p) \/ ReadAudience(p) \/ InsertEntries(p)
        \/ Remove(p) \/ RemoveComment(p) \/ FileReport(p)
        \/ CloseReports(p) \/ DeleteRows(p) \/ TellMembers(p)
    \/ \E r \in DOMAIN reports : Resolve(r)
    \/ \E u \in User : MembershipChanges(u) \/ CreateSubgroup(u)
    \/ Suspension

Spec == Init /\ [][Next]_vars

-----------------------------------------------------------------------------
\* Types and foreign keys.
TypeOK ==
    /\ live \subseteq Page /\ born \in Page /\ \A g \in live : g <= born
    /\ Community \notin live => live = {} /\ Crew = {}
    /\ crew \in [User -> {"none", "member", "admin"}]
    /\ squad \in [User -> {"none", "member", "moderator"}]
    /\ \A i \in Rows(posts) : posts[i].page \in live /\ posts[i].author \in User
    /\ \A c \in Rows(comments) : comments[c].post \in Rows(posts) /\ comments[c].author \in User
    /\ \A r \in DOMAIN reports : reports[r].by \in User /\ reports[r].target \in Target
    /\ inbox \subseteq [to: User, page: Page \cup {Gone}]

\* What every step keeps to ([][...]_vars).
\* community-cleanup.service.ts: whatever is reported while a page is deleted, a
\* report that was there when its reports were closed does not stay open about
\* something that went with it.  (One filed in between does.)
ReportsSettled ==
    \A p \in Proc, r \in Report :
         DeleteRows(p) /\ Open(r) /\ Exists(reports[r].target) /\ ~Exists(reports[r].target)'
             => ~Open(r)' \/ r > req[p].filed

\* "inbox entries that point at the deleted page" go with it, so an entry comes to
\* point nowhere only when it is written after; and the notice "written after the
\* delete so the clean-up of notifications that point at the page does not remove
\* it" stays, also when the community goes after its subgroup.
Dangling == {e \in inbox : e.page # Gone /\ e.page \notin live}
LinksLeadSomewhere ==
    /\ \A e \in Dangling' \ Dangling : \E p \in Proc : InsertEntries(p) /\ e.page = req[p].page
    /\ \A e \in inbox : e.page = Gone => e \in inbox'

\* Nobody loses the entries of a page that exists: not so when a deletion that found
\* its page already deleted clears the address a new subgroup has taken.
EntriesStay ==
    \A e \in inbox : e.page \in live' => e \in inbox'
=============================================================================
