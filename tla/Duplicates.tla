----------------------------- MODULE Duplicates -----------------------------
(***************************************************************************)
(* The admins' list of duplicate events (events/event-duplicates.service): *)
(* a scan joins the matching events of a day into groups, its result is    *)
(* kept for a minute, and admins dismiss events that are not duplicates.   *)
(* Which events match, by names, places and classes (event-matching.ts),   *)
(* is any symmetric relation.                                              *)
(***************************************************************************)
EXTENDS Naturals, FiniteSets

CONSTANTS
    Events,   \* how many events; they are numbered as the scan loads them
    Proc,     \* requests under way at a time
    None      \* nothing cached

VARIABLES
    day,      \* the day of each event
    match,    \* the pairs that match
    ignored,  \* event_duplicate_ignores
    cache,    \* the groups kept, with the dismissed pairs their scan had read
    shown,    \* what the last answer was made from
    req

vars == <<day, match, ignored, cache, shown, req>>

Event == 1 .. Events
Pair == {p \in Event \X Event : p[1] < p[2]}
Idle == [step |-> "idle", read |-> {}, left |-> {}]

-----------------------------------------------------------------------------
\* The order in which the two loops come to the pairs.
Before(p, q) == p[1] < q[1] \/ (p[1] = q[1] /\ p[2] < q[2])
Nth(S) == CHOOSE p \in S : \A q \in S : p = q \/ Before(p, q)

Joins(p, dismissed) == p \in match \ dismissed /\ day[p[1]] = day[p[2]]

\* find, for every event: the root of its chain of parents.
Root(parent) ==
    LET up[n \in 0 .. Events] ==      \* n steps up
            [x \in Event |-> IF n = 0 \/ parent[x] = x THEN x ELSE up[n - 1][parent[x]]]
    IN up[Events]

\* Fault: the event itself is joined, not its group.
Joined_Event(parent, p) == [parent EXCEPT ![p[1]] = Root(parent)[p[2]]]

\* find shortens the paths of both, then one root hangs on the other.
Joined(parent, p) ==
    LET root == Root(parent) IN
    [[parent EXCEPT ![p[1]] = root[p[1]], ![p[2]] = root[p[2]]] EXCEPT ![root[p[1]]] = root[p[2]]]

\* The union-find: one pair after the other, each joined to what the ones before it left.
Last(done) == CHOOSE p \in done : \A q \in done : p = q \/ Before(q, p)

Parents(pairs) ==
    LET after[done \in SUBSET pairs] ==
            IF done = {} THEN [x \in Event |-> x]
            ELSE Joined(after[done \ {Last(done)}], Last(done))
    IN after[pairs]

\* The groups of two or more that it leaves of the events in some pair.
Groups(dismissed) ==
    LET pairs == {p \in Pair : Joins(p, dismissed)}
        root == Root(Parents(pairs))
        GroupOf(r) == {x \in UNION {{p[1], p[2]} : p \in pairs} : root[x] = r}
    IN {g \in {GroupOf(r) : r \in Event} : Cardinality(g) > 1}

-----------------------------------------------------------------------------
Starts(p, r) == req[p] = Idle /\ req' = [req EXCEPT ![p] = r]
Ends(p) == req' = [req EXCEPT ![p] = Idle]

Init ==
    /\ day \in [Event -> {1, 2}] /\ day[1] = 1
    /\ match \in SUBSET Pair
    /\ ignored = {} /\ cache = None /\ shown = None
    /\ req = [p \in Proc |-> Idle]

\* findGroups answers from the cache, or scans.
FromCache(p) ==
    /\ req[p] = Idle /\ cache # None
    /\ shown' = cache
    /\ UNCHANGED <<day, match, ignored, cache, req>>

BeginScan(p) ==
    /\ cache = None
    /\ Starts(p, [Idle EXCEPT !.step = "scan"])
    /\ UNCHANGED <<day, match, ignored, cache, shown>>

LoadIgnored(p) ==
    /\ req[p].step = "scan"
    /\ req' = [req EXCEPT ![p] = [step |-> "keep", read |-> ignored, left |-> {}]]
    /\ UNCHANGED <<day, match, ignored, cache, shown>>

Keep(p) ==
    /\ req[p].step = "keep"
    /\ cache' = [groups |-> Groups(req[p].read), read |-> req[p].read]
    /\ shown' = cache'
    /\ Ends(p)
    /\ UNCHANGED <<day, match, ignored>>

\* The minute is over.
Expire ==
    /\ cache # None /\ cache' = None
    /\ UNCHANGED <<day, match, ignored, shown, req>>

\* ignore: the cache goes, then every pair is written, one by one.
BeginIgnore(p, S) ==
    /\ Starts(p, [Idle EXCEPT !.step = "ignore", !.left = {q \in Pair : q[1] \in S /\ q[2] \in S}])
    /\ cache' = None
    /\ UNCHANGED <<day, match, ignored, shown>>

Ignore(p) ==
    /\ req[p].step = "ignore"
    /\ LET pair == Nth(req[p].left) IN
       /\ ignored' = ignored \cup {pair}
       /\ IF req[p].left = {pair} THEN Ends(p)
          ELSE req' = [req EXCEPT ![p].left = @ \ {pair}]
    /\ UNCHANGED <<day, match, cache, shown>>

Next ==
    \/ \E p \in Proc :
        \/ FromCache(p) \/ BeginScan(p) \/ LoadIgnored(p) \/ Keep(p) \/ Ignore(p)
        \/ \E S \in SUBSET Event : Cardinality(S) >= 2 /\ BeginIgnore(p, S)
    \/ Expire

Spec == Init /\ [][Next]_vars

-----------------------------------------------------------------------------
\* Groups that no joining pair leaves and that cannot be split: the components.
Closed(g, dismissed) ==
    \A p \in Pair : Joins(p, dismissed) => (p[1] \in g <=> p[2] \in g)
Component(g, dismissed) ==
    Closed(g, dismissed) /\ \A h \in SUBSET g : h \notin {{}, g} => ~Closed(h, dismissed)

\* Whatever order the union-find meets the pairs in, the groups are the components of
\* the matching pairs of one day that were not dismissed.
GroupsAreComponents ==
    cache # None =>
        cache.groups = {g \in SUBSET Event : Cardinality(g) > 1 /\ Component(g, cache.read)}

\* A dismissal is known to what is scanned or answered after it.  It is not always:
\* the cache is cleared before the pairs are written, so a scan in between, or one
\* that was under way, keeps groups with the dismissed pairs for a minute.
AnswersKnowDismissals ==
    cache # None /\ (\A p \in Proc : req[p] = Idle) => cache.read = ignored
=============================================================================
