------------------------------ MODULE Articles ------------------------------
(***************************************************************************)
(* News and race series: posts.service.ts, series.service.ts and the       *)
(* series an import links its events to (import.service.ts).               *)
(*                                                                         *)
(* An address is looked for number by number before the row is written.    *)
(* An update reads the row, deletes the tags of a post at once, and then   *)
(* saves the whole row with the tags that were read or given: tags that    *)
(* somebody else added meanwhile would lose their post, which their column *)
(* forbids, so the save is refused.  The owner of a series and the admins  *)
(* may do all of it, so somebody always may.                               *)
(***************************************************************************)
EXTENDS Naturals, FiniteSets

CONSTANTS
    Name,         \* what titles and names with their year come to in an address
    Tag,          \* tags of posts
    Event,        \* events of series
    Proc,         \* concurrent requests
    None,         \* nothing
    MaxItems,     \* posts and series ever made
    Mixes         \* the operations of a behaviour, and how many requests it has: [ops, requests]

VARIABLES
    rows,     \* posts and series by id, each with its tags
    stages,   \* race_series_events: which event is in which series
    entered,  \* the sets of tags that came with a post or an edit of it: history
    req,      \* what each request is doing
    last,     \* the latest id
    begun,    \* requests so far
    mix       \* what is in play

vars == <<rows, stages, entered, req, last, begun, mix>>

Status == {"draft", "published", "archived"}

Idle == [at |-> "idle", crossed |-> FALSE]
At(p, s) == req[p].at = s
Ends(p) == [req EXCEPT ![p] = Idle]
Goes(p, r) == req' = [req EXCEPT ![p] = r]

\* p writes, and whoever else is on the way was crossed.
Crossed(p, r) == [q \in Proc |-> IF q = p THEN r ELSE [req[q] EXCEPT !.crossed = ~At(q, "idle")]]
Writes(p, new, r) == rows' = new /\ req' = IF new = rows THEN [req EXCEPT ![p] = r] ELSE Crossed(p, r)

Begin(p, op, r) ==
    /\ At(p, "idle") /\ op \in mix.ops /\ begun < mix.requests /\ begun' = begun + 1
    /\ Goes(p, r)
    /\ UNCHANGED <<rows, stages, entered, last, mix>>

Ids(kind) == {i \in DOMAIN rows : rows[i].kind = kind}
Tags(row) == {t[1] : t \in row.tags}
\* Rows of post_tags, new ones for every edit.
TagRows(tags) == tags \X {begun}

\* A request to save a row: under which id, None for a new one, and with tags given twice or not.
Request(at, id, row, twice, event) ==
    [at |-> at, id |-> id, row |-> row, twice |-> twice, event |-> event, crossed |-> FALSE]

Without(f, S) == [x \in DOMAIN f \ S |-> f[x]]
Put(f, x, y) == [z \in DOMAIN f \cup {x} |-> IF z = x THEN y ELSE f[z]]

-----------------------------------------------------------------------------
(* Addresses. *)

Taken(slug, kind, but) == \E i \in Ids(kind) \ {but} : rows[i].slug = slug

\* Fault: the series' own address counts as taken.
Excluded_None(r) == None
\* excludeId
Excluded(r) == r.id

\* generateUniqueSlug, generateSlug and freeSeriesSlug ask for one address at a time.
LookUp(p) ==
    /\ At(p, "lookup")
    /\ LET r == req[p] IN
       IF Taken(r.row.slug, r.row.kind, Excluded(r)) THEN Goes(p, [r EXCEPT !.row.slug = <<@[1], @[2] + 1>>])
       ELSE Goes(p, [r EXCEPT !.at = "save"])
    /\ UNCHANGED <<rows, stages, entered, last, begun, mix>>

-----------------------------------------------------------------------------
(* News. *)
NewPost(name, status, tags) ==
    [kind |-> "post", slug |-> <<name, 1>>, name |-> name, key |-> FALSE, status |-> status,
     dated |-> status = "published", tags |-> TagRows(tags)]

\* create
CreatePost(p, name, status, tags, twice) ==
    Begin(p, "post", Request("lookup", None, NewPost(name, status, tags), twice, None))

\* Fault: a post is dated when it is made, or not at all.
Dated_Once(row, status) == row.dated
\* publishedAt
Dated(row, status) == row.dated \/ (status = "published" /\ row.status # "published")

\* update, setImage and removeImage: all save what they read.
UpdatePost(p, id, status) ==
    Begin(p, "edit", Request("save", id, [rows[id] EXCEPT !.status = status, !.dated = Dated(rows[id], status)],
                             FALSE, None))
Retag(p, id, tags, twice) ==
    Begin(p, "tags", Request("clear", id, [rows[id] EXCEPT !.tags = TagRows(tags)], twice, None))
Clear(p) ==
    /\ At(p, "clear")
    /\ LET i == req[p].id IN
       Writes(p, IF i \in DOMAIN rows THEN [rows EXCEPT ![i].tags = {}] ELSE rows, [req[p] EXCEPT !.at = "save"])
    /\ UNCHANGED <<stages, entered, last, begun, mix>>

-----------------------------------------------------------------------------
(* Race series. *)
NewSeries(name, key) ==
    [kind |-> "series", slug |-> <<name, 1>>, name |-> name, key |-> key, status |-> None, dated |-> FALSE, tags |-> {}]

\* create
CreateSeries(p, name) == Begin(p, "series", Request("lookup", None, NewSeries(name, FALSE), FALSE, None))
\* update, setImage and removeImage; without a name or a year the address stays.
UpdateSeries(p, id, name) ==
    Begin(p, "rename",
          IF name = None THEN Request("save", id, rows[id], FALSE, None)
          ELSE Request("lookup", id, [rows[id] EXCEPT !.name = name, !.slug = <<name, 1>>], FALSE, None))

\* addEvent, updateEvent and removeEvent look for the entry first.
AddEvent(p, id, event) ==
    /\ <<id, event>> \notin stages /\ Begin(p, "stages", Request("add", id, rows[id], FALSE, event))
UpdateEvent(p, id, event) ==
    /\ <<id, event>> \in stages /\ Begin(p, "stages", Request("put", id, rows[id], FALSE, event))
RemoveEvent(p, id, event) ==
    /\ <<id, event>> \in stages /\ Begin(p, "stages", Request("drop", id, rows[id], FALSE, event))
\* Their saves: an entry needs its series, and a second one breaks the unique key; a save of
\* one that went brings it back.
SaveStage(p) ==
    /\ req[p].at \in {"add", "put", "drop"}
    /\ LET e == <<req[p].id, req[p].event>> IN
       stages' = IF At(p, "drop") THEN stages \ {e} ELSE IF req[p].id \in DOMAIN rows THEN stages \cup {e} ELSE stages
    /\ req' = Ends(p)
    /\ UNCHANGED <<rows, entered, last, begun, mix>>

-----------------------------------------------------------------------------
(* An import links an event to the series of its record, one record after the other. *)
Link(p, name, event) ==
    /\ \A q \in Proc : ~At(q, "idle") => req[q].event = None \/ ~req[q].row.key
    /\ Begin(p, "import", Request("find", None, NewSeries(name, TRUE), FALSE, event))
\* The series is found by its key, and takes the name of the record but keeps its address.
Find(p) ==
    /\ At(p, "find")
    /\ LET known == {i \in Ids("series") : rows[i].key} IN
       Goes(p, IF known = {} THEN [req[p] EXCEPT !.at = "lookup"]
               ELSE [req[p] EXCEPT !.at = "link", !.id = CHOOSE i \in known : TRUE])
    /\ UNCHANGED <<rows, stages, entered, last, begun, mix>>
\* The commit, unless the series went meanwhile.
Linked(p) ==
    /\ At(p, "link")
    /\ LET i == req[p].id  there == i \in DOMAIN rows IN
       /\ Writes(p, IF there THEN [rows EXCEPT ![i].name = req[p].row.name] ELSE rows, Idle)
       /\ stages' = IF there THEN stages \cup {<<i, req[p].event>>} ELSE stages
    /\ UNCHANGED <<entered, last, begun, mix>>

-----------------------------------------------------------------------------
(* Saves and removals. *)

\* What the database refuses: a second row at an address or for a key, a tag that comes
\* twice, and to part a tag from its post.
Refused(r) ==
    \/ Taken(r.row.slug, r.row.kind, r.id)
    \/ r.row.key /\ \E i \in Ids("series") \ {r.id} : rows[i].key
    \/ r.twice
    \/ r.id \in DOMAIN rows /\ ~(rows[r.id].tags \subseteq r.row.tags)

\* save; a row that went is inserted again, under its id.
Save(p) ==
    /\ At(p, "save")
    /\ LET r == req[p]  new == r.id = None  i == IF new THEN last + 1 ELSE r.id IN
       \/ /\ Refused(r) /\ req' = Ends(p) /\ UNCHANGED <<rows, stages, entered, last>>
       \/ /\ ~Refused(r) /\ (new => last < MaxItems)
          /\ Writes(p, Put(rows, i, r.row), Idle)
          /\ last' = IF new THEN i ELSE last
          /\ entered' = Put(entered, i, (IF new THEN {} ELSE entered[i]) \cup {Tags(r.row)})
          /\ stages' = IF r.event = None THEN stages ELSE stages \cup {<<i, r.event>>}
    /\ UNCHANGED <<begun, mix>>

\* remove reads the row, deletes its pictures and then the row, with its tags and entries.
BeginRemove(p, id) == Begin(p, "remove", Request("remove", id, rows[id], FALSE, None))
Remove(p) ==
    /\ At(p, "remove")
    /\ Writes(p, Without(rows, {req[p].id}), Idle)
    /\ stages' = {e \in stages : e[1] # req[p].id}
    /\ UNCHANGED <<entered, last, begun, mix>>

-----------------------------------------------------------------------------
Init ==
    /\ rows = [i \in {} |-> None] /\ stages = {} /\ entered = [i \in {} |-> {}]
    /\ req = [p \in Proc |-> Idle]
    /\ last = 0 /\ begun = 0 /\ mix \in Mixes

\* Posts have tags, and are published, where a behaviour edits that.
GivenStatus == IF "edit" \in mix.ops THEN Status ELSE {"draft"}
\* onSubmit of a post's form: its tags are split at commas, and one may come twice.
GivenTags == {g \in (IF "tags" \in mix.ops THEN SUBSET Tag ELSE {{}}) \X BOOLEAN : g[2] => g[1] # {}}
\* onSubmit of a series' form gives the name with every edit; what saves a picture gives none.
GivenNames == Name \cup {None}

NewsBegin(p) ==
    \/ \E name \in Name, status \in GivenStatus, given \in GivenTags : CreatePost(p, name, status, given[1], given[2])
    \/ \E id \in Ids("post") :
         \/ \E status \in Status : UpdatePost(p, id, status)
         \/ \E given \in GivenTags : Retag(p, id, given[1], given[2])
SeriesBegin(p) ==
    \/ \E name \in Name : CreateSeries(p, name)
    \/ \E name \in Name, event \in Event : Link(p, name, event)
    \/ \E id \in Ids("series") :
         \/ \E name \in GivenNames : UpdateSeries(p, id, name)
         \/ \E event \in Event : AddEvent(p, id, event) \/ UpdateEvent(p, id, event) \/ RemoveEvent(p, id, event)

Next ==
    \E p \in Proc :
        \/ NewsBegin(p) \/ SeriesBegin(p) \/ \E id \in DOMAIN rows : BeginRemove(p, id)
        \/ LookUp(p) \/ Clear(p) \/ Find(p) \/ Linked(p) \/ SaveStage(p) \/ Save(p) \/ Remove(p)

Spec == Init /\ [][Next]_vars

-----------------------------------------------------------------------------
\* A request that nobody crossed gets the first address that is free, its own included, and
\* is refused only for a tag that comes twice (generateUniqueSlug, generateSlug).
FirstFreeAddress ==
    \A p \in Proc : At(p, "save") /\ ~req[p].crossed =>
        LET r == req[p] IN
        /\ Refused(r) => r.twice
        /\ r.row.slug[1] = r.row.name /\ (r.id = None \/ rows[r.id].slug # r.row.slug) =>
             \A n \in 1 .. r.row.slug[2] - 1 : Taken(<<r.row.slug[1], n>>, r.row.kind, r.id)

\* The tags of a post were entered together, whatever edits crossed, or there are none.
TagsOfOneEdit == \A i \in DOMAIN rows : Tags(rows[i]) \in entered[i] \cup {{}}

\* What is published has a date.
PublishedHaveDates == \A i \in Ids("post") : rows[i].status = "published" => rows[i].dated

NewsAndSeriesStand == FirstFreeAddress /\ TagsOfOneEdit /\ PublishedHaveDates

(* Statements about the code that fail. *)
\* An edit that is refused leaves the post its tags.
TagsSurvive ==
    \A p \in Proc : At(p, "save") /\ ~req[p].crossed /\ req[p].id \in DOMAIN rows =>
        (Refused(req[p]) => Tags(rows[req[p].id]) # {})
\* What was removed stays removed.
RemovedStays ==
    [][/\ \A i \in 1 .. last : i \notin DOMAIN rows => i \notin DOMAIN rows'
       /\ \A e \in stages' \ stages : \E p \in Proc : req[p].at \in {"add", "link", "save"} /\ req'[p] # req[p]]_vars
\* The address of a series whose name stays is not changed by an edit.
AddressStays ==
    [][\A i \in DOMAIN rows \cap DOMAIN rows' : rows[i].name = rows'[i].name => rows'[i].slug = rows[i].slug]_vars
==============================================================================
