-------------------------------- MODULE Files --------------------------------
(***************************************************************************)
(* What lies on disk beside the database: the pictures of an event, a race *)
(* series, a news post or a community (uploads), and the GPX files of a    *)
(* route (routes).                                                         *)
(*                                                                         *)
(* A picture has a place of its own for each of its variants; an upload    *)
(* writes them at once, in place of the ones before, and only then saves   *)
(* the row it had read, with an address that is new (`?v=`).  A variant    *)
(* whose writing was cut is neither the picture before nor the new one.    *)
(* Browsers keep what they fetched from an address.  A GPX file is written *)
(* under a name of its own before its row is, and its row is deleted       *)
(* before it is.                                                           *)
(* Nothing ties the two together: requests overlap, and the server may     *)
(* stop between any two steps of one.                                      *)
(***************************************************************************)
EXTENDS Integers, FiniteSets, Sequences

CONSTANTS
    Picture,     \* pictures that are uploaded
    Variant,     \* the files of a picture, VARIANTS or LOGO_VARIANTS
    Canonical,   \* the one a page shows
    Proc,        \* requests under way at once
    None,        \* no row, address, directory or file
    MaxRequests, \* how many requests there are
    MaxFiles,    \* MAX_FILES_PER_ROUTE
    CacheSize,   \* TRACK_CACHE_SIZE
    Subjects     \* "picture", "track": what the requests are about

VARIABLES
    row,         \* the row the picture belongs to, None when it is deleted
    dir,         \* the directory of the picture: what each variant shows, or the
                 \* requests that wrote into it and did not end
    clock,       \* the last `?v=` handed out
    meant,       \* the picture for which each address was made: history
    kept,        \* what browsers fetched from which address
    route,       \* does the route exist
    files,       \* its rows of route_files
    gpx,         \* the GPX files on disk
    lastId,      \* the last file id handed out
    cache,       \* trackCache, the one used longest ago first
    req,         \* what each request is doing
    requests,    \* how many there were
    subject,
    past         \* what has happened to the picture since an upload that nothing
                 \* overlapped: history

pictures == <<row, dir, clock, meant, kept>>
tracks == <<route, files, gpx, lastId, cache>>
vars == <<pictures, tracks, req, requests, subject, past>>

Idle == [at |-> "idle"]
At(p, at) == req[p].at = at
Ends(p) == req' = [req EXCEPT ![p] = Idle] /\ UNCHANGED <<requests, subject, past>>
Goes(p, r) == req' = [req EXCEPT ![p] = r] /\ UNCHANGED <<requests, subject, past>>
Removes(r) == r.at \in {"clear", "cleared", "drop", "dropped"}
Starts(p, about, r) ==
    /\ subject = about /\ At(p, "idle") /\ requests < MaxRequests
    /\ requests' = requests + 1 /\ req' = [req EXCEPT ![p] = r]
    /\ past' = past \cup (IF \E q \in Proc : ~At(q, "idle") THEN {"overlap"} ELSE {})
                    \cup (IF (\E q \in Proc : Removes(req[q])) \/ (Removes(r) /\ \E q \in Proc : ~At(q, "idle"))
                          THEN {"race"} ELSE {})
    /\ UNCHANGED subject

-----------------------------------------------------------------------------
(* Pictures. *)
Nothing == [v \in Variant |-> None]

\* writeImage, setImage: the row is read, the directory made.
BeginSetImage(p, pic) ==
    /\ row # None
    /\ Starts(p, "picture", [at |-> "write", row |-> row, pic |-> pic, left |-> Variant, open |-> {}, failed |-> FALSE,
                             number |-> IF \A q \in Proc : At(q, "idle") THEN requests + 1 ELSE 0])
    /\ dir' = IF dir = None THEN Nothing ELSE dir
    /\ UNCHANGED <<row, clock, meant, kept, tracks>>
Writing(p, v) == At(p, "write") /\ v \in req[p].open
\* It began when nothing else was under way, and nothing has begun since.
Undisturbed(p) == req[p].number = requests

WroteInto(q, v) == \E some \in SUBSET Proc : q \in some /\ dir[v] = some
\* toFile empties the variant that is there.  What requests write into one file at a time
\* mixes.
OpenVariant(p, v) ==
    /\ At(p, "write") /\ v \in req[p].left /\ dir # None
    /\ dir' = [dir EXCEPT ![v] = {p} \cup {q \in Proc : Writing(q, v) /\ WroteInto(q, v)}]
    /\ req' = [req EXCEPT ![p].left = @ \ {v}, ![p].open = @ \cup {v}]
    /\ past' = past \cup (IF \E q \in Proc : Writing(q, v) THEN {"torn"} ELSE {})
    /\ UNCHANGED <<row, clock, meant, kept, tracks, requests, subject>>
\* A file that was removed meanwhile is written nowhere.
WriteVariant(p, v) ==
    /\ Writing(p, v)
    /\ dir' = IF dir # None /\ dir[v] = {p} THEN [dir EXCEPT ![v] = req[p].pic] ELSE dir
    /\ Goes(p, [req[p] EXCEPT !.open = @ \ {v}])
    /\ UNCHANGED <<row, clock, meant, kept, tracks>>
\* A picture that cannot be read, a full disk, or a directory that is gone: what was
\* written stays.  Promise.all answers then, and the other variants are written on.
VariantFails(p, v) ==
    /\ At(p, "write") /\ v \in req[p].left \cup req[p].open
    /\ req' = [req EXCEPT ![p].left = @ \ {v}, ![p].open = @ \ {v}, ![p].failed = TRUE]
    /\ past' = past \cup {"failure"} \cup (IF Writing(p, v) THEN {"torn"} ELSE {})
    /\ UNCHANGED <<pictures, tracks, requests, subject>>

\* Fault: the address is given out with the first variant.
Written_First(r) == r.left # Variant /\ ~r.failed
\* Promise.all: every variant is written.
Written(r) == r.left \cup r.open = {} /\ ~r.failed

SaveUrl(p) ==
    /\ At(p, "write") /\ Written(req[p])
    /\ clock' = clock + 1 /\ meant' = Append(meant, req[p].pic)
    /\ row' = [req[p].row EXCEPT !.url = clock']
    /\ req' = [req EXCEPT ![p] = Idle] /\ past' = IF Undisturbed(p) THEN {} ELSE past
    /\ UNCHANGED <<dir, kept, tracks, requests, subject>>
\* "Unable to process image": no write is left.
UploadFails(p) ==
    /\ At(p, "write") /\ req[p].left \cup req[p].open = {} /\ req[p].failed
    /\ Ends(p)
    /\ UNCHANGED <<pictures, tracks>>

\* removeImage.
BeginRemoveImage(p) ==
    /\ row # None /\ Starts(p, "picture", [at |-> "clear", row |-> row, then |-> "url"])
    /\ UNCHANGED <<pictures, tracks>>
\* remove: the files first, then the row.
BeginRemove(p) ==
    /\ row # None /\ Starts(p, "picture", [at |-> "clear", row |-> row, then |-> "row"])
    /\ UNCHANGED <<pictures, tracks>>
\* rm takes the files one by one; its failure is only logged.
RemoveVariant(p, v) ==
    /\ req[p].at \in {"clear", "dropped"} /\ dir # None /\ dir[v] # None
    /\ dir' = [dir EXCEPT ![v] = None]
    /\ UNCHANGED <<row, clock, meant, kept, tracks, req, requests, subject, past>>
RemoveDir(p) ==
    /\ At(p, "clear") /\ dir' \in {None, dir}
    /\ Goes(p, [req[p] EXCEPT !.at = "cleared"])
    /\ UNCHANGED <<row, clock, meant, kept, tracks>>
SaveCleared(p) ==
    /\ At(p, "cleared")
    /\ row' = IF req[p].then = "row" THEN None ELSE [req[p].row EXCEPT !.url = None]
    /\ Ends(p)
    /\ UNCHANGED <<dir, clock, meant, kept, tracks>>

\* stopSeries: the row first, then the files.
BeginStop(p) ==
    /\ row # None /\ Starts(p, "picture", [at |-> "drop"])
    /\ UNCHANGED <<pictures, tracks>>
DropRow(p) ==
    /\ At(p, "drop") /\ row' = None /\ Goes(p, [at |-> "dropped"])
    /\ UNCHANGED <<dir, clock, meant, kept, tracks>>
DropFiles(p) ==
    /\ At(p, "dropped") /\ dir' \in {None, dir} /\ Ends(p)
    /\ UNCHANGED <<row, clock, meant, kept, tracks>>

\* update: the row it read is saved with other words.
BeginUpdate(p) ==
    /\ row # None /\ row.text = "old" /\ Starts(p, "picture", [at |-> "edit", row |-> row])
    /\ UNCHANGED <<pictures, tracks>>
Update(p) ==
    /\ At(p, "edit") /\ row' = [req[p].row EXCEPT !.text = "new"] /\ Ends(p)
    /\ UNCHANGED <<dir, clock, meant, kept, tracks>>

\* A browser fetches what some page shows, and keeps it: "immutable".  The address says
\* nothing of which picture it is.
Serve(url) ==
    /\ dir # None /\ dir[Canonical] # None
    /\ kept' = kept \cup {<<url, dir[Canonical]>>}
    /\ UNCHANGED <<row, dir, clock, meant, tracks, req, requests, subject, past>>

-----------------------------------------------------------------------------
(* GPX files. *)
OrderAfter(known) == IF known = {} THEN 0 ELSE 1 + (CHOOSE n \in {f.order : f \in known} : \A f \in known : f.order <= n)

BeginAddFile(p) ==
    /\ route /\ Cardinality(files) < MaxFiles
    /\ Starts(p, "track", [at |-> "file", id |-> lastId + 1, order |-> OrderAfter(files)])
    /\ lastId' = lastId + 1
    /\ UNCHANGED <<pictures, route, files, gpx, cache>>
WriteFile(p) ==
    /\ At(p, "file") /\ gpx' = gpx \cup {req[p].id} /\ Goes(p, [at |-> "row", id |-> req[p].id, order |-> req[p].order])
    /\ UNCHANGED <<pictures, route, files, lastId, cache>>

\* Fault: a row without a route.
RouteThere_Unchecked == TRUE
\* The foreign key of route_files.
RouteThere == route

SaveFile(p) ==
    /\ At(p, "row")
    /\ files' = IF RouteThere THEN files \cup {[id |-> req[p].id, order |-> req[p].order]} ELSE files
    /\ Ends(p)
    /\ UNCHANGED <<pictures, route, gpx, lastId, cache>>

BeginRemoveFile(p, f) ==
    /\ f \in files /\ Starts(p, "track", [at |-> "unlist", id |-> f.id])
    /\ UNCHANGED <<pictures, tracks>>
DeleteRow(p) ==
    /\ At(p, "unlist") /\ files' = {f \in files : f.id # req[p].id} /\ Goes(p, [at |-> "rm", id |-> req[p].id])
    /\ UNCHANGED <<pictures, route, gpx, lastId, cache>>
RemoveFile(p) ==
    /\ At(p, "rm") /\ gpx' = gpx \ {req[p].id} /\ Ends(p)
    /\ UNCHANGED <<pictures, route, files, lastId, cache>>

BeginRemoveRoute(p) ==
    /\ route /\ Starts(p, "track", [at |-> "delete"])
    /\ UNCHANGED <<pictures, tracks>>
\* The rows of its files go with the route.
DeleteRoute(p) ==
    /\ At(p, "delete") /\ route' = FALSE /\ files' = {} /\ Goes(p, [at |-> "rmdir"])
    /\ UNCHANGED <<pictures, gpx, lastId, cache>>
RemoveRouteDir(p) ==
    /\ At(p, "rmdir") /\ gpx' = {} /\ Ends(p)
    /\ UNCHANGED <<pictures, route, files, lastId, cache>>

Without(c, id) == SelectSeq(c, LAMBDA x : x # id)
Cached(id) == \E i \in DOMAIN cache : cache[i] = id
\* A cached track is the newest again.
BeginOpenTrack(p, f) ==
    /\ f \in files
    /\ IF Cached(f.id)
       THEN /\ Starts(p, "track", Idle)
            /\ cache' = Append(Without(cache, f.id), f.id)
       ELSE Starts(p, "track", [at |-> "read", id |-> f.id]) /\ UNCHANGED cache
    /\ UNCHANGED <<pictures, route, files, gpx, lastId>>

\* Fault: one too many.
Full_Late(c) == Len(c) > CacheSize + 1
Full(c) == Len(c) > CacheSize
\* Map.set: a track that is already there keeps its place.
Kept(id) == IF Cached(id) THEN cache ELSE Append(cache, id)
ReadTrack(p) ==
    /\ At(p, "read")
    /\ cache' = IF req[p].id \notin gpx THEN cache
                ELSE IF Full(Kept(req[p].id)) THEN Tail(Kept(req[p].id)) ELSE Kept(req[p].id)
    /\ Ends(p)
    /\ UNCHANGED <<pictures, route, files, gpx, lastId>>

-----------------------------------------------------------------------------
\* The server stops, or the database answers a request with an error.
Stop(p) ==
    /\ ~At(p, "idle") /\ req' = [req EXCEPT ![p] = Idle]
    /\ past' = past \cup {"stop"} \cup (IF req[p].at \in {"clear", "cleared"} THEN {"cut"} ELSE {})
                    \cup (IF \E v \in Variant : Writing(p, v) THEN {"torn"} ELSE {})
    /\ UNCHANGED <<pictures, tracks, requests, subject>>

Init ==
    /\ row = [text |-> "old", url |-> None] /\ dir = None /\ clock = 0 /\ meant = <<>> /\ kept = {}
    /\ route = TRUE /\ files = {} /\ gpx = {} /\ lastId = 0 /\ cache = <<>>
    /\ req = [p \in Proc |-> Idle] /\ requests = 0 /\ subject \in Subjects /\ past = {}

SetImage(p) ==
    \/ \E pic \in Picture : BeginSetImage(p, pic)
    \/ \E v \in Variant : OpenVariant(p, v) \/ WriteVariant(p, v) \/ VariantFails(p, v)
    \/ SaveUrl(p) \/ UploadFails(p)
RemoveImage(p) ==
    \/ BeginRemoveImage(p) \/ BeginRemove(p) \/ RemoveDir(p) \/ SaveCleared(p)
    \/ \E v \in Variant : RemoveVariant(p, v)
StopSeries(p) == BeginStop(p) \/ DropRow(p) \/ DropFiles(p)
Route(p) ==
    \/ BeginAddFile(p) \/ WriteFile(p) \/ SaveFile(p)
    \/ \E f \in files : BeginRemoveFile(p, f) \/ BeginOpenTrack(p, f)
    \/ DeleteRow(p) \/ RemoveFile(p) \/ BeginRemoveRoute(p) \/ DeleteRoute(p) \/ RemoveRouteDir(p) \/ ReadTrack(p)

Next ==
    \/ \E p \in Proc : SetImage(p) \/ RemoveImage(p) \/ StopSeries(p) \/ BeginUpdate(p) \/ Update(p) \/ Route(p) \/ Stop(p)
    \/ \E url \in 1 .. clock : Serve(url)

Spec == Init /\ [][Next]_vars

-----------------------------------------------------------------------------
Whole(v) == dir # None /\ dir[v] \in Picture
Quiet == \A p \in Proc : At(p, "idle")

\* A row shows no address behind which a variant is missing or cut off, but for one that an
\* upload is writing at that moment, whatever uploads and edits overlap or fail: only a
\* removal can do that, which is under way, overlapped with something or did not get to its
\* end, or the writing of a variant that failed or was stopped midway, or of one variant by
\* two uploads at a time; and an upload that nothing overlapped mends all of it.  When
\* nothing overlapped or failed since one, every variant is the picture for which the
\* address was made, and so is what browsers keep of it.
RowsShowPictures ==
    row # None /\ row.url # None =>
        /\ {"race", "cut", "torn"} \cap past = {} /\ (\A p \in Proc : ~Removes(req[p])) =>
             \A v \in Variant : Whole(v) \/ \E p \in Proc : Writing(p, v)
        /\ past = {} /\ Quiet =>
             /\ \A v \in Variant : Whole(v) /\ dir[v] = meant[row.url]
             /\ \A k \in kept : k[1] = row.url => k[2] = meant[row.url]

\* Every row of a GPX file has its file, whatever overlaps and wherever the server stops;
\* and requests at once put no more files on a route than their number exceeds it by.
RowsHaveTheirFile ==
    /\ \A f \in files : f.id \in gpx
    /\ Cardinality(files) <= MaxFiles + Cardinality(Proc) - 1

\* The cache of tracks stays small, and holds a track once.
CacheIsSmall == Len(cache) <= CacheSize /\ \A i, j \in DOMAIN cache : cache[i] = cache[j] => i = j

\* A route has at most MaxFiles files, each with a place of its own.
FilesWithinLimit == Cardinality(files) <= MaxFiles
OnePlaceEach == \A f, g \in files : f.order = g.order => f = g
\* No file is left without a row.
NoLeftovers == Quiet => gpx = {f.id : f \in files}
\* What a browser keeps of an address is what the address was made for.
Immutable == \A k \in kept : k[2] = meant[k[1]]
\* What is deleted stays deleted.
RemovedStays == [][row = None => row' = None]_row
==============================================================================
