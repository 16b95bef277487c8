------------------------------ MODULE MCHosting ------------------------------
(***************************************************************************)
(* The instances of Hosting, the form of an event (EventForm) and the      *)
(* files that lie beside the database (Files).  A behaviour is one of the  *)
(* three: the form is a browser's, with a server of its own for one event, *)
(* and the files are one picture's or one route's; the variables of the    *)
(* others rest.  Requests are interchangeable, and so are pictures and     *)
(* people, who own one route each.                                         *)
(***************************************************************************)
EXTENDS Hosting, TLC

CONSTANTS Zones, Locales, MaxActs, MaxMoves, Picture, Variant, Canonical, MaxRequests, MaxFiles, CacheSize, Subjects

ASSUME FormAssumption == Zones \subseteq Int /\ None \notin Int
ASSUME FilesAssumption == IsFiniteSet(Proc) /\ Proc # {} /\ MaxFiles \in Nat /\ Canonical \in Variant

VARIABLES part, zone, locale, ev, created, form, touched, stage, parts, stray, acts, moves, base, asked, clean
VARIABLES row, dir, clock, meant, kept, route, files, gpx, lastId, cache, job, requests, subject, past

disk == <<row, dir, clock, meant, kept, route, files, gpx, lastId, cache, job, requests, subject, past>>
paper == <<zone, locale, ev, created, form, touched, stage, parts, stray, acts, moves, base, asked, clean>>
all == <<part, vars, paper, disk>>

F == INSTANCE EventForm
D == INSTANCE Files WITH req <- job

\* None is neither a picture, nor a file that was not written to its end, nor a directory.
ASSUME PicturesAssumption ==
    /\ None \notin Picture /\ \A some \in SUBSET Proc : some \notin Picture \cup {None}
    /\ None \notin [Variant -> Picture \cup {None} \cup SUBSET Proc]

Symmetric == Permutations(User) \cup Permutations(Proc) \cup Permutations(Picture)

Admin == <<"admin", "none">>
Moderator == <<"member", "moderator">>
Rider == <<"member", "member">>

\* A series of two, edited and stopped; a shared event; answers and comments in an
\* open and in a closed club; who sees what while people come and go; and routes.
Series == [ops |-> {"create", "series", "update"}, roles |-> {Admin}, hosts |-> {"community"},
           events |-> 2, edits |-> {"day"}, closed |-> FALSE]
Sharing == [ops |-> {"create", "share", "update", "remove"}, roles |-> {Admin, Moderator},
            hosts |-> {"open"}, events |-> 1, edits |-> {"listing", "meetup"}, closed |-> FALSE]
Answers == [ops |-> {"create", "share", "rsvp"}, roles |-> {Admin, Rider},
            hosts |-> {"open", "subgroup"}, events |-> 1, edits |-> {}, closed |-> TRUE]
Comments == [ops |-> {"create", "comment"}, roles |-> {Admin, Rider},
             hosts |-> {"community", "subgroup"}, events |-> 1, edits |-> {}, closed |-> FALSE]
Views == [ops |-> {"create", "rsvp", "member", "suspend"}, roles |-> {<<"none", "none">>, <<"member", "none">>, Rider, Admin},
          hosts |-> Host, events |-> 1, edits |-> {}, closed |-> TRUE]
Routes == [ops |-> {"create", "groups", "update", "remove"}, roles |-> {Admin}, hosts |-> {"community"},
           events |-> 1, edits |-> {"route"}, closed |-> FALSE]

HostingMixes == {Series, Sharing, Answers, Comments, Views, Routes}

\* Browsers west of Germany, in it and east of it.
AllZones == {-1, 0, 1}

-----------------------------------------------------------------------------
\* An empty calendar, as before the first request.
HostingRests ==
    /\ crew = [u \in User |-> "admin"] /\ sub = [u \in User |-> "none"] /\ suspended = FALSE
    /\ events = [e \in {} |-> NoRow] /\ shares = [s \in {} |-> NoShare] /\ made = 0 /\ passed = 0
    /\ groups = {} /\ rsvps = {} /\ comments = {} /\ brought = [e \in Event |-> {}]
    /\ saved = [p \in Proc |-> {}] /\ req = [p \in Proc |-> Idle] /\ mix = Series
FormRests ==
    /\ zone = None /\ locale = None /\ ev = None /\ created = None /\ form = None /\ touched = None
    /\ stage = None /\ parts = None /\ stray = None /\ acts = None /\ moves = None /\ base = None
    /\ asked = None /\ clean = None

FilesRest ==
    /\ row = None /\ dir = None /\ clock = None /\ meant = None /\ kept = None /\ route = None /\ files = None
    /\ gpx = None /\ lastId = None /\ cache = None /\ job = None /\ requests = None /\ subject = None /\ past = None

HostingInit == part = "hosting" /\ Init /\ FormRests /\ FilesRest
FormInit == part = "form" /\ F!Init /\ HostingRests /\ FilesRest
FilesInit == part = "files" /\ D!Init /\ HostingRests /\ FormRests

HostingStep == part = "hosting" /\ Next /\ UNCHANGED <<part, paper, disk>>
FormStep == part = "form" /\ F!Next /\ UNCHANGED <<part, vars, disk>>
FilesStep == part = "files" /\ D!Next /\ UNCHANGED <<part, vars, paper>>

HostSpec == (HostingInit \/ FormInit \/ FilesInit) /\ [][HostingStep \/ FormStep \/ FilesStep]_all
HostingAlone == HostingInit /\ [][HostingStep]_all
FormAlone == FormInit /\ [][FormStep]_all
FilesAlone == FilesInit /\ [][FilesStep]_all

-----------------------------------------------------------------------------
\* The properties of each part.
SavedAsEntered == part = "form" => F!SavedAsEntered
RowsShowPictures == part = "files" => D!RowsShowPictures
RowsHaveTheirFile == part = "files" => D!RowsHaveTheirFile
=============================================================================
