------------------------------ MODULE Details ------------------------------
(***************************************************************************)
(* The pages of one thing: a community, a subgroup, a poll, a post or an   *)
(* event, and the comments on an event, a component with a list of its     *)
(* own (community-detail and its like in the client).                      *)
(*                                                                         *)
(* A page keeps copies of answers, and changes them by the answers to what *)
(* the viewer does: a whole new copy, a field, a comment more or less.     *)
(* Each kind of act has a flag of its own.  Pages that need no account are *)
(* loaded for nobody while the session is not restored; that of an event   *)
(* is then loaded again.  Other people change things at any time.          *)
(***************************************************************************)
EXTENDS Naturals, FiniteSets, SequencesExt

CONSTANTS
    None,        \* no answer, no vote, no argument
    Screens,     \* the pages: "community", "subgroup", "poll", "post", "event", "comments"
    MaxActs,     \* how often the viewer does something
    MaxMoves     \* how often somebody else changes something

VARIABLES
    screen,
    db,          \* what the server holds
    viewer,      \* "waiting" until the session is restored, then "nobody" or "me"
    page,        \* the signals of the component
    net,         \* the requests under way, served or not
    acts, moves,
    spoiled      \* which parts of the page may not be the server's: history

vars == <<screen, db, viewer, page, net, acts, moves, spoiled>>

Option == {"a", "b"}
Joinable == {"community", "subgroup"}
WithNotes == {"post", "comments"}
Who == IF viewer = "me" THEN "me" ELSE "nobody"

-----------------------------------------------------------------------------
(* The server. *)
Served(d, who) == ~d.gone /\ (~d.secret \/ (who = "me" /\ d.mine = "member"))

\* What an answer says of the thing, and of the viewer.
View(d, who) ==
    CASE screen \in Joinable -> [mine |-> IF who = "me" THEN d.mine ELSE "none"]
      [] screen = "poll"     -> [opts |-> d.opts, own |-> IF who = "me" THEN d.own ELSE None,
                                 canVote |-> who = "me" /\ d.mine = "member" /\ ~d.closed]
      [] screen = "post"     -> [count |-> Len(d.notes)]
      [] screen = "comments" -> [of |-> "event"]
      [] screen = "event"    -> [mine |-> IF who = "me" THEN d.own ELSE None, canEdit |-> who = "me"]

\* What a request leaves and says: nothing when it is refused.
Joined(d) == IF d.open THEN [d EXCEPT !.mine = "member"] ELSE [d EXCEPT !.mine = "asked"]
Without(notes, n) ==
    IF \E i \in DOMAIN notes : notes[i][1] = n
    THEN RemoveAt(notes, CHOOSE i \in DOMAIN notes : notes[i][1] = n) ELSE notes
Effects(d, r) ==
    LET member == Served(d, "me") /\ d.mine = "member"
        Leaves(e, ans) == {[db |-> e, ans |-> ans]}
        If(may, e, ans) == IF may THEN Leaves(e, ans) ELSE {}
    IN  CASE r.kind = "load"    -> If(Served(d, r.who), d, View(d, r.who))
          [] r.kind = "join"    -> If(Served(d, "me") /\ d.mine # "member", Joined(d), View(Joined(d), "me"))
          [] r.kind = "leave"   -> If(d.mine = "member", [d EXCEPT !.mine = "none"], None)
          [] r.kind = "vote"    -> LET e == [d EXCEPT !.own = r.arg]
                                   IN  If(member /\ ~d.closed /\ r.arg \in d.opts, e, View(e, "me"))
          [] r.kind = "edit"    -> LET e == [d EXCEPT !.opts = r.arg, !.own = IF @ \in r.arg THEN @ ELSE None]
                                   IN  If(member, e, View(e, "me"))
          [] r.kind = "delete"  -> If(~d.gone, [d EXCEPT !.gone = TRUE], None)
          [] r.kind = "notes"   -> If(Served(d, r.who), d, d.notes)
          [] r.kind = "publish" -> If(member, [d EXCEPT !.notes = Append(@, <<d.next, 1>>), !.next = @ + 1], <<d.next, 1>>)
          [] r.kind = "drop"    -> If(\E i \in DOMAIN d.notes : d.notes[i][1] = r.arg,
                                      [d EXCEPT !.notes = Without(@, r.arg)], None)
          [] r.kind = "save"    -> LET e == [i \in DOMAIN d.notes |-> IF d.notes[i][1] = r.arg THEN <<r.arg, 2>> ELSE d.notes[i]]
                                   IN  If(e # d.notes \/ <<r.arg, 2>> \in Range(d.notes), [d EXCEPT !.notes = e], None)
          [] r.kind = "stars"   -> Leaves(d, d.star)
          [] r.kind = "star"    -> If(Served(d, "me"), [d EXCEPT !.star = r.arg], None)
          [] r.kind = "rsvp"    -> If(member, [d EXCEPT !.own = r.arg], None)

-----------------------------------------------------------------------------
(* Requests, and what they may spoil. *)
Part(kind) ==
    CASE kind \in {"load", "join", "leave", "vote", "edit", "delete"} -> {"thing"}
      [] kind \in {"publish", "drop"} /\ screen = "post"              -> {"notes", "thing"}
      [] kind \in {"publish", "drop"} /\ screen # "post"              -> {"notes"}
      [] kind \in {"notes", "save"}                                   -> {"notes"}
      [] kind \in {"stars", "star"}                                   -> {"star"}
      [] kind = "rsvp"                                                -> {"rsvp"}

Loads == {"load", "notes", "stars"}
Whole == Loads \cup {"vote", "edit", "star"}
Request(kind, arg) == [kind |-> kind, arg |-> arg, who |-> Who, state |-> "sent", ans |-> None]

\* An answer that brings a whole part may undo what another one under way brings.
Spoils(kind, rest) ==
    Part(kind) \cap UNION {Part(rest[i].kind) : i \in {j \in DOMAIN rest : {kind, rest[j].kind} \cap Whole # {}}}
SendsAll(rest, kinds) ==
    /\ net' = rest \o kinds
    /\ spoiled' = LET fresh == UNION {Part(kinds[i].kind) : i \in {j \in DOMAIN kinds : kinds[j].kind \in Loads}}
                      late == UNION {Spoils(kinds[i].kind, rest) : i \in DOMAIN kinds}
                  IN  (spoiled \ fresh) \cup late
Sends(kind, arg) == SendsAll(net, <<Request(kind, arg)>>)

-----------------------------------------------------------------------------
(* What the viewer does: most kinds of act wait for their own last one. *)
Act(s) == /\ page.here /\ page.thing # None /\ ~page.error /\ screen \in s /\ acts < MaxActs
          /\ acts' = acts + 1 /\ UNCHANGED <<screen, db, viewer, moves>>
\* Fault: a button waits for nothing.
Guarded_Never(flag, kind, arg) == Sends(kind, arg) /\ UNCHANGED page
Guarded(flag, kind, arg) ==
    /\ flag \notin page.busy
    /\ page' = [page EXCEPT !.busy = @ \cup {flag}]
    /\ Sends(kind, arg)

Join == Act(Joinable) /\ viewer = "me" /\ page.thing.mine = "none" /\ Guarded("acting", "join", None)
Leave == Act(Joinable) /\ page.thing.mine = "member" /\ Guarded("acting", "leave", None)

Toggle(o) == /\ Act({"poll"}) /\ page.thing.canVote /\ o \in page.thing.opts /\ page.selection # o
             /\ page' = [page EXCEPT !.selection = o] /\ UNCHANGED <<net, spoiled>>
Vote == Act({"poll"}) /\ page.thing.canVote /\ page.selection # None /\ Guarded("voting", "vote", page.selection)
SaveEdit(opts) == Act({"poll"}) /\ viewer = "me" /\ opts # {} /\ Guarded("savingEdit", "edit", opts)

\* On the post's page nothing shows until the comments are there.
Shows == screen # "post" \/ ~page.loading
PublishComment == Act(WithNotes) /\ viewer = "me" /\ Shows /\ Guarded("submitting", "publish", None)
SaveComment(n) == Act({"post"}) /\ Shows /\ n \in {x[1] : x \in Range(page.notes)} /\ Guarded("savingComment", "save", n)
DeleteComment(n) == /\ Act(WithNotes) /\ viewer = "me" /\ Shows /\ n \in {x[1] : x \in Range(page.notes)}
                    /\ Sends("drop", n) /\ UNCHANGED page

ToggleFavorite == Act({"event"}) /\ viewer = "me" /\ Guarded("favoriteLoading", "star", ~page.star)
Choose(status) == Act({"event"}) /\ viewer = "me" /\ Guarded("busy", "rsvp", status)
Delete == /\ Act({"poll", "post", "event"}) /\ viewer = "me" /\ Shows
          /\ IF screen = "event" THEN Guarded("deleteLoading", "delete", None)
             ELSE Sends("delete", None) /\ UNCHANGED page

-----------------------------------------------------------------------------
(* What happens by itself. *)
\* The session is there; the page of an event is loaded again for its viewer.
SessionRestored(v) ==
    /\ viewer = "waiting" /\ viewer' = v
    /\ IF screen = "event" /\ v = "me"
       THEN SendsAll(net, <<[Request("load", None) EXCEPT !.who = v], [Request("stars", None) EXCEPT !.who = v]>>)
       ELSE UNCHANGED <<net, spoiled>>
    /\ UNCHANGED <<screen, db, page, acts, moves>>

\* The server takes request i over and answers; or it is refused or fails, or its answer is lost.
Serve(i) ==
    LET r == net[i]
    IN  /\ r.state = "sent"
        /\ \/ /\ net' = [net EXCEPT ![i].state = "failed"] /\ UNCHANGED db
              /\ spoiled' = IF r.kind \in Loads /\ (Effects(db, r) # {} \/ r.kind = "notes")
                            THEN spoiled \cup Part(r.kind) ELSE spoiled
           \/ \E e \in Effects(db, r) :
                /\ db' = e.db
                /\ \/ net' = [net EXCEPT ![i].state = "ok", ![i].ans = e.ans] /\ UNCHANGED spoiled
                   \/ /\ e.db # db
                      /\ net' = [net EXCEPT ![i].state = "failed"] /\ spoiled' = spoiled \cup Part(r.kind)
        /\ UNCHANGED <<screen, viewer, page, acts, moves>>

Comes(i, kinds) == page.here /\ net[i].state # "sent" /\ net[i].kind \in kinds /\ UNCHANGED <<screen, db, viewer, acts, moves>>
Rest(i) == RemoveAt(net, i)
Takes(i, p) == page' = p /\ net' = Rest(i) /\ UNCHANGED spoiled
Free(flag) == [page EXCEPT !.busy = @ \ {flag}]
LedAway == page' = [page EXCEPT !.here = FALSE] /\ net' = <<>> /\ UNCHANGED spoiled

\* setPoll selects what was voted for; the comments of a post follow its first answer.
Loaded(i) ==
    /\ Comes(i, {"load"})
    /\ LET r == net[i]
           got == [page EXCEPT !.thing = r.ans, !.who = r.who, !.busy = @ \ {"acting"},
                               !.selection = IF screen = "poll" THEN r.ans.own ELSE @]
       IN  IF r.state = "failed"
           THEN IF screen = "community" /\ page.thing # None THEN LedAway ELSE Takes(i, [page EXCEPT !.error = TRUE])
           ELSE IF screen = "post" /\ page.thing = None
                THEN page' = got /\ SendsAll(Rest(i), <<Request("notes", None)>>)
                ELSE Takes(i, got)

\* "joined" brings the community, "requested" only that one has asked.
JoinDone(i) == /\ Comes(i, {"join"})
               /\ Takes(i, IF net[i].state = "failed" THEN Free("acting")
                           ELSE [Free("acting") EXCEPT !.thing = net[i].ans, !.who = "me"])
LeaveDone(i) == /\ Comes(i, {"leave"})
                /\ IF net[i].state = "failed" THEN Takes(i, Free("acting"))
                   ELSE IF screen = "subgroup" THEN LedAway
                   ELSE UNCHANGED page /\ SendsAll(Rest(i), <<Request("load", None)>>)

PollChanged(i) ==
    /\ Comes(i, {"vote", "edit"})
    /\ LET free == Free(IF net[i].kind = "vote" THEN "voting" ELSE "savingEdit")
       IN  Takes(i, IF net[i].state = "failed" THEN free
                    ELSE [free EXCEPT !.thing = net[i].ans, !.who = "me", !.selection = net[i].ans.own])

NotesCome(i) == /\ Comes(i, {"notes"})
                /\ Takes(i, [page EXCEPT !.notes = IF net[i].state = "ok" THEN net[i].ans ELSE @, !.loading = FALSE])
Counted(p, n) == IF screen = "post" THEN [p EXCEPT !.thing.count = @ + n] ELSE p
Published(i) == /\ Comes(i, {"publish"})
                /\ Takes(i, IF net[i].state = "failed" THEN Free("submitting")
                            ELSE Counted([Free("submitting") EXCEPT !.notes = Append(@, net[i].ans)], 1))
CommentSaved(i) ==
    /\ Comes(i, {"save"})
    /\ Takes(i, IF net[i].state = "failed" THEN Free("savingComment")
                ELSE [Free("savingComment") EXCEPT
                        !.notes = [k \in DOMAIN @ |-> IF @[k][1] = net[i].arg THEN <<net[i].arg, 2>> ELSE @[k]]])
CommentDeleted(i) ==
    /\ Comes(i, {"drop"})
    /\ Takes(i, IF net[i].state = "failed" THEN page
                ELSE LET p == [page EXCEPT !.notes = Without(@, net[i].arg)]
                     IN  IF screen = "post" THEN [p EXCEPT !.thing.count = IF @ = 0 THEN 0 ELSE @ - 1] ELSE p)

StarsCome(i) == Comes(i, {"stars"}) /\ Takes(i, IF net[i].state = "ok" THEN [page EXCEPT !.star = net[i].ans] ELSE page)
StarSet(i) == /\ Comes(i, {"star"})
              /\ Takes(i, IF net[i].state = "failed" THEN Free("favoriteLoading")
                          ELSE [Free("favoriteLoading") EXCEPT !.star = net[i].arg])
\* The answer stays over what later loads of the event say.
RsvpSet(i) == /\ Comes(i, {"rsvp"})
              /\ Takes(i, IF net[i].state = "failed" THEN Free("busy") ELSE [Free("busy") EXCEPT !.mine = net[i].arg])
Deleted(i) == Comes(i, {"delete"}) /\ IF net[i].state = "ok" THEN LedAway ELSE Takes(i, Free("deleteLoading"))

\* Other people, and the viewer's other devices.
Moved ==
    /\ moves < MaxMoves /\ moves' = moves + 1
    /\ \/ \E m \in {"none", "member"} : db.mine # m /\ db' = [db EXCEPT !.mine = m] /\ spoiled' = spoiled \cup {"thing", "notes"}
       \/ screen \in Joinable /\ db' = [db EXCEPT !.open = ~@] /\ UNCHANGED spoiled
       \/ screen = "poll" /\ ~db.closed /\ db' = [db EXCEPT !.closed = TRUE] /\ spoiled' = spoiled \cup {"thing"}
       \/ screen \in WithNotes /\ db' = [db EXCEPT !.notes = Append(@, <<db.next, 1>>), !.next = @ + 1]
                               /\ spoiled' = spoiled \cup {"notes", "thing"}
    /\ UNCHANGED <<screen, viewer, page, net, acts>>

-----------------------------------------------------------------------------
\* The page asks for its thing: for its viewer, or for nobody while the session is not
\* restored.  The page of a post waits for the session.
Init ==
    /\ screen \in Screens
    /\ viewer \in IF screen \in {"post", "comments"} THEN {"me"} ELSE {"waiting", "me"}
    /\ \E mine \in {"none", "member"}, secret, open \in BOOLEAN :
          /\ screen \in {"post", "event", "comments"} => mine = "member"
          /\ screen \notin Joinable => open
          /\ db = [mine |-> mine, secret |-> secret, open |-> open, gone |-> FALSE, closed |-> FALSE, opts |-> Option,
                   own |-> None, notes |-> <<<<1, 1>>>>, next |-> 2, star |-> FALSE]
    /\ page = [thing |-> IF screen = "comments" THEN [of |-> "event"] ELSE None, who |-> "nobody", error |-> FALSE, busy |-> {}, selection |-> None, notes |-> <<>>,
               loading |-> TRUE, star |-> FALSE, mine |-> None, here |-> TRUE]
    /\ net = IF screen = "event" /\ viewer = "me" THEN <<Request("load", None), Request("stars", None)>>
             ELSE <<Request(IF screen = "comments" THEN "notes" ELSE "load", None)>>
    /\ acts = 0 /\ moves = 0 /\ spoiled = {}

Acts ==
    \/ Join \/ Leave \/ Vote \/ PublishComment \/ ToggleFavorite \/ Delete
    \/ \E o \in Option : Toggle(o)
    \/ \E opts \in SUBSET Option : SaveEdit(opts)
    \/ \E n \in 1 .. 3 : SaveComment(n) \/ DeleteComment(n)
    \/ \E status \in {"going", "declined"} : Choose(status)

Happens ==
    \/ \E v \in {"nobody", "me"} : SessionRestored(v)
    \/ Moved
    \/ \E i \in DOMAIN net :
         \/ Serve(i) \/ Loaded(i) \/ JoinDone(i) \/ LeaveDone(i) \/ PollChanged(i) \/ NotesCome(i) \/ Published(i)
         \/ CommentSaved(i) \/ CommentDeleted(i) \/ StarsCome(i) \/ StarSet(i) \/ RsvpSet(i) \/ Deleted(i)

Next == Acts \/ Happens

Spec == Init /\ [][Next]_vars

-----------------------------------------------------------------------------
Quiet == page.here /\ net = <<>> /\ viewer # "waiting"
Loaded1 == page.thing # None /\ ~page.error

\* When nothing is under way, a page is a true copy of what the server tells whom it asked
\* for: the thing, its comments and their number, the favourite and the viewer's answer -
\* each unless two answers about it crossed, one was lost, or somebody else changed it.
\* The page of an event has asked for its viewer.
CopiesAreTrue ==
    Quiet /\ Loaded1 =>
        /\ page.busy = {}
        /\ ("thing" \notin spoiled /\ screen \notin {"event", "comments"}) => page.thing = View(db, page.who)
        /\ ("thing" \notin spoiled /\ screen = "event") => page.who = Who
        /\ ("notes" \notin spoiled /\ screen \in WithNotes) => page.notes = db.notes
        /\ ("star" \notin spoiled /\ screen = "event" /\ viewer = "me") => page.star = db.star
        /\ ("rsvp" \notin spoiled /\ page.mine # None) => page.mine = db.own

\* Every page is its viewer's.
KnowsTheViewer == Quiet /\ Loaded1 /\ spoiled = {} => page.who = Who

\* Who may see the thing does not read that it is not there.
ErrorGivesWay == Quiet /\ spoiled = {} /\ Served(db, Who) => ~page.error

\* What is selected while a vote or an edit is under way stays selected.
SelectionStands == [][\A i \in DOMAIN net : PollChanged(i) /\ page.selection \in Option => page'.selection = page.selection]_vars
=============================================================================
