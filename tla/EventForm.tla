----------------------------- MODULE EventForm -----------------------------
(***************************************************************************)
(* The form of an event: what it shows of an event, what it sends, and     *)
(* what the server makes of it (event-form in the client, create, update,  *)
(* setPaceGroups and setStravaLinks of the server).                        *)
(*                                                                         *)
(* Dates are shown and read in the browser's zone, plain days are taken as *)
(* midnight in Germany.  An edit is saved by three requests: the event     *)
(* first, then its pace groups and its links at once.  Each can fail, and  *)
(* the answer of one that was carried out can be lost; the form stays and  *)
(* can be sent again.  Time is counted in thirds of a day of German time.  *)
(***************************************************************************)
EXTENDS Integers, FiniteSets

CONSTANTS
    None,        \* no date, no text, no event
    Zones,       \* how far the browser's clock is ahead of the German one
    Locales,     \* languages of the browser: "de", "en"
    MaxActs,     \* how often something is entered or sent
    MaxMoves     \* how often somebody else changes the event

VARIABLES
    zone, locale,
    ev,          \* the event, None before it is created
    created,        \* how many events the form has made
    form,        \* the controls
    touched,     \* the dirty ones
    stage,       \* "editing", "update", "parts", "saved"
    parts,       \* the requests of the second round under way
    stray,       \* those nobody waits for any more
    acts, moves,
    base, asked, \* the event as it was read, and what was sent last: history
    clean        \* was no older request under way when that was sent: history

server == <<ev, created>>
history == <<base, asked, clean>>
vars == <<zone, locale, ev, created, form, touched, stage, parts, stray, acts, moves, base, asked, clean>>

Third == 3
Clock == {None} \cup 0 .. 2
NoWhen == [day |-> None, time |-> None]
Parts == {"groups", "links"}
\* What an import would bring, too.
Imported == {"name", "address", "start", "known", "end", "closes", "class"}

-----------------------------------------------------------------------------
(* Dates. *)
TimeOf(i) == IF (i + zone) % Third = 0 THEN None ELSE (i + zone) % Third
Display(i) == IF i = None THEN NoWhen ELSE [day |-> (i + zone) \div Third, time |-> TimeOf(i)]
CombineDatetime(day, time) == Third * day + (IF time = None THEN 0 ELSE time) - zone
Instant(w) == IF w.day = None THEN None ELSE CombineDatetime(w.day, w.time)
BerlinMidnight(day) == Third * day

\* patchForm: what the form shows of an event.
PatchForm(e) ==
    [name |-> e.name, address |-> e.address, start |-> Display(e.start), end |-> Display(e.end),
     opens |-> Display(e.opens), closes |-> Display(e.closes),
     class |-> IF e.class = None THEN None ELSE TimeOf(e.class), groups |-> e.groups, links |-> e.links]

\* A class starts on the day the event starts.
ClassStart(f) == IF f.class = None THEN None ELSE CombineDatetime(f.start.day, f.class)
\* What of an imported event an edit really changes.
Differing(e, next) == {x \in Imported : next[x] # e[x]}

\* What the server makes of the form and of the event as it is.  What is left empty is not
\* sent, so that it stays; the classes are sent when one of them was changed.
Updated(e, f, dirty) ==
    LET timed == f.start.time # None
        next == [e EXCEPT
            !.name = f.name,
            !.address = IF f.address = None THEN @ ELSE f.address,
            !.start = IF timed THEN Instant(f.start) ELSE BerlinMidnight(f.start.day),
            !.known = timed,
            !.end = IF f.end.day = None THEN @
                    ELSE IF timed \/ f.end.time # None THEN Instant(f.end) ELSE BerlinMidnight(f.end.day),
            !.opens = Instant(f.opens),
            !.closes = Instant(f.closes),
            !.class = IF "class" \in dirty THEN ClassStart(f) ELSE @]
    IN  [next EXCEPT !.edited = IF e.imported THEN @ \cup Differing(e, next) ELSE @]

\* Sign-up cannot open after it closes.
InOrder(opens, closes) == (opens # None /\ closes # None) => opens <= closes
\* "Max speed must not be below min speed": a list of groups the server refuses.
Refused == 2

Blank == [name |-> 0, address |-> None, start |-> None, known |-> TRUE, end |-> None, opens |-> None, closes |-> None,
          class |-> None, groups |-> 0, links |-> 0, imported |-> FALSE, edited |-> {}]

-----------------------------------------------------------------------------
(* Somebody at the form. *)
IsEdit == base # Blank
Act == stage = "editing" /\ acts < MaxActs /\ acts' = acts + 1

Enter(f, v) ==
    /\ Act /\ form[f] # v
    /\ form' = [form EXCEPT ![f] = v] /\ touched' = touched \cup {f}
    /\ UNCHANGED <<zone, locale, server, stage, parts, stray, moves, history>>

\* The pattern of the dates is the German one, whatever the form shows.
Valid == locale = "de" /\ form.start.day # None

OnSubmit ==
    /\ Act /\ Valid /\ InOrder(Instant(form.opens), Instant(form.closes))
    /\ stage' = "update" /\ asked' = form /\ clean' = (stray = {})
    /\ UNCHANGED <<zone, locale, server, form, touched, parts, stray, moves, base>>

-----------------------------------------------------------------------------
(* The requests. *)
Rest == UNCHANGED <<zone, locale, form, touched, acts, moves, history>>

\* The event is written, and its answer comes or is lost; or the request fails.
Update ==
    /\ stage = "update" /\ IsEdit
    /\ ev' = Updated(ev, asked, touched)
    /\ \/ stage' = "parts" /\ parts' = Parts
       \/ stage' = "editing" /\ UNCHANGED parts
    /\ UNCHANGED <<created, stray>> /\ Rest
Create ==
    /\ stage = "update" /\ ~IsEdit /\ asked.groups # Refused
    /\ ev' = [Updated(Blank, asked, touched) EXCEPT !.groups = asked.groups, !.links = asked.links]
    /\ created' = created + 1
    /\ stage' \in {"saved", "editing"}
    /\ UNCHANGED <<parts, stray>> /\ Rest
RequestFails == stage = "update" /\ stage' = "editing" /\ UNCHANGED <<server, parts, stray>> /\ Rest

\* Fault: the first answer is taken for both.
AllThere_First(left) == TRUE
\* forkJoin waits for both answers.
AllThere(left) == left = {}

SetPart(k) ==
    /\ stage = "parts" /\ k \in parts /\ ~(k = "groups" /\ asked.groups = Refused)
    /\ ev' = [ev EXCEPT ![k] = asked[k]]
    /\ parts' = parts \ {k}
    /\ stage' = IF AllThere(parts') THEN "saved" ELSE "parts"
    /\ UNCHANGED <<created, stray>> /\ Rest

\* With the first failure the form gives up; the other request may still be carried out.
PartFails(k, done) ==
    /\ stage = "parts" /\ k \in parts /\ ~(done /\ k = "groups" /\ asked.groups = Refused)
    /\ ev' = IF done THEN [ev EXCEPT ![k] = asked[k]] ELSE ev
    /\ stray' = stray \cup {<<x, asked[x]>> : x \in parts \ {k}}
    /\ parts' = {} /\ stage' = "editing"
    /\ UNCHANGED created /\ Rest
StrayEnds(s) ==
    /\ s \in stray /\ stray' = stray \ {s}
    /\ \/ ev' = [ev EXCEPT ![s[1]] = s[2]] /\ ~(s = <<"groups", Refused>>)
       \/ UNCHANGED ev
    /\ UNCHANGED <<created, stage, parts>> /\ Rest

\* An import corrects what nobody has edited, or another form sets the links.
Moved ==
    /\ IsEdit /\ moves < MaxMoves /\ moves' = moves + 1
    /\ \/ ev.imported /\ "name" \notin ev.edited /\ ev' = [ev EXCEPT !.name = 2]
       \/ ev' = [ev EXCEPT !.links = 2]
    /\ UNCHANGED <<zone, locale, created, form, touched, stage, parts, stray, acts, history>>

-----------------------------------------------------------------------------
\* An event in the database: at a known time, with an end or without, or on mere days; with a deadline and a class or
\* without; of an import or not.
Stored(start, known, c, i) ==
    [Blank EXCEPT !.name = 1, !.address = 1, !.start = start, !.known = known,
                  !.end = IF ~known THEN 9 ELSE IF start = 6 THEN None ELSE 10,
                  !.closes = c, !.class = c, !.groups = 1, !.links = 1, !.imported = i]

\* A new form, in which the day is entered, or that of an event its viewer may edit.
Init ==
    /\ zone \in Zones /\ locale \in Locales
    /\ \/ \E start \in {6, 7}, known \in BOOLEAN, c \in {None, 7}, i \in BOOLEAN :
            /\ known \/ start = 6
            /\ base = Stored(start, known, c, i) /\ ev = base /\ form = PatchForm(base)
       \/ base = Blank /\ ev = None /\ form = [PatchForm(Blank) EXCEPT !.start.day = 2]
    /\ created = 0 /\ touched = {} /\ stage = "editing" /\ parts = {} /\ stray = {}
    /\ acts = 0 /\ moves = 0 /\ asked = form /\ clean = TRUE

When(old, days, times) == {[old EXCEPT !.day = d] : d \in days} \cup {[old EXCEPT !.time = t] : t \in times}
Entries ==
    \/ Enter("name", 3)
    \/ \E a \in {None, 3} : Enter("address", a)
    \/ \E w \in When(form.start, {1, 3}, {None, 0, 2}) : Enter("start", w)
    \/ \E w \in When(form.end, {None, 2}, {None, 2}) : Enter("end", w)
    \/ \E w \in When(form.opens, {2}, {}) : Enter("opens", w)
    \/ \E w \in When(form.closes, {None, 1}, {0}) : Enter("closes", w)
    \/ \E t \in {None, 2} : Enter("class", t)
    \/ \E g \in {Refused, 3} : Enter("groups", g)
    \/ Enter("links", 3)

Next ==
    \/ Entries \/ OnSubmit \/ Update \/ Create \/ RequestFails \/ Moved
    \/ \E k \in Parts : SetPart(k) \/ \E done \in BOOLEAN : PartFails(k, done)
    \/ \E s \in stray : StrayEnds(s)

Spec == Init /\ [][Next]_vars

-----------------------------------------------------------------------------
Shown(w) == IF w.day = None THEN NoWhen ELSE [w EXCEPT !.time = IF @ = 0 THEN None ELSE @]
\* A day without a time is only the same day on a German clock.
SameDays == zone = 0 \/ asked.start.time # None
\* Midnight is shown as no time.
AtMidnight == base.known /\ Display(base.start).time = None
Quiet == stage = "saved" /\ clean
\* What other people change here.
Others == IF moves = 0 THEN {} ELSE {"name", "links"}

\* When a form says that the event is saved, and no request that it had given up was under
\* way when the last ones were sent, then - but for what somebody else changed meanwhile - the
\* form read again shows what was entered, in any browser whose days are the German ones or
\* with a time of the start; what was not entered is as it was; and only what was entered
\* is kept from the imports.  Left out: what was cleared and is kept, and a start at midnight.
SavedAsEntered ==
    Quiet =>
        LET again == PatchForm(ev)
        IN  /\ \A f \in {"name", "groups", "links"} \ Others : again[f] = asked[f]
            /\ again.opens = Shown(asked.opens) /\ again.closes = Shown(asked.closes)
            /\ asked.address # None => again.address = asked.address
            /\ SameDays => /\ again.start = Shown(asked.start)
                           /\ asked.end.day # None => again.end = Shown(asked.end)
            /\ "class" \in touched => again.class = (IF asked.class = 0 THEN None ELSE asked.class)
            /\ \A f \in {"name", "address", "end", "opens", "closes", "class", "groups", "links"} \ (touched \cup Others) :
                 IsEdit /\ SameDays => ev[f] = base[f]
            /\ IsEdit /\ SameDays /\ "start" \notin touched => ev.start = base.start
            /\ IsEdit /\ zone = 0 /\ ~AtMidnight =>
                 ev.edited \subseteq base.edited \cup touched \cup Others \cup (IF "start" \in touched THEN {"known"} ELSE {})

\* What is cleared in the form is cleared in the event.
ClearedIsCleared == Quiet => (asked.address = None => ev.address = None) /\ (asked.end.day = None => ev.end = None)

\* An event ends after it starts.
EndsAfterStart == ev # None /\ ev.end # None => ev.start <= ev.end

\* The classes start on a day of the event.
ClassesOnTheDay == ev # None /\ ev.class # None /\ moves = 0 /\ "class" \notin touched /\ zone = 0 =>
    (base.class \div Third = base.start \div Third => ev.class \div Third = ev.start \div Third)

\* Who enters nothing changes nothing.
UntouchedStays == Quiet /\ moves = 0 /\ IsEdit /\ touched = {} => ev = base

\* A form that failed has changed nothing.
AllOrNothing == [][(stage \in {"update", "parts"} /\ stage' = "editing") => ev = base]_vars

\* What others did while the form was open stands.
OthersStand == [][ev # None /\ ev.name = 2 /\ "name" \notin touched => ev'.name = 2]_vars

\* One form makes one event.
OneEventPerForm == created <= 1

\* The form of an event its viewer may edit can be sent.
FormsCanBeSent == stage = "editing" /\ touched = {} => Valid
=============================================================================
