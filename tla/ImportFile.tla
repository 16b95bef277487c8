----------------------------- MODULE ImportFile -----------------------------
(***************************************************************************)
(* Reading an import file (import/import-file.ts) and what is done with it *)
(* (checkFile, startFileImport and the run it starts in import.service.ts):*)
(* the file's fields first, then event by event; then the admin imports it *)
(* or not, and the run takes record by record while others write the       *)
(* events.  What a record changes in an event is in ImportSync; here an    *)
(* event is what decides whether it is marked as missing.                  *)
(*                                                                         *)
(* An event is a function from its fields to what the file says there.     *)
(* Lists (classes, series, parking, source, conflicts) have one entry at   *)
(* most, whose fields are fields of the event, such as "class.name".       *)
(***************************************************************************)
EXTENDS Integers, Sequences, FiniteSets

CONSTANTS
    Absent, Null,   \* undefined and null
    Wrong,          \* a value of another type
    Blank,          \* a text of spaces only
    Short, Long,    \* too short, too long
    Bad,            \* none of the values the field may have
    Ids             \* external ids

VARIABLES
    file,      \* the name of the source, whether it is complete, its events
    at,        \* the events read so far
    kept,      \* result.events; Null where the event is left out
    issues,    \* [severity, index, field]; index 0 for the whole file
    stored,    \* the event of each id that the database has of the source
    job,       \* "read", "checked", or the import: "refused", "start", "run", "flag", "imported", "failed"
    work,      \* the records the run has been through, and seenIds
    correction, \* an event somebody has read to correct it
    busy,      \* does anybody else write events meanwhile
    flagged,   \* the events the run marked as no longer listed
    past       \* what the admin was told of, which records could not be saved, and which
               \* events others wrote since the admin was told: history

reading == <<file, at, kept, issues>>
vars == <<reading, stored, job, work, correction, busy, flagged, past>>

Today == 1
Date == [day : 0 .. 4, half : {0}, timed : {FALSE}] \cup [day : {2}, half : {0, 1}, timed : {TRUE}]
Instant(d) == 2 * d.day + d.half
FarFuture == 6

TextField ==
    {"externalId", "name", "description", "locationName", "address", "disciplineSlug", "status",
     "country", "externalUrl", "sourceUrl", "startDate", "endDate", "registrationDeadline"}
Required == {"externalId", "name", "locationName", "disciplineSlug", "status", "startDate"}
DateField == {"startDate", "endDate", "registrationDeadline"}
ChosenText == {"disciplineSlug", "status", "country", "externalUrl", "sourceUrl"}
Coordinate == {"lat", "lng"}
ListField == {"source", "conflicts", "classes", "parking", "series"}
Extra == {"extra", "class.extra", "series.extra", "parking.extra"}

\* Fields of entries: texts that must not be empty, values that may be missing or null or
\* are known, and those that must be known.
EntryName == {"class.name", "series.key", "series.name", "parking.name"}
ClassValue == {"class.gender", "class.license", "class.licenseClasses", "class.category",
               "class.distanceKm", "class.startTime", "class.championship"}
ParkingValue == {"parking.capacity", "parking.fee", "parking.openFrom"}
EntryValue == ClassValue \cup ParkingValue \cup {"series.kind", "series.round"}
EntryNeeds == {"source.name", "source.url", "parking.kinds", "parking.place"}
EntryText == {"class.note", "parking.address"}
AgeField == {"class.ageMin", "class.ageMax"}

AnyField == TextField \cup Coordinate \cup ListField \cup Extra \cup EntryName \cup EntryValue \cup EntryNeeds
           \cup EntryText \cup AgeField
           \cup {"startTimeKnown", "allDay", "class.dayLicense", "championship", "format", "source.checkedAt"}

\* What may stand in a field.
Reading(f) ==
    CASE f = "externalId" -> Ids \cup {Absent, Null, Wrong, Blank, Long}
      [] f = "name" -> {Absent, Null, Wrong, Blank, Short, Long, "name", "other name"}
      [] f = "locationName" -> {Absent, Null, Wrong, Blank, Long, Bad, "vague", "known"}
      [] f \in ChosenText -> {Absent, Null, Wrong, Blank, Long, Bad, "known"}
      [] f \in DateField -> {Absent, Null, Wrong, Blank, Bad} \cup Date
      [] f \in {"description", "address"} \cup EntryText -> {Absent, Null, Wrong, Blank, Long, "text"}
      [] f \in {"startTimeKnown", "allDay", "class.dayLicense"} -> {Absent, Null, Wrong} \cup BOOLEAN
      [] f = "parking" -> {Absent, Null, Wrong, "empty", "no object", "entry", "too many"}
      [] f \in ListField \ {"parking"} -> {Absent, Null, Wrong, "empty", "no object", "entry"}
      [] f \in Extra -> {Absent, "given"}
      [] f \in EntryName -> {Absent, Wrong, Blank, Long, "name"}
      [] f = "parking.place" -> {Absent, Bad, "near", "far"}
      [] f \in AgeField -> {Absent, Null, Wrong, 10, 12, 30}
      [] OTHER -> {Absent, Null, Wrong, Bad, "known"}

Good(id) ==
    [f \in AnyField |->
        CASE f = "externalId" -> id
          [] f = "startDate" -> [day |-> 2, half |-> 1, timed |-> TRUE]
          [] f \in EntryName -> "name"
          [] f \in ChosenText \cup EntryNeeds \cup {"locationName"} -> IF f = "parking.place" THEN "near" ELSE "known"
          [] f = "name" -> "name"
          [] f \in Coordinate -> "known"
          [] f \in {"source", "classes", "parking", "series"} -> "entry"
          [] OTHER -> Absent]

Unset(v) == v \in {Absent, Null}

-----------------------------------------------------------------------------
(***************************************************************************)
(* One event: the fields with an error, and those with a warning.          *)
(***************************************************************************)
\* str: the checks of a text.  A text of spaces is given, and empty once trimmed, which
\* nothing but the shortest length of a name refuses.
TextErrors(e) ==
    {f \in TextField : \/ e[f] \in {Wrong, Long} \/ (Unset(e[f]) /\ f \in Required)
                       \/ (f = "name" /\ e[f] \in {Blank, Short})}

\* The text is one to look at: not undefined, not empty.
Said(e, f) == ~Unset(e[f]) /\ e[f] \notin {Wrong, Blank}

ChoiceErrors(e) == {f \in ChosenText \cup {"locationName"} : Said(e, f) /\ e[f] = Bad}

IsDate(e, f) == e[f] \in Date

\* readDate, and what is said of the start time.
DateErrors(e) ==
    {f \in DateField : Said(e, f) /\ ~IsDate(e, f)}
    \cup {f \in {"startTimeKnown", "allDay"} : e[f] \notin BOOLEAN \cup {Absent}}
    \cup {f \in {"startTimeKnown"} : IsDate(e, "startDate") /\ e[f] = TRUE /\ ~e["startDate"].timed}
    \cup {f \in {"endDate"} : /\ IsDate(e, f) /\ IsDate(e, "startDate")
                              /\ Instant(e[f]) < Instant(e["startDate"])}

DateWarnings(e) ==
    IF ~IsDate(e, "startDate") THEN {} ELSE
    LET start == e["startDate"]
        last == IF IsDate(e, "endDate") THEN e["endDate"] ELSE start
    IN {f \in {"startTimeKnown"} : e[f] = FALSE /\ start.timed}
       \cup {f \in {"startDate"} : start.day < Today \/ Instant(start) > FarFuture}
       \cup {f \in {"registrationDeadline"} : IsDate(e, f) /\ Instant(e[f]) > Instant(last) + 2}

CoordinateErrors(e) ==
    {f \in Coordinate : e[f] \in {Wrong, Bad}}
    \cup {f \in Coordinate : Unset(e[f]) /\ \E g \in Coordinate : ~Unset(e[g])}

\* A list that is not one; an entry that is not one.
ListErrors(e) ==
    {f \in ListField :
        \/ e[f] = Wrong \/ e[f] = "no object"
        \/ f # "series" /\ e[f] = Null
        \/ e[f] = "too many"}

Entries(e, f) == e[f] = "entry"

SourceErrors(e) ==
    IF ~Entries(e, "source") THEN {}
    ELSE IF e["source.name"] # "known" THEN {"source.name"}
    ELSE IF e["source.url"] # "known" THEN {"source.url"}
    ELSE {f \in {"source.checkedAt"} : e[f] \notin {Absent, "known"}}

Known(e, f) == Unset(e[f]) \/ e[f] \in {"known", "name"}

LevelErrors(e) == {f \in {"championship", "format"} : ~Known(e, f)}

\* classAges: given ages win, missing ones come from the category, here of 11 and 12 years.
ClassAges(e) ==
    LET age(f, ofCategory) == IF e[f] \notin {Absent, Null, Wrong} THEN e[f] ELSE IF e["class.category"] = "known" THEN ofCategory ELSE Null
    IN <<age("class.ageMin", 11), age("class.ageMax", 12)>>

ClassErrors(e) ==
    IF ~Entries(e, "classes") THEN {} ELSE
    {f \in ClassValue : ~Known(e, f)}
    \cup {f \in {"class.name"} : e[f] # "name"}
    \cup {f \in {"class.dayLicense"} : e[f] \notin BOOLEAN \cup {Absent}}
    \cup {f \in AgeField : e[f] = Wrong}
    \cup {f \in {"class.ageMax"} : LET ages == ClassAges(e) IN Null \notin {ages[1], ages[2]} /\ ages[1] > ages[2]}

SeriesErrors(e) ==
    IF ~Entries(e, "series") THEN {} ELSE
    {f \in {"series.kind", "series.round"} : ~Known(e, f)}
    \cup {f \in {"series.key", "series.name"} : e[f] # "name"}

\* readParking; its text does not refuse a name of spaces.
ParkingErrors(e) ==
    IF ~Entries(e, "parking") THEN {} ELSE
    {f \in ParkingValue : ~Known(e, f)}
    \cup {f \in {"parking.name"} : e[f] \notin {"name", Blank}}
    \cup {f \in {"parking.kinds"} : e[f] # "known"}
    \cup {f \in {"parking.place"} : e[f] \notin {"near", "far"}}
    \cup {f \in {"parking.address"} : e[f] \in {Wrong, Long}}

Errors(e) ==
    TextErrors(e) \cup ChoiceErrors(e) \cup DateErrors(e) \cup CoordinateErrors(e) \cup ListErrors(e)
    \cup SourceErrors(e) \cup LevelErrors(e) \cup ClassErrors(e) \cup SeriesErrors(e) \cup ParkingErrors(e)

Warnings(e) ==
    DateWarnings(e)
    \cup {f \in {"locationName"} : e[f] = "vague"}
    \cup {f \in {"conflicts"} : Entries(e, f)}
    \cup {f \in {"extra"} : e[f] = "given"}
    \cup {f \in {"class.extra"} : Entries(e, "classes") /\ e[f] = "given"}
    \cup {f \in {"series.extra"} : Entries(e, "series") /\ e[f] = "given"}
    \cup {f \in {"parking.extra"} : Entries(e, "parking") /\ e[f] = "given"}
    \cup {f \in {"parking.place"} : /\ Entries(e, "parking") /\ e[f] = "far" /\ ParkingErrors(e) = {}
                                    /\ \A g \in Coordinate : e[g] \in {Bad, "known"}}

-----------------------------------------------------------------------------
(***************************************************************************)
(* The file.                                                               *)
(***************************************************************************)
Issue(severity, i, fields) == [severity : {severity}, index : {i}, field : fields]

Severe(found, severity) == \E issue \in found : issue.severity = severity

FileErrors(f) ==
    {x \in {"sourceName"} : f.sourceName = Bad}
    \cup {x \in {"complete"} : f.complete \notin BOOLEAN \cup {Absent}}
    \cup {x \in {"events"} : f.events = <<>>}

AnyId == CHOOSE id \in Ids : TRUE
SecondEvents ==
    {Good(id) : id \in Ids} \cup {[Good(id) EXCEPT !["name"] = "other name"] : id \in Ids} \cup {Wrong}

File(name, complete, events) == [sourceName |-> name, complete |-> complete, events |-> events]

\* lastSeenAt, as one of before the run or not (`seen`).
Event == [exists : {TRUE}, upcoming : BOOLEAN, missing : BOOLEAN, seen : BOOLEAN]
NoEvent == [exists |-> FALSE]
Upcoming == [exists |-> TRUE, upcoming |-> TRUE, missing |-> FALSE, seen |-> FALSE]
NoCorrection == [event |-> NoEvent]

\* One event that is good but for two fields; or a second one, and one field of the first;
\* or the file itself is not good.
SomeFile ==
       \/ \E f, g \in AnyField : \E r \in Reading(f), q \in Reading(g) :
            file = File("known", TRUE, <<[Good(AnyId) EXCEPT ![f] = r, ![g] = q]>>)
       \/ \E f \in AnyField, d \in SecondEvents, complete \in BOOLEAN : \E r \in Reading(f) :
            file = File("known", complete, <<[Good(AnyId) EXCEPT ![f] = r], d>>)
       \/ \E name \in {"known", Bad}, complete \in {Absent, TRUE, Wrong}, d \in SecondEvents :
            file \in {File(name, complete, <<>>), File(name, complete, <<d, Good(AnyId)>>)}

\* Good events, or none of one: of any that the past has left in the calendar.
Init ==
    /\ \/ SomeFile /\ stored = [id \in Ids |-> Upcoming] /\ busy = FALSE
       \/ /\ \E events \in {<<Good(AnyId)>>} \cup {<<Good(id), Good(AnyId)>> : id \in Ids}, complete \in BOOLEAN :
                 file = File("known", complete, events)
          /\ stored \in [Ids -> {e \in Event : ~e.seen} \cup {NoEvent}] /\ busy = TRUE
    /\ at = 0 /\ kept = <<>> /\ issues = Issue("error", 0, FileErrors(file))
    /\ job = "read" /\ work = [at |-> 0, seen |-> {}] /\ correction = NoCorrection
    /\ flagged = {} /\ past = [told |-> {}, unsaved |-> {}, changed |-> {}]

\* The events before this one that said this id: the first to say it is remembered, kept
\* or not.
SameId(i) ==
    {j \in 1 .. i - 1 : /\ file.events[j] # Wrong /\ Said(file.events[j], "externalId")
                        /\ file.events[j]["externalId"] = file.events[i]["externalId"]}

SameNameSameDay(i) ==
    {j \in 1 .. i - 1 :
        /\ file.events[j] # Wrong
        /\ \A k \in {i, j} : Said(file.events[k], "name") /\ IsDate(file.events[k], "startDate")
        /\ file.events[j]["name"] = file.events[i]["name"]
        /\ file.events[j]["startDate"].day = file.events[i]["startDate"].day}

\* Fault: an id counts as used only by an event that is kept.
RepeatedId_Kept(i) == Said(file.events[i], "externalId") /\ \E j \in SameId(i) : kept[j] # Null
RepeatedId(i) == Said(file.events[i], "externalId") /\ SameId(i) # {}

EventErrors(i) ==
    LET e == file.events[i] IN
    IF e = Wrong THEN {"event"}
    ELSE Errors(e) \cup {f \in {"externalId"} : RepeatedId(i)}

EventWarnings(i) ==
    LET e == file.events[i] IN
    IF e = Wrong THEN {}
    ELSE Warnings(e) \cup {f \in {"name"} : SameNameSameDay(i) # {}}

LeftOut(e, errors) == errors # {} \/ ~IsDate(e, "startDate") \/ ~Said(e, "externalId") \/ ~Said(e, "name")

\* One turn of data.events.forEach.
ReadEvent ==
    /\ job = "read" /\ at < Len(file.events)
    /\ LET i == at + 1
           errors == EventErrors(i)
       IN /\ kept' = Append(kept, IF LeftOut(file.events[i], errors) THEN Null ELSE file.events[i])
          /\ issues' = issues \cup Issue("error", i, errors) \cup Issue("warning", i, EventWarnings(i))
          /\ at' = i
    /\ UNCHANGED <<file, stored, job, work, correction, busy, flagged, past>>

Listed == {kept[i]["externalId"] : i \in {j \in 1 .. Len(kept) : kept[j] # Null}}
Complete == file.complete = TRUE /\ file.sourceName # Bad

\* What the check counts, and the run marks.
Expected(id) == stored[id].exists /\ stored[id].upcoming /\ ~stored[id].missing

\* checkFile warns of the events the run is going to mark.
\* Fault: of those the file does not name, left out or not.
WillMark_Named == {id \in Ids : Complete /\ Expected(id) /\ \A i \in 1 .. at : file.events[i] = Wrong \/ file.events[i]["externalId"] # id}
WillMark == {id \in Ids : Complete /\ Expected(id) /\ id \notin Listed}

\* The report of checkFile, which the page shows; it can be asked for again.
CheckFile ==
    /\ job \in {"read", "checked"} /\ at = Len(file.events) /\ job' = "checked"
    /\ past' = [past EXCEPT !.told = WillMark, !.changed = {}]
    /\ UNCHANGED <<reading, stored, work, correction, busy, flagged>>

\* startFileImport, which checks once more, with or without acceptWarnings; the check may
\* find that an event of another source is like a new one (possibleDuplicate).  A refusal
\* for its warnings comes with the new report, and the page shows that.
StartFileImport(acceptWarnings, alike) ==
    /\ job = "checked"
    /\ alike => \E id \in Listed : ~stored[id].exists
    /\ LET warned == Severe(issues, "warning") \/ WillMark # {} \/ alike IN
       IF Severe(issues, "error") THEN job' = "refused" /\ UNCHANGED past
       ELSE IF warned /\ ~acceptWarnings
            THEN job' = "checked" /\ past' = [past EXCEPT !.told = WillMark, !.changed = {}]
            ELSE job' = "start" /\ past' = [past EXCEPT !.told = IF acceptWarnings THEN @ ELSE {}]
    /\ UNCHANGED <<reading, stored, work, correction, busy, flagged>>

-----------------------------------------------------------------------------
(***************************************************************************)
(* executeImport, which nobody waits for.                                  *)
(***************************************************************************)
BeginRun ==
    /\ job = "start" /\ job' = "run"
    /\ UNCHANGED <<reading, stored, work, correction, busy, flagged, past>>

\* The next of the records, planned anew; seenIds has the events it was found to be.
NextRecord(i) == job = "run" /\ i = work.at + 1 /\ i <= Len(kept)
Through(i, found) ==
    /\ work' = [at |-> i, seen |-> work.seen \cup found]
    /\ UNCHANGED <<reading, job, correction, busy, flagged>>
Id(i) == kept[i]["externalId"]

PassRecord(i) == NextRecord(i) /\ kept[i] = Null /\ Through(i, {}) /\ UNCHANGED <<stored, past>>
CreateEvent(i) ==
    /\ NextRecord(i) /\ kept[i] # Null /\ ~stored[Id(i)].exists /\ Through(i, {Id(i)})
    /\ \E upcoming \in BOOLEAN : stored' = [stored EXCEPT ![Id(i)] = [Upcoming EXCEPT !.upcoming = upcoming, !.seen = TRUE]]
    /\ UNCHANGED past
UpdateEvent(i) ==
    /\ NextRecord(i) /\ kept[i] # Null /\ stored[Id(i)].exists /\ Through(i, {Id(i)})
    /\ \E upcoming \in BOOLEAN : stored' = [stored EXCEPT ![Id(i)].upcoming = upcoming]
    /\ UNCHANGED past
\* Nothing to change; its series may fail to be linked, after it counts as seen.
\* Fault: what needs no saving does not count as seen.
KeepEvent_Unseen(i) ==
    /\ NextRecord(i) /\ kept[i] # Null /\ stored[Id(i)].exists /\ Through(i, {})
    /\ UNCHANGED <<stored, past>>
KeepEvent(i) ==
    /\ NextRecord(i) /\ kept[i] # Null /\ stored[Id(i)].exists /\ Through(i, {Id(i)})
    /\ UNCHANGED <<stored, past>>
\* An event of another source is like it.
SkipRecord(i) ==
    /\ NextRecord(i) /\ kept[i] # Null /\ ~stored[Id(i)].exists /\ Through(i, {})
    /\ UNCHANGED <<stored, past>>
\* "One broken record must not abort the whole run."
SaveFails(i) ==
    /\ NextRecord(i) /\ kept[i] # Null /\ Through(i, {})
    /\ past' = [past EXCEPT !.unsaved = @ \cup {Id(i)}]
    /\ UNCHANGED stored

\* recordSeen, its two statements.
Stamp ==
    /\ job = "run" /\ work.at = Len(kept) /\ job' = "flag"
    /\ stored' = [id \in Ids |-> IF id \in work.seen /\ stored[id].exists
                                 THEN [stored[id] EXCEPT !.seen = TRUE, !.missing = FALSE] ELSE stored[id]]
    /\ UNCHANGED <<reading, work, correction, busy, flagged, past>>
Flag ==
    /\ job = "flag" /\ job' = "imported"
    /\ flagged' = {id \in Ids : Complete /\ Expected(id) /\ ~stored[id].seen}
    /\ stored' = [id \in Ids |-> IF id \in flagged' THEN [stored[id] EXCEPT !.missing = TRUE] ELSE stored[id]]
    /\ UNCHANGED <<reading, work, correction, busy, past>>
\* An error outside the records, or a stop of the server.
RunFails ==
    /\ job \in {"start", "run", "flag"} /\ job' = "failed"
    /\ UNCHANGED <<reading, stored, work, correction, busy, flagged, past>>

-----------------------------------------------------------------------------
(***************************************************************************)
(* What others write meanwhile.                                            *)
(***************************************************************************)
Underway == job \in {"read", "checked", "start", "run", "flag"}
Writes(id, e) ==
    /\ stored' = [stored EXCEPT ![id] = e] /\ past' = [past EXCEPT !.changed = @ \cup {id}]
    /\ UNCHANGED <<reading, job, work, busy, flagged>>

\* events.service.ts, update: the event that was read is saved, with another start or not.
ReadEventToCorrect(id, upcoming) ==
    /\ busy /\ Underway /\ correction = NoCorrection /\ stored[id].exists
    /\ correction' = [id |-> id, event |-> [stored[id] EXCEPT !.upcoming = upcoming]]
    /\ UNCHANGED <<reading, stored, job, work, busy, flagged, past>>
SaveCorrection ==
    /\ Underway /\ correction # NoCorrection /\ correction' = NoCorrection
    /\ Writes(correction.id, correction.event)
\* Another import, which started in the same moment, lists it.
OtherImport(id) ==
    /\ busy /\ Underway /\ UNCHANGED correction
    /\ \E upcoming \in BOOLEAN :
          Writes(id, [exists |-> TRUE, upcoming |-> upcoming, missing |-> FALSE, seen |-> job \in {"run", "flag"}])
\* Time passes.
EventBegins(id) ==
    /\ busy /\ Underway /\ stored[id].exists /\ stored[id].upcoming /\ UNCHANGED correction
    /\ Writes(id, [stored[id] EXCEPT !.upcoming = FALSE])

Import ==
    \/ BeginRun \/ Stamp \/ Flag \/ RunFails
    \/ \E i \in 1 .. Len(kept) : PassRecord(i) \/ CreateEvent(i) \/ UpdateEvent(i) \/ KeepEvent(i) \/ SkipRecord(i) \/ SaveFails(i)
Others ==
    \/ \E id \in Ids : OtherImport(id) \/ EventBegins(id) \/ \E upcoming \in BOOLEAN : ReadEventToCorrect(id, upcoming)
    \/ SaveCorrection

Next == ReadEvent \/ CheckFile \/ (\E acceptWarnings, alike \in BOOLEAN : StartFileImport(acceptWarnings, alike)) \/ Import \/ Others

Spec == Init /\ [][Next]_vars

-----------------------------------------------------------------------------
\* docs/IMPORT-FILE-FORMAT.md, "Event fields": what each field may be, and how they go
\* together.
Unfit == {Wrong, Blank, Short, Long, Bad}

May(e, f) ==
    /\ e[f] \notin Unfit
    /\ e[f] = Absent => f \notin Required
    /\ e[f] = Null => f \in (TextField \ Required) \cup Coordinate \cup {"championship", "format", "series"}
    /\ f \in ListField => e[f] \in {Absent, Null, "empty", "entry"}

EntryFields(prefix) ==
    CASE prefix = "classes" -> ClassValue \cup AgeField \cup {"class.name", "class.dayLicense"}
      [] prefix = "series" -> {"series.key", "series.name", "series.kind", "series.round"}
      [] prefix = "parking" -> ParkingValue \cup {"parking.name", "parking.kinds", "parking.place", "parking.address"}
      [] prefix = "source" -> {"source.name", "source.url", "source.checkedAt"}
      [] OTHER -> {}

MayInEntry(e, f) ==
    /\ e[f] \notin Unfit
    /\ Unset(e[f]) => f \notin EntryNeeds \cup EntryName
    /\ e[f] = Null => f \notin {"class.dayLicense", "source.checkedAt"}

Youngest(e) ==
    IF e["class.ageMin"] \in 0 .. 120 THEN e["class.ageMin"] ELSE IF e["class.category"] = "known" THEN 11 ELSE 0
Oldest(e) ==
    IF e["class.ageMax"] \in 0 .. 120 THEN e["class.ageMax"] ELSE IF e["class.category"] = "known" THEN 12 ELSE 120

Follows(e) ==
    /\ \A f \in TextField \cup Coordinate \cup ListField \cup {"startTimeKnown", "allDay", "championship", "format"} : May(e, f)
    /\ \A l \in ListField \ {"conflicts"} : e[l] = "entry" => \A f \in EntryFields(l) : MayInEntry(e, f)
    /\ Unset(e["lat"]) <=> Unset(e["lng"])
    /\ IsDate(e, "endDate") => Instant(e["endDate"]) >= Instant(e["startDate"])
    /\ e["startTimeKnown"] = TRUE => e["startDate"].timed
    /\ e["classes"] = "entry" => Youngest(e) <= Oldest(e)

\* The fields where a text of spaces is taken for one that was left out.
Spaces(e) == \E f \in TextField \cup {"parking.name", "parking.address"} : e[f] = Blank

\* What is read is what the documented format allows, the first time its id is used; texts
\* of spaces aside.
KeepsWhatFollows ==
    \A i \in 1 .. at :
        LET e == file.events[i] IN
        e # Wrong => (Spaces(e) \/ (kept[i] # Null <=> Follows(e) /\ SameId(i) = {}))

\* "Errors block the whole file": nothing of a file that is imported was left out, unless
\* its id or its start is a text of spaces.
Accepted == job \notin {"read", "checked", "refused"}
OnlySpacesLeftOut ==
    Accepted =>
        \A i \in 1 .. at :
            kept[i] = Null => file.events[i] # Wrong /\ Blank \in {file.events[i]["externalId"], file.events[i]["startDate"]}

\* The check warns that what a complete file leaves out "will be marked as no longer listed".
\* The run marks later, by what it found and saved: it marks nothing that the admin was not
\* told of and confirmed, but for an event whose record could not be saved and one that
\* somebody else wrote, or that began, since the admin was told; and once it is through it
\* has marked all of that, but for the latter.
MarksNothingUnconfirmed ==
    /\ flagged \subseteq past.told \cup past.unsaved \cup past.changed
    /\ job = "imported" => past.told \subseteq flagged \cup past.changed

\* "upcoming events of the source that are missing from the file are only marked": what the
\* file names is not.  An event whose start is a text of spaces is, and one whose record
\* could not be saved.
NamedAreNotMarked ==
    \A i \in 1 .. at : file.events[i] # Wrong => file.events[i]["externalId"] \notin flagged
=============================================================================
