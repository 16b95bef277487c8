----------------------------- MODULE MCCalendar -----------------------------
(***************************************************************************)
(* How events come into the calendar and are sorted there: the jobs of the *)
(* importer (ImportJobs), an import of a source (ImportSync), an import    *)
(* file (ImportFile), the starts of a repeating event (Recurrence), whom   *)
(* an event fits (Racing) and the list of duplicates (Duplicates).  A      *)
(* behaviour is one of the six; the variables of the others rest.          *)
(***************************************************************************)
EXTENDS ImportJobs, Integers, TLC

CONSTANTS
    Record, Field, Value, Editor, Mixes,                  \* of ImportSync
    undefined, null, wrongType, spaces, tooShort, tooLong, unknown, Ids,  \* of ImportFile
    Firsts, Zones, SeriesLimits, MaxOccurrences, MaxSpanDays,             \* of Recurrence
    Ages, AgeLimits,                                      \* of Racing
    Events                                                \* of Duplicates

VARIABLES
    part,
    listing, row, job, edit, corrected, mix,
    file, at, kept, issues, stored, fileJob, work, correction, busy, flagged, past,
    first, frequency, zone, limit, starts, index, done,
    rider, event,
    day, match, ignored, cache, shown, scans

syncVars == <<listing, row, job, edit, corrected, mix>>
fileVars == <<file, at, kept, issues, stored, fileJob, work, correction, busy, flagged, past>>
recurrenceVars == <<first, frequency, zone, limit, starts, index, done>>
racingVars == <<rider, event>>
duplicatesVars == <<day, match, ignored, cache, shown, scans>>
all == <<part, vars, syncVars, fileVars, recurrenceVars, racingVars, duplicatesVars>>

S == INSTANCE ImportSync

\* Of sources, and what NULL is: ImportSync's own assumptions, and that there is a record.
ASSUME SyncAssumption ==
  /\ Record # {} /\ S!Absent \notin Value
  /\ \A m \in Mixes : m.ops \subseteq S!Operation /\ m.records \subseteq Record /\ m.fields \subseteq Field

F == INSTANCE ImportFile WITH
        Absent <- undefined, Null <- null, Wrong <- wrongType, Blank <- spaces, Short <- tooShort,
        Long <- tooLong, Bad <- unknown, job <- fileJob

\* There is an id; what the marks stand for are seven things that are no ids, dates, words,
\* numbers or Booleans, and null is no event.
Marks == {undefined, null, wrongType, spaces, tooShort, tooLong, unknown}
Words == {"name", "other name", "text", "vague", "known", "empty", "no object", "entry", "too many", "given", "near", "far"}
FileEvent == [F!AnyField -> UNION {F!Reading(f) : f \in F!AnyField}]
ASSUME FileAssumption ==
  /\ Ids # {} /\ null \notin FileEvent
  /\ undefined \notin {null, wrongType, spaces, tooShort, tooLong, unknown}
  /\ null \notin {wrongType, spaces, tooShort, tooLong, unknown} /\ wrongType \notin {spaces, tooShort, tooLong, unknown}
  /\ spaces \notin {tooShort, tooLong, unknown} /\ tooShort \notin {tooLong, unknown} /\ tooLong # unknown
  /\ \A mark \in Marks : mark \notin Ids /\ mark \notin BOOLEAN /\ mark \notin Int /\ mark \notin F!Date /\ mark \notin Words

R == INSTANCE Recurrence WITH Limits <- SeriesLimits, None <- null

Q == INSTANCE Racing WITH None <- null, Limits <- AgeLimits

\* Birth years and the years of events are some of 1900 to 2100.
ASSUME AgesAssumption == Ages \subseteq -200 .. 200 /\ null \notin Int

\* What the form takes; no zone is more than 15 hours from UTC.
ASSUME SeriesAssumption ==
  /\ Firsts \subseteq Int /\ MaxOccurrences \in Nat \ {0} /\ MaxSpanDays \in Nat \ {0}
  /\ \A z \in Zones : z.std \in -15 .. 15 /\ z.from \in Int /\ z.to \in Int
  /\ \A l \in SeriesLimits : l.until \in Int \cup {null} /\ l.count \in (Nat \ {0, 1}) \cup {null}

\* The scan has loaded so many events.
ASSUME EventsAssumption == Events \in Nat

D == INSTANCE Duplicates WITH None <- null, req <- scans

-----------------------------------------------------------------------------
(* The small instances. *)
CONSTANTS e1, e2, name, place, v1, v2

\* Corrections of one event while the source stays, or changes; imports without corrections
\* of one event while the source changes, and of two while it stays.
SyncMixes == {[ops |-> {"edit", "saveFails"}, records |-> {e1}, fields |-> {name, place}],
              [ops |-> {"edit", "source", "saveFails", "runFails"}, records |-> {e1}, fields |-> {name}],
              [ops |-> {"source", "runFails"}, records |-> {e1}, fields |-> {name, place}],
              [ops |-> {"runFails"}, records |-> {e1, e2}, fields |-> {name}]}

\* Clocks are changed one day after the start of a year of a few weeks, and back.
Starts == (820 .. 1004) \cup (1820 .. 2004)
TwoZones == {[std |-> 1, from |-> 1000, to |-> 2000], [std |-> -5, from |-> 1000, to |-> 2000]}
FormLimits ==
    {[until |-> null, count |-> 3], [until |-> 24 * 15, count |-> null], [until |-> -30, count |-> 9],
     [until |-> 24 * 14 + 1, count |-> 2], [until |-> 24 * 60, count |-> null]}

\* Ages on both sides of the limits of categories.
SomeAges == {6, 7, 11, 12, 13, 23, 30}
SomeLimits == {null, 11, 12}

\* Values are interchangeable; records and fields are not, because IdleJob and the mixes name some.
Symmetry == Permutations(Value)

-----------------------------------------------------------------------------
JobsRest == Init
SyncRests == listing = null /\ row = null /\ job = null /\ edit = null /\ corrected = null /\ mix = null
FileRests ==
    /\ file = null /\ at = null /\ kept = null /\ issues = null /\ stored = null /\ fileJob = null /\ work = null
    /\ correction = null /\ busy = null /\ flagged = null /\ past = null
RecurrenceRests == first = null /\ frequency = null /\ zone = null /\ limit = null /\ starts = null /\ index = null /\ done = null
RacingRests == rider = null /\ event = null
DuplicatesRests == day = null /\ match = null /\ ignored = null /\ cache = null /\ shown = null /\ scans = null

JobsInit == part = "jobs" /\ Init /\ SyncRests /\ FileRests /\ RecurrenceRests /\ RacingRests /\ DuplicatesRests
SyncInit == part = "sync" /\ S!Init /\ JobsRest /\ FileRests /\ RecurrenceRests /\ RacingRests /\ DuplicatesRests
FileInit == part = "file" /\ F!Init /\ JobsRest /\ SyncRests /\ RecurrenceRests /\ RacingRests /\ DuplicatesRests
RecurrenceInit == part = "recurrence" /\ R!Init /\ JobsRest /\ SyncRests /\ FileRests /\ RacingRests /\ DuplicatesRests
RacingInit == part = "racing" /\ Q!Init /\ JobsRest /\ SyncRests /\ FileRests /\ RecurrenceRests /\ DuplicatesRests
DuplicatesInit == part = "duplicates" /\ D!Init /\ JobsRest /\ SyncRests /\ FileRests /\ RecurrenceRests /\ RacingRests

CalendarInit == SyncInit \/ FileInit \/ RecurrenceInit \/ RacingInit \/ DuplicatesInit

JobsStep == part = "jobs" /\ Next /\ UNCHANGED <<part, syncVars, fileVars, recurrenceVars, racingVars, duplicatesVars>>
SyncStep == part = "sync" /\ S!Next /\ UNCHANGED <<part, vars, fileVars, recurrenceVars, racingVars, duplicatesVars>>
FileStep == part = "file" /\ F!Next /\ UNCHANGED <<part, vars, syncVars, recurrenceVars, racingVars, duplicatesVars>>
RecurrenceStep == part = "recurrence" /\ R!Next /\ UNCHANGED <<part, vars, syncVars, fileVars, racingVars, duplicatesVars>>
RacingStep == part = "racing" /\ Q!Next /\ UNCHANGED <<part, vars, syncVars, fileVars, recurrenceVars, duplicatesVars>>
DuplicatesStep == part = "duplicates" /\ D!Next /\ UNCHANGED <<part, vars, syncVars, fileVars, recurrenceVars, racingVars>>

CalendarNext == SyncStep \/ FileStep \/ RecurrenceStep \/ RacingStep \/ DuplicatesStep

CalendarSpec == CalendarInit /\ [][CalendarNext]_all
JobsAlone == JobsInit /\ [][JobsStep]_all /\ Fairness

-----------------------------------------------------------------------------
\* The properties of the modules, each of its own part.
CorrectionsOutliveImports == [][part = "sync" => S!CorrectionsLostOnlyToStaleSave]_all
ImportsFollowTheSource == [][part = "sync" => S!NeverCleared /\ S!FlagsOnlyUnlisted /\ S!TakesOver']_all
FilesAreReadAsDocumented == part = "file" => F!KeepsWhatFollows /\ F!OnlySpacesLeftOut
MarksNothingUnconfirmed == part = "file" => F!MarksNothingUnconfirmed
OccurrencesStand == part = "recurrence" => R!KeepsTheClock /\ R!WithinLimits
CategoriesPartition == part = "racing" => Q!CategoriesPartition
GroupsAreComponents == part = "duplicates" => D!GroupsAreComponents
=============================================================================
