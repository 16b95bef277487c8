----------------------------- MODULE Recurrence -----------------------------
(***************************************************************************)
(* The starts of a repeating event (events/recurrence.ts).  Instants and   *)
(* wall-clock times are counted in hours; a wall-clock time is a number of *)
(* hours "as if UTC", so that a day more is 24 hours more.  The zone's     *)
(* offset grows by an hour in the summer.  The loop that collects the      *)
(* starts is one step per turn.                                            *)
(***************************************************************************)
EXTENDS Integers, Sequences

CONSTANTS
    Firsts,          \* the instants at which a series may start
    Zones,           \* records [std, from, to]: the offset is one more in from .. to - 1
    Limits,          \* records [until, count]; None where the form leaves one out
    None,
    MaxOccurrences,  \* MAX_OCCURRENCES
    MaxSpanDays      \* MAX_SPAN_DAYS

VARIABLES first, frequency, zone, limit, starts, index, done

vars == <<first, frequency, zone, limit, starts, index, done>>

-----------------------------------------------------------------------------
Offset(z, t) == IF t \in z.from .. z.to - 1 THEN z.std + 1 ELSE z.std
WallTimeOf(z, t) == t + Offset(z, t)

\* Fault: no second look at the offset.
WallToUtc_Guess(z, wall) == wall - Offset(z, wall)

\* The offset is read where the wall-clock time would be in UTC, and again where
\* that has led.
WallToUtc(z, wall) ==
    LET result == wall - Offset(z, wall)
        second == Offset(z, result)
    IN IF second # Offset(z, wall) THEN wall - second ELSE result

Span == 24 * MaxSpanDays
StepHours == 24 * (IF frequency = "biweekly" THEN 14 ELSE 7)
Turns == IF limit.count = None \/ limit.count > MaxOccurrences THEN MaxOccurrences ELSE limit.count
LastAllowed == IF limit.until = None THEN first + Span ELSE first + limit.until

Occurrence(i) == WallToUtc(zone, WallTimeOf(zone, first) + i * StepHours)

Beyond(i) == (i > 0 /\ Occurrence(i) > LastAllowed) \/ Occurrence(i) - first > Span

\* A form with neither an end nor a number of events is refused.
Init ==
    /\ first \in Firsts /\ frequency \in {"weekly", "biweekly"}
    /\ zone \in Zones /\ limit \in Limits
    /\ limit.until # None \/ limit.count # None
    /\ starts = <<>> /\ index = 0 /\ done = FALSE

\* One turn of the loop.
Push ==
    /\ ~done /\ index < Turns /\ ~Beyond(index)
    /\ starts' = Append(starts, Occurrence(index))
    /\ index' = index + 1
    /\ UNCHANGED <<first, frequency, zone, limit, done>>

Stop ==
    /\ ~done /\ (index = Turns \/ Beyond(index))
    /\ done' = TRUE
    /\ UNCHANGED <<first, frequency, zone, limit, starts, index>>

Next == Push \/ Stop

Spec == Init /\ [][Next]_vars

-----------------------------------------------------------------------------
\* The instants that show a wall-clock time: none when the clock skips it, two when it
\* is put back.
Showing(wall) == {t \in wall - 26 .. wall + 26 : WallTimeOf(zone, t) = wall}

\* recurrence.ts: "the local wall-clock time stays the same across daylight saving
\* changes", except where the clock skips it, and the first start is the given one
\* unless its wall-clock time comes twice.
KeepsTheClock ==
    \A i \in 1 .. Len(starts) :
        LET wall == WallTimeOf(zone, first) + (i - 1) * StepHours IN
        /\ Showing(wall) # {} => starts[i] \in Showing(wall)
        /\ i = 1 /\ Showing(wall) = {first} => starts[i] = first

\* The starts are in order, a week or two apart but for the hour, no more than asked
\* for, and all but the first are within the limits; and nothing that is within them
\* is left out.
WithinLimits ==
    /\ Len(starts) <= Turns
    /\ \A i \in 2 .. Len(starts) :
         /\ starts[i] - starts[i - 1] \in StepHours - 1 .. StepHours + 1
         /\ starts[i] <= LastAllowed /\ starts[i] - first <= Span
    /\ done /\ Len(starts) < Turns
         => Occurrence(Len(starts)) > LastAllowed \/ Occurrence(Len(starts)) > first + Span
    /\ done => starts # <<>>
=============================================================================
