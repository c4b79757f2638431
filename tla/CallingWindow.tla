--------------------------- MODULE CallingWindow ---------------------------
(***************************************************************************)
(* Calling windows (lib/calling/windows.ts): whether a campaign may call   *)
(* now, and if not, when its window opens next.  Pure: a window, a zone    *)
(* and an instant go in.                                                   *)
(*                                                                         *)
(* Instants count hours of UTC; a wall-clock time is the hour a clock in   *)
(* the zone would show, counted from the same origin.  A zone changes its  *)
(* offset once, at `switch'.  A day has w.day hours (24, fewer in small    *)
(* instances).                                                             *)
(***************************************************************************)
EXTENDS Integers, FiniteSets, FiniteSetsExt

\* CallingWindow: hours of the day, permitted weekdays and the time zone.
WindowOf(day, start, end, days, zone) ==
    [day |-> day, start |-> start, end |-> end, days |-> days, zone |-> zone]

Zone(switch, before, after) == [switch |-> switch, before |-> before, after |-> after]

\* The wall clock of instant t: what zonedParts takes apart.
ZonedTime(t, z) == t + (IF t < z.switch THEN z.before ELSE z.after)

LocalDay(t, w) == ZonedTime(t, w.zone) \div w.day
LocalHour(t, w) == ZonedTime(t, w.zone) % w.day
DayAllowed(t, w) == LocalDay(t, w) % 7 \in w.days

\* Mutation: one correction of the guess, which the second pass is there for.
ZonedTimeToUtcOnce(wall, z) == wall + (wall - ZonedTime(wall, z))

\* Guess, measure the offset at the guess, correct; twice.
ZonedTimeToUtc(wall, z) ==
    LET first == wall + (wall - ZonedTime(wall, z))
    IN  first + (wall - ZonedTime(first, z))

Allowed(t, w) == DayAllowed(t, w) /\ LocalHour(t, w) \in w.start..(w.end - 1)

\* The days looked at are those of t, t + 24 h, ..., t + 7 * 24 h.
Openings(t, w) ==
    {k \in 0..7 :
        LET probe == t + k * w.day
        IN  /\ DayAllowed(probe, w)
            /\ ZonedTimeToUtc(LocalDay(probe, w) * w.day + w.start, w.zone) > t}

\* Where no probe finds an opening the code throws.
NextOpenAt(t, w) ==
    LET k == Min(Openings(t, w))
    IN  IF Allowed(t, w) THEN t
        ELSE ZonedTimeToUtc(LocalDay(t + k * w.day, w) * w.day + w.start, w.zone)

-----------------------------------------------------------------------------
(* Properties                                                              *)

\* No day of the calendar is shorter than w.day between t and its opening.
NoShortDay(t, w) == w.zone.after <= w.zone.before \/ w.zone.switch \notin t..(t + 8 * w.day)

\* A deferred lead becomes due after now and inside the window, and, unless a
\* short day lies between, at the first such instant: no permitted day is
\* passed over when the clocks change in the night.
OpensAt(t, w) ==
    LET n == NextOpenAt(t, w)
    IN  ~Allowed(t, w) /\ Openings(t, w) # {} =>
            /\ n > t /\ Allowed(n, w)
            /\ NoShortDay(t, w) => \A m \in (t + 1)..(n - 1) : ~Allowed(m, w)

=============================================================================
