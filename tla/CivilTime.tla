------------------------------ MODULE CivilTime ------------------------------
(***************************************************************************)
(* parseAt (schedule.go:13-66): a local reading typed at --at, resolved    *)
(* once to an instant.  A zone is a few offsets with the instants between; *)
(* a reading that the clocks show twice or never is refused.               *)
(***************************************************************************)
EXTENDS Integers, FiniteSets, Sequences

CONSTANTS
    Day,        \* ticks in a day
    Year        \* how far the walk over the zone's bounds goes

ASSUME ZoneAssumption == Day \in Nat \ {0} /\ Year \in Nat \ {0}

\* offset[i] is in force until until[i], the last one for ever.
Zone(offset, until) == [offset |-> offset, until |-> until]

\* Local time is less than a year away from UTC.
IsZone(zone) == /\ zone.until \in Seq(Int) /\ zone.offset \in Seq(Int)
                /\ Len(zone.offset) = Len(zone.until) + 1
                /\ \A i \in DOMAIN zone.offset : -Year < zone.offset[i] /\ zone.offset[i] < Year

Offset(zone, t) ==
    zone.offset[1 + Cardinality({i \in DOMAIN zone.until : zone.until[i] <= t})]
Local(zone, t) == t + Offset(zone, t)

\* A reading of the clock; time-only inputs are the day's first `Day` readings.
Typed(full, reading) == [full |-> full, reading |-> reading]

\* Mutant: a time of day is always tomorrow's.
CivilTomorrow(zone, now, typed) ==
    IF typed.full THEN typed.reading
    ELSE Local(zone, now) - (Local(zone, now) % Day) + typed.reading + Day

\* Today, or tomorrow when the clock has shown that time.
Civil(zone, now, typed) ==
    LET today == Local(zone, now) - (Local(zone, now) % Day) + typed.reading
    IN  IF typed.full THEN typed.reading
        ELSE IF today > Local(zone, now) THEN today ELSE today + Day

\* Mutant: time.Date's choice, the offset at the reading.
OffsetThere(zone, civil) == {Offset(zone, civil)}

\* All offsets in force within a year of the reading.
OffsetsAround(zone, civil) ==
    {Offset(zone, t) : t \in {civil - Year} \cup
        {zone.until[i] : i \in {j \in DOMAIN zone.until :
                                    zone.until[j] \in civil - Year .. civil + Year}}}

Matches(zone, civil) ==
    {t \in {civil - o : o \in OffsetsAround(zone, civil)} : Local(zone, t) = civil}

\* The instant; or nothing, when the input is refused.
parseAt(zone, now, typed) ==
    LET found == Matches(zone, Civil(zone, now, typed))
    IN  IF Cardinality(found) = 1 THEN {t \in found : t > now} ELSE {}

=============================================================================
