--------------------------- MODULE Requests_proofs ---------------------------
(***************************************************************************)
(* parseAt looks at a few offsets around a reading; that these are all the *)
(* offsets that matter is an argument about time zones.  Here it is, for   *)
(* any zone whose offsets are less than a year, in whatever order they     *)
(* come and however close together.  Then what it says of a command line,  *)
(* and that a request which is registered loads again as it was typed.     *)
(***************************************************************************)
EXTENDS Requests, FiniteSetTheorems, WellFoundedInduction, TLAPS

Past(zone, t) == {i \in DOMAIN zone.until : zone.until[i] <= t}

-----------------------------------------------------------------------------

LEMMA Least ==
    ASSUME NEW T, T \subseteq Nat, T # {}
    PROVE  \E x \in T : \A y \in T : x <= y
<1>1. \E x \in T : \A y \in T : ~(<<y, x>> \in OpToRel(<, Nat))
  BY NatLessThanWellFounded, WFMin
<1>2. \A x, y \in Nat : ~(<<y, x>> \in OpToRel(<, Nat)) => x <= y
  BY DEF OpToRel
<1>. QED  BY <1>1, <1>2

LEMMA ZoneParts ==
    ASSUME NEW zone, IsZone(zone)
    PROVE  \E n \in Nat : /\ zone.until \in [1..n -> Int] /\ DOMAIN zone.until = 1..n
                          /\ zone.offset \in [1..(n + 1) -> Int]
<1>. DEFINE n == Len(zone.until)
<1>1. n \in Nat /\ zone.until \in [1..n -> Int] /\ DOMAIN zone.until = 1..n
  BY DEF IsZone
<1>2. zone.offset \in [1..(n + 1) -> Int]
  BY DEF IsZone
<1>. QED  BY <1>1, <1>2

LEMMA PastCount ==
    ASSUME NEW zone, IsZone(zone), NEW t \in Int
    PROVE  /\ IsFiniteSet(Past(zone, t))
           /\ 1 + Cardinality(Past(zone, t)) \in DOMAIN zone.offset
<1>1. PICK n \in Nat : /\ zone.until \in [1..n -> Int] /\ DOMAIN zone.until = 1..n
                       /\ zone.offset \in [1..(n + 1) -> Int]
  BY ZoneParts
<1>2. IsFiniteSet(1..n) /\ Cardinality(1..n) = n
  BY FS_Interval
<1>3. Past(zone, t) \in SUBSET (1..n)
  BY <1>1 DEF Past
<1>4. /\ IsFiniteSet(Past(zone, t)) /\ Cardinality(Past(zone, t)) <= n
      /\ Cardinality(Past(zone, t)) \in Nat
  BY <1>2, <1>3, FS_Subset, FS_CardinalityType
<1>. QED  BY <1>1, <1>4

LEMMA OffsetType ==
    ASSUME NEW zone, IsZone(zone), NEW t \in Int
    PROVE  /\ Offset(zone, t) \in Int
           /\ -Year < Offset(zone, t) /\ Offset(zone, t) < Year
<1>. DEFINE i == 1 + Cardinality(Past(zone, t))
<1>1. i \in DOMAIN zone.offset
  BY PastCount
<1>2. zone.offset[i] \in Int /\ -Year < zone.offset[i] /\ zone.offset[i] < Year
  BY <1>1 DEF IsZone
<1>3. Offset(zone, t) = zone.offset[i]
  BY DEF Offset, Past
<1>. QED  BY <1>2, <1>3

LEMMA SamePast ==
    ASSUME NEW zone, NEW s, NEW t, Past(zone, s) = Past(zone, t)
    PROVE  Offset(zone, s) = Offset(zone, t)
BY DEF Offset, Past

\* The offset at an instant within a year of the reading is among those that are looked
\* at: it was in force a year before, or since its last change.
LEMMA AllAround ==
    ASSUME NEW zone, IsZone(zone), NEW civil \in Int, NEW t \in Int,
           civil - Year <= t, t <= civil + Year
    PROVE  Offset(zone, t) \in OffsetsAround(zone, civil)
<1>. USE ZoneAssumption
<1>1. PICK n \in Nat : zone.until \in [1..n -> Int]
  BY ZoneParts
<1>. DEFINE Since == {i \in Past(zone, t) : civil - Year <= zone.until[i]}
<1>2. CASE Since = {}
  <2>1. Past(zone, civil - Year) = Past(zone, t)
    BY <1>1, <1>2 DEF Past
  <2>. QED  BY <2>1, SamePast DEF OffsetsAround
<1>3. CASE Since # {}
  <2>. DEFINE Ages == {t - zone.until[i] : i \in Since}
  <2>0. \A i \in Since : zone.until[i] \in Int /\ zone.until[i] <= t
    BY <1>1 DEF Past
  <2>1. Ages \subseteq Nat /\ Ages # {}
    <3>1. \A i \in Since : t - zone.until[i] \in Nat
      BY <2>0
    <3>2. Ages \subseteq Nat
      BY <3>1
    <3>3. Ages # {}
      BY <1>3
    <3>. QED  BY <3>2, <3>3
  <2>2. PICK age \in Ages : \A other \in Ages : age <= other
    BY <2>1, Least
  <2>3. PICK last \in Since : age = t - zone.until[last]
    BY <2>2
  <2>4. \A i \in Since : zone.until[i] <= zone.until[last]
    <3>. SUFFICES ASSUME NEW i \in Since PROVE zone.until[i] <= zone.until[last]
      OBVIOUS
    <3>1. t - zone.until[i] \in Ages
      OBVIOUS
    <3>2. t - zone.until[last] <= t - zone.until[i]
      BY <2>2, <2>3, <3>1
    <3>. QED  BY <2>0, <3>2
  <2>5. \A i \in Past(zone, t) : zone.until[i] <= zone.until[last]
    <3>1. zone.until[last] \in Int /\ civil - Year <= zone.until[last]
      BY <2>0
    <3>. SUFFICES ASSUME NEW i \in Past(zone, t) PROVE zone.until[i] <= zone.until[last]
      OBVIOUS
    <3>2. zone.until[i] \in Int
      BY <1>1 DEF Past
    <3>3. CASE i \in Since
      BY <2>4, <3>3
    <3>4. CASE i \notin Since
      <4>1. ~(civil - Year <= zone.until[i])
        BY <3>4
      <4>2. civil - Year \in Int
        OBVIOUS
      <4>. HIDE DEF Since
      <4>. QED  BY <3>1, <3>2, <4>1, <4>2
    <3>. QED  BY <3>3, <3>4
  <2>6. Past(zone, zone.until[last]) = Past(zone, t)
    BY <1>1, <2>3, <2>5 DEF Past
  <2>7. last \in DOMAIN zone.until /\ zone.until[last] \in civil - Year .. civil + Year
    BY <1>1, <2>3 DEF Past
  <2>. QED  BY <2>6, <2>7, SamePast DEF OffsetsAround
<1>. QED  BY <1>2, <1>3

Shown(zone, civil) == {t \in Int : Local(zone, t) = civil}

\* The walk finds every instant at which the clocks show the reading, and no other.
LEMMA MatchesAreShown ==
    ASSUME NEW zone, IsZone(zone), NEW civil \in Int
    PROVE  Matches(zone, civil) = Shown(zone, civil)
<1>. USE ZoneAssumption
<1>1. ASSUME NEW t \in Shown(zone, civil) PROVE t \in Matches(zone, civil)
  <2>1. t \in Int /\ t + Offset(zone, t) = civil
    BY DEF Shown, Local
  <2>3. Offset(zone, t) \in Int /\ -Year < Offset(zone, t) /\ Offset(zone, t) < Year
    BY <2>1, OffsetType
  <2>4. t = civil - Offset(zone, t) /\ civil - Year <= t /\ t <= civil + Year
    BY <2>1, <2>3
  <2>5. Offset(zone, t) \in OffsetsAround(zone, civil)
    BY <2>1, <2>4, AllAround
  <2>. QED  BY <2>1, <2>4, <2>5 DEF Matches, Local
<1>2. ASSUME NEW t \in Matches(zone, civil) PROVE t \in Shown(zone, civil)
  <2>1. PICK s \in Int : t = civil - Offset(zone, s)
    <3>1. PICK n \in Nat : zone.until \in [1..n -> Int]
      BY ZoneParts
    <3>. QED  BY <3>1 DEF Matches, OffsetsAround
  <2>2. Offset(zone, s) \in Int
    BY OffsetType
  <2>. QED  BY <2>1, <2>2 DEF Matches, Shown
<1>. QED  BY <1>1, <1>2

\* There are finitely many.
LEMMA FewMatches ==
    ASSUME NEW zone, IsZone(zone), NEW civil \in Int
    PROVE  IsFiniteSet(Matches(zone, civil))
<1>1. PICK n \in Nat : zone.until \in [1..n -> Int]
  BY ZoneParts
<1>. DEFINE at[i \in 0..n] == civil - Offset(zone, IF i = 0 THEN civil - Year ELSE zone.until[i])
            Walk == {at[i] : i \in 0..n}
<1>2. IsFiniteSet(0..n)
  BY FS_Interval
<1>3. at \in Surjection(0..n, Walk)
  BY DEF Surjection
<1>4. IsFiniteSet(Walk)
  BY <1>2, <1>3, FS_Surjection
<1>5. Matches(zone, civil) \in SUBSET Walk
  <2>. SUFFICES ASSUME NEW t \in Matches(zone, civil) PROVE t \in Walk
    OBVIOUS
  <2>1. PICK o \in OffsetsAround(zone, civil) : t = civil - o
    BY DEF Matches
  <2>2. CASE o = Offset(zone, civil - Year)
    BY <2>1, <2>2
  <2>3. CASE \E i \in 1..n : o = Offset(zone, zone.until[i])
    <3>1. PICK i \in 1..n : o = Offset(zone, zone.until[i])
      BY <2>3
    <3>2. i \in 0..n /\ i # 0
      OBVIOUS
    <3>3. at[i] = t
      BY <2>1, <3>1, <3>2
    <3>. QED  BY <3>2, <3>3
  <2>. QED  BY <1>1, <2>1, <2>2, <2>3 DEF OffsetsAround
<1>. QED  BY <1>4, <1>5, FS_Subset

LEMMA CivilType ==
    ASSUME NEW zone, IsZone(zone), NEW now \in Int,
           NEW full \in BOOLEAN, NEW reading \in Int
    PROVE  Civil(zone, now, Typed(full, reading)) \in Int
<1>1. Offset(zone, now) \in Int
  BY OffsetType, ZoneAssumption
<1>2. Local(zone, now) \in Int
  BY <1>1 DEF Local
<1>3. Local(zone, now) % Day \in Int
  BY <1>2, ZoneAssumption
<1>. QED  BY <1>2, <1>3, ZoneAssumption DEF Civil, Typed

\* parseAt (schedule.go:13-66) accepts an instant exactly if, of all instants there are,
\* it is the only one at which the clocks show what was typed, and it is still to come:
\* a reading that the clocks show twice, never, or in the past is refused.
THEOREM ParseAtIsExact ==
    ASSUME NEW zone, IsZone(zone), NEW now \in Int,
           NEW full \in BOOLEAN, NEW reading \in Int, NEW t
    PROVE  t \in parseAt(zone, now, Typed(full, reading))
              <=> /\ Shown(zone, Civil(zone, now, Typed(full, reading))) = {t}
                  /\ t > now
<1>. DEFINE civil == Civil(zone, now, Typed(full, reading))
<1>1. civil \in Int
  BY CivilType
<1>2. Matches(zone, civil) = Shown(zone, civil) /\ IsFiniteSet(Matches(zone, civil))
  BY <1>1, MatchesAreShown, FewMatches
<1>3. Cardinality(Matches(zone, civil)) = 1 <=> \E x : Matches(zone, civil) = {x}
  BY <1>2, FS_Singleton
<1>4. t \in parseAt(zone, now, Typed(full, reading))
         <=> Cardinality(Matches(zone, civil)) = 1 /\ t \in Matches(zone, civil) /\ t > now
  BY DEF parseAt
<1>. QED  BY <1>2, <1>3, <1>4

-----------------------------------------------------------------------------
(* The times of a run of Requests. *)

\* The clocks are put back by a day at most.
Settled(zone) == \A i, j \in DOMAIN zone.offset :
                     i < j => zone.offset[i] - zone.offset[j] <= Day

IsClock(c) ==
    /\ IsZone(c.zone) /\ Settled(c.zone) /\ c.now \in Int
    /\ c.at = Typed(c.at.full, c.at.reading) /\ c.at.full \in BOOLEAN /\ c.at.reading \in Int
    /\ ~c.at.full => c.at.reading \in 0..(Day - 1)

\* How far a request has come, and what is known of it there.
Past0 == {"accepted", "registered", "loaded", "unloadable"}
StageInv ==
    /\ step \in {"typing", "refused", "managed", "foreground"} \cup Past0
    /\ step = "refused" => IF Management THEN ~ManagementOK ELSE ~OptionsOK
    /\ step \in {"foreground"} \cup Past0 => OptionsOK /\ request = Request
    /\ step \in Past0 => Given("persist")

\* Of the values it matters only that a limit which is not zero is positive.
TypedInv == Given("wake_timeout") => typed["wake_timeout"] \in {"positive", "zero"}

DirsInv == /\ dirs.cwd \in Directories
           /\ \E n \in Nat : dirs.path \in [1..n -> Elements]
           /\ dirs.home \in Homes

SavedInv ==
    /\ step \in {"registered", "loaded", "unloadable"} =>
          DirsInv /\ saved = Encode(request, captureJobEnvironment(dirs))
    /\ step = "loaded" => loaded = saved
    /\ step = "unloadable" => ~Loadable(saved)

RequestInv == TypedInv /\ IsClock(clock) /\ StageInv /\ SavedInv

LEMMA ClockOf ==
    ASSUME NEW zone, IsZone(zone), Settled(zone), NEW now \in Int,
           NEW full \in BOOLEAN, NEW reading \in Int, ~full => reading \in 0..(Day - 1)
    PROVE  IsClock([zone |-> zone, now |-> now, at |-> Typed(full, reading)])
<1>. DEFINE at == Typed(full, reading)
<1>1. at.full = full /\ at.reading = reading
  BY DEF Typed
<1>. HIDE DEF at
<1>2. [zone |-> zone, now |-> now, at |-> at].at = Typed(at.full, at.reading)
  BY <1>1 DEF at
<1>. QED  BY <1>1, <1>2 DEF IsClock

LEMMA TodayIsClock == IsClock(TodayClock)
<1>. DEFINE zone == [offset |-> <<0>>, until |-> <<>>]
<1>1. /\ zone.until = <<>> /\ zone.until \in Seq(Int) /\ Len(zone.until) = 0
      /\ zone.offset = <<0>> /\ zone.offset \in Seq(Int) /\ Len(zone.offset) = 1
  OBVIOUS
<1>2. DOMAIN zone.offset = {1} /\ zone.offset[1] = 0
  BY <1>1
<1>3. IsZone(zone)
  BY <1>1, <1>2, ZoneAssumption DEF IsZone
<1>4. Settled(zone)
  BY <1>2 DEF Settled
<1>. HIDE DEF zone
<1>5. IsClock([zone |-> zone, now |-> 0, at |-> Typed(TRUE, 1)])
  <2>1. 0 \in Int /\ 1 \in Int /\ TRUE \in BOOLEAN /\ (~TRUE => 1 \in 0..(Day - 1))
    OBVIOUS
  <2>. QED  BY <1>3, <1>4, <2>1, ClockOf
<1>. QED  BY <1>5 DEF TodayClock, Zone, zone

LEMMA InitRequests == Init => RequestInv
<1>. SUFFICES ASSUME Init PROVE RequestInv
  OBVIOUS
<1>1. StageInv /\ SavedInv
  BY DEF Init, StageInv, SavedInv, Past0
<1>2. TypedInv
  <2>1. DOMAIN << >> = {}
    OBVIOUS
  <2>2. CASE typed = << >>
    BY <2>1, <2>2 DEF TypedInv, Given
  <2>3. CASE typed = [o \in {"at", "prompt"} |-> IF o = "at" THEN "time" ELSE "text"]
    BY <2>3 DEF TypedInv, Given
  <2>. QED  BY <2>2, <2>3 DEF Init
<1>3. IsClock(clock)
  <2>1. CASE clock = TodayClock
    BY <2>1, TodayIsClock
  <2>2. ASSUME NEW zone \in Zones, NEW now \in Moments, NEW r \in Readings,
               clock = [zone |-> zone, now |-> now, at |-> Typed(TRUE, r)]
        PROVE  IsClock(clock)
    BY <2>2, ClocksAssumption, ClockOf DEF Settled
  <2>3. ASSUME NEW zone \in Zones, NEW now \in Moments, NEW r \in 0..(Day - 1),
               clock = [zone |-> zone, now |-> now, at |-> Typed(FALSE, r)]
        PROVE  IsClock(clock)
    <3>1. r \in Int
      OBVIOUS
    <3>. QED  BY <2>3, <3>1, ClocksAssumption, ClockOf DEF Settled
  <2>. QED  BY <2>1, <2>2, <2>3 DEF Init
<1>. QED  BY <1>1, <1>2, <1>3 DEF RequestInv

\* What was typed decides what is made of it.
LEMMA SameOptions ==
    ASSUME UNCHANGED <<typed, clock>>
    PROVE  /\ OptionsOK' = OptionsOK /\ Request' = Request /\ Management' = Management
           /\ ManagementOK' = ManagementOK /\ Given("persist")' = Given("persist")
<1>. USE DEF Given, Is
<1>1. At' = At /\ PromptText' = PromptText /\ Console' = Console
  BY DEF At, PromptText, Console
<1>2. Management' = Management /\ ManagementOK' = ManagementOK
  BY DEF Management, ManagementOK
<1>3. Request' = Request
  BY <1>1 DEF Request
<1>4. /\ validatePersist' = validatePersist /\ validateWake' = validateWake
      /\ ResumeOK' = ResumeOK /\ PromptGiven' = PromptGiven
  BY DEF validatePersist, validateWake, ResumeOK, PromptGiven, Console
<1>5. OptionsOK' = OptionsOK
  BY <1>1, <1>4 DEF OptionsOK
<1>. QED  BY <1>2, <1>3, <1>5

LEMMA StepRequests == RequestInv /\ [Next]_vars => RequestInv'
<1>. SUFFICES ASSUME RequestInv, [Next]_vars PROVE RequestInv'
  OBVIOUS
<1>. USE DEF RequestInv
<1>1. ASSUME NEW o \in DOMAIN Values, NEW v \in Values[o], Type(o, v) PROVE RequestInv'
  <2>1. IsClock(clock)' /\ StageInv' /\ SavedInv'
    BY <1>1 DEF Type, IsClock, StageInv, SavedInv, Past0
  <2>2. TypedInv'
    <3>1. Values["wake_timeout"] = {"positive", "zero"}
      BY DEF Values
    <3>. QED  BY <1>1, <3>1 DEF Type, TypedInv, Given
  <2>. QED  BY <2>1, <2>2
<1>2. CASE parseOptions
  <2>1. TypedInv' /\ IsClock(clock)'
    BY <1>2 DEF parseOptions, TypedInv, Given, IsClock
  <2>3. StageInv' /\ SavedInv'
    BY <1>2, SameOptions DEF parseOptions, StageInv, SavedInv, Past0
  <2>. QED  BY <2>1, <2>3
<1>3. CASE register
  <2>1. TypedInv' /\ IsClock(clock)'
    BY <1>3 DEF register, TypedInv, Given, IsClock
  <2>2. StageInv'
    BY <1>3, SameOptions DEF register, StageInv, Past0
  <2>3. PICK cwd \in Directories, path \in SeqOf(Elements, MaxPath), home \in Homes, stray \in Strays :
            dirs' = [cwd |-> cwd, path |-> path, home |-> home, stray |-> stray]
    BY <1>3 DEF register
  <2>4. DirsInv'
    <3>1. PICK n \in 0..MaxPath : path \in [1..n -> Elements]
      BY ClocksAssumption DEF SeqOf
    <3>2. n \in Nat /\ Elements' = Elements
      BY <1>3, ClocksAssumption DEF register, Elements
    <3>. QED  BY <2>3, <3>1, <3>2 DEF DirsInv
  <2>5. SavedInv'
    BY <1>3, <2>4 DEF register, SavedInv
  <2>. QED  BY <2>1, <2>2, <2>5
<1>4. CASE load
  <2>1. TypedInv' /\ IsClock(clock)'
    BY <1>4 DEF load, TypedInv, Given, IsClock
  <2>2. StageInv'
    BY <1>4, SameOptions DEF load, StageInv, Past0
  <2>3. SavedInv'
    BY <1>4 DEF load, SavedInv, DirsInv, Elements
  <2>. QED  BY <2>1, <2>2, <2>3
<1>5. CASE UNCHANGED vars
  <2>1. TypedInv' /\ IsClock(clock)'
    BY <1>5 DEF vars, TypedInv, Given, IsClock
  <2>2. StageInv'
    BY <1>5, SameOptions DEF vars, StageInv
  <2>3. SavedInv'
    BY <1>5 DEF vars, SavedInv, DirsInv, Elements
  <2>. QED  BY <2>1, <2>2, <2>3
<1>. QED  BY <1>1, <1>2, <1>3, <1>4, <1>5 DEF Next

LEMMA RequestsHold == Spec => []RequestInv
<1>. QED  BY InitRequests, StepRequests, PTL DEF Spec

\* No instant that shows a reading is further from it than a year.
LEMMA ShownIsNear ==
    ASSUME NEW zone, IsZone(zone), NEW civil \in Int
    PROVE  {t \in civil - Year .. civil + Year : Local(zone, t) = civil} = Shown(zone, civil)
<1>. SUFFICES ASSUME NEW t \in Int, Local(zone, t) = civil
              PROVE  t \in civil - Year .. civil + Year
  BY ZoneAssumption DEF Shown
<1>1. Offset(zone, t) \in Int /\ -Year < Offset(zone, t) /\ Offset(zone, t) < Year
  BY OffsetType
<1>2. t + Offset(zone, t) = civil
  BY DEF Local
<1>. QED  BY <1>1, <1>2, ZoneAssumption

LEMMA AtIsParsed ==
    ASSUME IsClock(clock), Given("at")
    PROVE  /\ Civil(clock.zone, clock.now, clock.at) \in Int
           /\ \A t : t \in At <=>
                 /\ Shown(clock.zone, Civil(clock.zone, clock.now, clock.at)) = {t}
                 /\ t > clock.now
<1>1. /\ IsZone(clock.zone) /\ clock.now \in Int /\ clock.at.full \in BOOLEAN
      /\ clock.at.reading \in Int /\ clock.at = Typed(clock.at.full, clock.at.reading)
  BY DEF IsClock
<1>2. Civil(clock.zone, clock.now, clock.at) \in Int
  BY <1>1, CivilType
<1>3. At = parseAt(clock.zone, clock.now, clock.at)
  BY DEF At
<1>4. ASSUME NEW t
      PROVE  t \in parseAt(clock.zone, clock.now, clock.at) <=>
                 /\ Shown(clock.zone, Civil(clock.zone, clock.now, clock.at)) = {t}
                 /\ t > clock.now
  BY <1>1, ParseAtIsExact
<1>. QED  BY <1>2, <1>3, <1>4

\* A time that is accepted is the one instant at which the clocks show what was typed;
\* one that is refused has no such instant, or two, or is past (schedule.go:38-64).
THEOREM InstantIsUnique == Spec => []OneInstant
<1>. DEFINE c == Civil(clock.zone, clock.now, clock.at)
            shown == {t \in c - Year .. c + Year : Local(clock.zone, t) = c}
<1>1. ASSUME RequestInv PROVE OneInstant
  <2>. USE <1>1 DEF RequestInv
  <2>1. ASSUME Given("at")
        PROVE  shown \subseteq Int /\ \A t : t \in At <=> shown = {t} /\ t > clock.now
    <3>1. IsZone(clock.zone) /\ c \in Int
      BY <2>1, AtIsParsed DEF IsClock
    <3>2. shown = Shown(clock.zone, c)
      BY <3>1, ShownIsNear
    <3>3. shown \subseteq Int
      BY <3>2 DEF Shown
    <3>. QED  BY <2>1, <3>2, <3>3, AtIsParsed
  <2>2. ASSUME step = "foreground", Given("at")
        PROVE  shown = request.at /\ \A t \in shown : t > clock.now
    <3>1. request.at = At /\ At # {}
      <4>1. OptionsOK /\ request = Request
        BY <2>2 DEF StageInv
      <4>. QED  BY <4>1 DEF Request, OptionsOK
    <3>2. PICK t \in At : TRUE
      BY <3>1
    <3>3. shown = {t} /\ t > clock.now
      BY <2>1, <2>2, <3>2
    <3>4. \A u \in At : u = t
      BY <2>1, <2>2, <3>3
    <3>. QED  BY <3>1, <3>2, <3>3, <3>4
  <2>3. ASSUME step = "refused", typed = [at |-> "time", prompt |-> "text"]
        PROVE  Cardinality(shown) # 1 \/ \A t \in shown : t <= clock.now
    <3>1. DOMAIN typed = {"at", "prompt"} /\ typed["prompt"] = "text"
      BY <2>3
    <3>2. OptionsOK <=> At # {}
      <4>. USE <3>1 DEF Given, Is
      <4>1. validatePersist /\ validateWake /\ ResumeOK /\ PromptGiven /\ PromptText = "text"
        BY DEF validatePersist, validateWake, ResumeOK, PromptGiven, PromptText
      <4>. QED  BY <4>1 DEF OptionsOK
    <3>3. ~Management
      BY <3>1 DEF Management, Given
    <3>4. At = {}
      BY <2>3, <3>2, <3>3 DEF StageInv
    <3>5. SUFFICES ASSUME Cardinality(shown) = 1, NEW t \in shown, ~(t <= clock.now)
                   PROVE  FALSE
      OBVIOUS
    <3>6. shown \subseteq Int
      BY <2>1, <3>1 DEF Given
    <3>7. IsFiniteSet(shown)
      <4>1. c \in Int
        BY <3>1, AtIsParsed DEF Given
      <4>2. c - Year \in Int /\ c + Year \in Int
        BY <4>1, ZoneAssumption
      <4>3. IsFiniteSet(c - Year .. c + Year)
        BY <4>2, FS_Interval
      <4>4. shown \in SUBSET (c - Year .. c + Year)
        OBVIOUS
      <4>. HIDE DEF shown
      <4>. QED  BY <4>3, <4>4, FS_Subset
    <3>8. shown = {t}
      <4>. HIDE DEF shown
      <4>1. PICK x : shown = {x}
        BY <3>5, <3>7, FS_Singleton
      <4>. QED  BY <3>5, <4>1
    <3>9. clock.now \in Int
      BY DEF IsClock
    <3>. QED  BY <2>1, <3>1, <3>4, <3>5, <3>6, <3>8, <3>9 DEF Given
  <2>. QED  BY <2>2, <2>3 DEF OneInstant
<1>. QED  BY <1>1, RequestsHold, PTL

LEMMA DivMod ==
    ASSUME NEW a \in Int, NEW b \in Nat \ {0}
    PROVE  /\ a \div b \in Int /\ a % b \in Int /\ 0 <= a % b /\ a % b < b
           /\ a = b * (a \div b) + (a % b)
OBVIOUS

LEMMA FarApart ==
    ASSUME NEW b \in Nat \ {0}, NEW p \in Int, NEW q \in Int, p < q
    PROVE  b * p + b <= b * q
OBVIOUS

LEMMA ModUnique ==
    ASSUME NEW a \in Int, NEW b \in Nat \ {0}, NEW q \in Int, NEW r \in Int,
           0 <= r, r < b, a = b * q + r
    PROVE  a % b = r
<1>. DEFINE p == a \div b
            s == a % b
<1>1. p \in Int /\ s \in Int /\ 0 <= s /\ s < b /\ a = b * p + s
  BY DivMod
<1>. HIDE DEF p, s
<1>2. b * p \in Int /\ b * q \in Int
  BY <1>1
<1>3. ~(p < q) /\ ~(q < p)
  BY <1>1, <1>2, FarApart
<1>4. p = q
  BY <1>1, <1>3
<1>. QED  BY <1>1, <1>2, <1>4 DEF s

\* Later on the day's clock, or on a later day's, means at least a whole day later.
LEMMA WholeDays ==
    ASSUME NEW l \in Int, NEW c \in Int, l % Day = c % Day, l > c - Day, l # c
    PROVE  l >= c + Day
<1>. DEFINE p == l \div Day
            q == c \div Day
            r == c % Day
<1>1. p \in Int /\ q \in Int /\ r \in Int /\ l = Day * p + r /\ c = Day * q + r
  BY DivMod, ZoneAssumption
<1>. HIDE DEF p, q, r
<1>2. Day * p \in Int /\ Day * q \in Int /\ Day \in Int
  BY <1>1, ZoneAssumption
<1>3. p # q /\ ~(p < q)
  <2>1. p # q
    BY <1>1
  <2>2. p < q => Day * p + Day <= Day * q
    BY <1>1, FarApart, ZoneAssumption
  <2>. QED  BY <1>1, <1>2, <2>1, <2>2
<1>4. Day * q + Day <= Day * p
  BY <1>1, <1>3, FarApart, ZoneAssumption
<1>. QED  BY <1>1, <1>2, <1>4

LEMMA LaterOffset ==
    ASSUME NEW zone, IsZone(zone), Settled(zone), NEW s \in Int, NEW t \in Int, s < t
    PROVE  Offset(zone, s) - Offset(zone, t) <= Day
<1>. DEFINE i == 1 + Cardinality(Past(zone, s))
            j == 1 + Cardinality(Past(zone, t))
<1>1. /\ IsFiniteSet(Past(zone, s)) /\ i \in DOMAIN zone.offset
      /\ IsFiniteSet(Past(zone, t)) /\ j \in DOMAIN zone.offset
  BY PastCount
<1>2. Past(zone, s) \in SUBSET Past(zone, t)
  BY DEF Past, IsZone
<1>3. i <= j /\ i \in Int /\ j \in Int
  BY <1>1, <1>2, FS_Subset, FS_CardinalityType
<1>4. /\ Offset(zone, s) = zone.offset[i] /\ Offset(zone, s) \in Int
      /\ Offset(zone, t) = zone.offset[j] /\ Offset(zone, t) \in Int
  BY OffsetType DEF Offset, Past
<1>. HIDE DEF i, j
<1>5. CASE i = j
  BY <1>4, <1>5, ZoneAssumption
<1>6. CASE i < j
  BY <1>1, <1>4, <1>6 DEF Settled
<1>. QED  BY <1>3, <1>5, <1>6

\* The next reading of the day's clock.
LEMMA CivilIsNext ==
    ASSUME NEW zone, IsZone(zone), NEW now \in Int, NEW r \in 0..(Day - 1),
           NEW c, c = Civil(zone, now, Typed(FALSE, r))
    PROVE  c \in Int /\ c % Day = r /\ c - Day <= Local(zone, now)
<1>. DEFINE l == Local(zone, now)
            midnight == l - (l % Day)
            d == l \div Day
<1>1. Day \in Nat \ {0}
  BY ZoneAssumption
<1>2. l \in Int
  BY OffsetType DEF Local
<1>3. c = IF midnight + r > l THEN midnight + r ELSE midnight + r + Day
  BY DEF Civil, Typed
<1>. HIDE DEF l
<1>4. l % Day \in Int /\ 0 <= l % Day /\ l % Day < Day /\ l = Day * d + (l % Day) /\ d \in Int
  BY <1>1, <1>2, DivMod
<1>5. /\ midnight = Day * d /\ midnight \in Int /\ midnight <= l /\ l < midnight + Day
      /\ Day * (d + 1) = midnight + Day
  BY <1>1, <1>2, <1>4
<1>. HIDE DEF midnight, d
<1>. DEFINE today == midnight + r
            tomorrow == midnight + r + Day
<1>6. today % Day = r /\ today \in Int
  <2>1. today \in Int /\ r \in Int /\ 0 <= r /\ r < Day /\ today = Day * d + r
    BY <1>1, <1>5
  <2>. HIDE DEF today
  <2>. QED  BY <1>1, <1>4, <2>1, ModUnique
<1>7. tomorrow % Day = r /\ tomorrow \in Int
  <2>1. /\ tomorrow \in Int /\ r \in Int /\ 0 <= r /\ r < Day
        /\ tomorrow = Day * (d + 1) + r /\ d + 1 \in Int
    BY <1>1, <1>4, <1>5
  <2>. HIDE DEF tomorrow
  <2>. QED  BY <1>1, <2>1, ModUnique
<1>8. today - Day <= l /\ (~(today > l) => tomorrow - Day <= l)
  BY <1>1, <1>2, <1>5
<1>9. c = IF today > l THEN today ELSE tomorrow
  BY <1>3
<1>. HIDE DEF today, tomorrow
<1>. QED  BY <1>6, <1>7, <1>8, <1>9 DEF l

\* A time of day means the next time the clocks show it, unless they are put back before
\* (README.md:271-272; schedule.go:31-37).
THEOREM NextTime == Spec => []NextTimeOfDay
<1>1. ASSUME RequestInv PROVE NextTimeOfDay
  <2>. SUFFICES ASSUME step = "foreground", Given("at"), ~clock.at.full,
                       NEW at \in request.at, NEW t \in clock.now + 1 .. at - 1,
                       Local(clock.zone, t) % Day = clock.at.reading
                PROVE  \E s \in clock.now .. t - 1 : Local(clock.zone, s) >= Local(clock.zone, t)
    BY DEF NextTimeOfDay
  <2>. DEFINE zone == clock.zone
              now == clock.now
              r == clock.at.reading
              c == Civil(zone, now, clock.at)
  <2>1. /\ IsZone(zone) /\ Settled(zone) /\ now \in Int
        /\ r \in 0..(Day - 1) /\ clock.at = Typed(FALSE, r)
    BY <1>1 DEF RequestInv, IsClock
  <2>2. request.at = At
    <3>1. request = Request
      BY <1>1 DEF RequestInv, StageInv
    <3>. QED  BY <3>1 DEF Request
  <2>3. Shown(zone, c) = {at} /\ at > now
    BY <1>1, <2>2, AtIsParsed DEF RequestInv
  <2>4. at \in Int /\ Local(zone, at) = c
    BY <2>3 DEF Shown
  <2>5. c \in Int /\ c % Day = r /\ c - Day <= Local(zone, now)
    <3>. HIDE DEF zone, now, r
    <3>. QED  BY <2>1, CivilIsNext
  <2>6. t \in Int /\ now < t /\ t < at
    BY <2>1, <2>4
  <2>7. Local(zone, t) \in Int /\ Local(zone, now) \in Int
    BY <2>1, <2>6, OffsetType DEF Local
  <2>8. CASE Local(zone, t) <= Local(zone, now)
    BY <2>1, <2>6, <2>7, <2>8
  <2>9. CASE Local(zone, t) > Local(zone, now)
    <3>1. Local(zone, t) # c
      BY <2>3, <2>6 DEF Shown
    <3>2. Local(zone, t) > c - Day
      BY <2>5, <2>7, <2>9, ZoneAssumption
    <3>3. Local(zone, t) >= c + Day
      BY <2>1, <2>5, <2>7, <3>1, <3>2, WholeDays
    <3>4. Offset(zone, t) - Offset(zone, at) <= Day
      BY <2>1, <2>4, <2>6, LaterOffset
    <3>5. Offset(zone, t) \in Int /\ Offset(zone, at) \in Int
      BY <2>1, <2>4, <2>6, OffsetType
    <3>. QED  BY <2>4, <2>5, <2>6, <3>3, <3>4, <3>5, ZoneAssumption DEF Local
  <2>. QED  BY <2>7, <2>8, <2>9
<1>. QED  BY <1>1, RequestsHold, PTL

-----------------------------------------------------------------------------
(* The saved request. *)

\* Taking a list of single pieces apart and joining it again gives the same pieces.
LEMMA Joined ==
    ASSUME NEW n \in Nat, NEW x
    PROVE  FlattenSeq([i \in 1..n |-> <<x[i]>>]) = [i \in 1..n |-> x[i]]
<1>. DEFINE s == [i \in 1..n |-> <<x[i]>>]
            joined == [i \in 1..n |-> [k \in 1..i |-> x[k]]]
            F == CHOOSE f : f = [i \in 1..n |-> IF i = 1 THEN s[i] ELSE f[i-1] \o s[i]]
<1>1. Len(s) = n
  OBVIOUS
<1>2. CASE n = 0
  BY <1>1, <1>2 DEF FlattenSeq
<1>3. CASE n # 0
  <2>1. FlattenSeq(s) = F[n]
    <3>. HIDE DEF s
    <3>. QED  BY <1>1, <1>3 DEF FlattenSeq
  <2>2. \A i \in 1..n : i # 1 => joined[i] = joined[i - 1] \o s[i]
    <3>. SUFFICES ASSUME NEW i \in 1..n, i # 1 PROVE joined[i] = joined[i - 1] \o s[i]
      OBVIOUS
    <3>1. joined[i - 1] = [k \in 1..(i - 1) |-> x[k]] /\ s[i] = <<x[i]>>
      OBVIOUS
    <3>2. [k \in 1..(i - 1) |-> x[k]] \o <<x[i]>> = [k \in 1..i |-> x[k]]
      OBVIOUS
    <3>. QED  BY <3>1, <3>2
  <2>3. joined[1] = s[1]
    BY <1>3
  <2>4. joined = [i \in 1..n |-> IF i = 1 THEN s[i] ELSE joined[i-1] \o s[i]]
    BY <2>2, <2>3
  <2>5. F = [i \in 1..n |-> IF i = 1 THEN s[i] ELSE F[i-1] \o s[i]]
    <3>. HIDE DEF joined, s
    <3>. QED  BY <2>4
  <2>. DEFINE Wrong == {i \in 1..n : F[i] # joined[i]}
  <2>6. Wrong = {}
    <3>. SUFFICES ASSUME Wrong # {} PROVE FALSE
      OBVIOUS
    <3>1. PICK i \in Wrong : \A j \in Wrong : i <= j
      <4>1. Wrong \subseteq Nat
        OBVIOUS
      <4>. HIDE DEF Wrong
      <4>. QED  BY <4>1, Least
    <3>2. CASE i = 1
      BY <2>3, <2>5, <3>2
    <3>3. CASE i # 1
      <4>. HIDE DEF joined, F, s
      <4>1. i \in 1..n /\ i - 1 \in 1..n /\ i - 1 \notin Wrong
        BY <3>1, <3>3
      <4>2. F[i - 1] = joined[i - 1]
        BY <4>1
      <4>. QED  BY <2>2, <2>5, <3>3, <4>2
    <3>. QED  BY <3>2, <3>3
  <2>7. F[n] = joined[n]
    <3>. HIDE DEF joined, F
    <3>. QED  BY <1>3, <2>6
  <2>. QED  BY <2>1, <2>7, <1>3
<1>. QED  BY <1>2, <1>3

\* The text of an accepted request is written as it is.
LEMMA SavedRequest ==
    ASSUME NEW env, OptionsOK, request = Request
    PROVE  Encode(request, env).request = request
<1>1. JSON(request.prompt) = request.prompt
  BY DEF JSON, OptionsOK, Request
<1>2. JSON(request.resume) = request.resume
  BY DEF JSON, OptionsOK, ResumeOK, Is, Request
<1>3. JSON(request.wake_text) = request.wake_text
  BY DEF JSON, OptionsOK, validateWake, Is, Request
<1>4. [request EXCEPT !.prompt = request.prompt, !.resume = request.resume,
                      !.wake_text = request.wake_text] = request
  BY DEF Request
<1>. QED  BY <1>1, <1>2, <1>3, <1>4 DEF Encode

LEMMA PieceFields ==
    ASSUME NEW abs, NEW utf8, NEW name
    PROVE  /\ Piece(abs, utf8, name).abs = abs /\ Piece(abs, utf8, name).utf8 = utf8
           /\ Piece(abs, utf8, name).name = name
BY DEF Piece

\* An element that is not split is resolved as a directory is.
LEMMA ResolvedWhole ==
    ASSUME NEW cwd \in Directories, NEW p, Len(cwd) > 1 => p.abs
    PROVE  Resolve(cwd, <<p>>) = <<Whole(cwd, p)>>
<1>1. Head(<<p>>) = p /\ Tail(<<p>>) = << >>
  OBVIOUS
<1>2. CASE p.abs
  BY <1>1, <1>2 DEF Resolve, Whole
<1>3. CASE ~p.abs
  <2>1. PICK utf8 \in BOOLEAN : cwd = <<Piece(TRUE, utf8, <<"cwd">>)>>
    <3>1. ASSUME NEW a, NEW b, cwd = <<a, b>> PROVE FALSE
      <4>1. Len(<<a, b>>) > 1
        OBVIOUS
      <4>. QED  BY <1>3, <3>1, <4>1
    <3>2. ~\E abs \in BOOLEAN : cwd = <<Piece(TRUE, TRUE, <<"c">>), Piece(abs, TRUE, <<"wd">>)>>
      BY <3>1
    <3>. QED  BY <3>2 DEF Directories
  <2>. DEFINE d == Piece(TRUE, utf8, <<"cwd">>)
  <2>2. (d.abs <=> TRUE) /\ (d.utf8 <=> utf8) /\ d.name = <<"cwd">> /\ d.utf8 \in BOOLEAN
    BY DEF Piece
  <2>. HIDE DEF d
  <2>3. cwd = <<d>>
    BY <2>1 DEF d
  <2>4. Front(cwd) = << >> /\ Last(cwd) = d
    BY <2>3 DEF Front, Last
  <2>5. UTF8(cwd) <=> utf8
    BY <2>2, <2>3 DEF UTF8
  <2>6. (d.utf8 /\ p.utf8) = (p.utf8 /\ UTF8(cwd))
    BY <2>2, <2>5
  <2>7. Under(d, p) = Whole(cwd, p)
    BY <1>3, <2>2, <2>6 DEF Under, Whole
  <2>. QED  BY <1>1, <1>3, <2>4, <2>7 DEF Resolve
<1>. QED  BY <1>2, <1>3

\* PATH as it is saved, when no name splits an element of it.
LEMMA SavedPaths ==
    ASSUME DirsInv, ~Splits, NEW path, path = FoldedPath(dirs)
    PROVE  \E n \in Nat : /\ DOMAIN path = 1..n /\ Len(path) = n
                          /\ SavedPath(dirs.cwd, path) = [i \in 1..n |-> Whole(dirs.cwd, Head(path[i]))]
<1>1. PICK n \in Nat : path \in [1..n -> Elements \cup {<<Other>>}]
  <2>1. CASE "path" \in dirs.stray
    <3>1. path \in [1..1 -> {<<Other>>}]
      BY <2>1 DEF FoldedPath
    <3>. QED  BY <3>1
  <2>2. CASE "path" \notin dirs.stray
    BY <2>2 DEF FoldedPath, DirsInv
  <2>. QED  BY <2>1, <2>2
<1>2. ASSUME NEW i \in 1..n PROVE Resolve(dirs.cwd, path[i]) = <<Whole(dirs.cwd, Head(path[i]))>>
  <2>1. i \in DOMAIN path /\ path[i] \in Elements \cup {<<Other>>}
    BY <1>1
  <2>2. ~(Len(path[i]) > 1)
    BY <2>1 DEF Splits
  <2>3. PICK p \in {Abs, Odd, Rel, Other} : path[i] = <<p>>
    BY <2>1, <2>2 DEF Elements
  <2>4. Head(path[i]) = p
    BY <2>3
  <2>5. Len(dirs.cwd) > 1 => p.abs
    BY <2>1, <2>4 DEF Splits
  <2>. QED  BY <2>3, <2>4, <2>5, ResolvedWhole DEF DirsInv
<1>. DEFINE whole == [i \in 1..n |-> Whole(dirs.cwd, Head(path[i]))]
<1>3. [i \in DOMAIN path |-> Resolve(dirs.cwd, path[i])] = [i \in 1..n |-> <<whole[i]>>]
  BY <1>1, <1>2
<1>4. FlattenSeq([i \in 1..n |-> <<whole[i]>>]) = [i \in 1..n |-> whole[i]]
  <2>. HIDE DEF whole
  <2>. QED  BY Joined
<1>5. SavedPath(dirs.cwd, path) = whole
  BY <1>3, <1>4 DEF SavedPath
<1>. QED  BY <1>1, <1>5

\* A resolved piece is absolute, and what encoding/json makes of a piece is UTF-8.
LEMMA WholeIsAbsolute ==
    ASSUME NEW cwd, NEW p
    PROVE  JSONPiece(Whole(cwd, p)).abs /\ JSONPiece(Whole(cwd, p)).utf8
<1>1. Whole(cwd, p).abs
  BY PieceFields DEF Whole
<1>. DEFINE w == Whole(cwd, p)
<1>. HIDE DEF w
<1>2. w.abs
  BY <1>1 DEF w
<1>3. JSONPiece(w).abs /\ JSONPiece(w).utf8
  BY <1>2, PieceFields DEF JSONPiece
<1>. QED  BY <1>3 DEF w

\* The environment as it is saved.
LEMMA SavedEnvironment ==
    ASSUME DirsInv, ~Splits, NEW path, path = FoldedPath(dirs), NEW r,
           NEW env, env = Encode(r, captureJobEnvironment(dirs)).environment
    PROVE  /\ \E n \in Nat : /\ DOMAIN path = 1..n /\ Len(path) = n
                             /\ env.path = [i \in 1..n |-> JSONPiece(Whole(dirs.cwd, Head(path[i])))]
           /\ env.home = JSONPiece(Whole(dirs.cwd, FoldedHome(dirs)))
<1>1. PICK n \in Nat : /\ DOMAIN path = 1..n /\ Len(path) = n
                       /\ SavedPath(dirs.cwd, path) = [i \in 1..n |-> Whole(dirs.cwd, Head(path[i]))]
  BY SavedPaths
<1>. DEFINE all == SavedPath(dirs.cwd, path)
<1>2. /\ env.path = [i \in DOMAIN all |-> JSONPiece(all[i])]
      /\ env.home = JSONPiece(Whole(dirs.cwd, FoldedHome(dirs)))
  BY DEF Encode, captureJobEnvironment
<1>. QED  BY <1>1, <1>2

\* What is registered loads again when its time comes: the checks of the command line and
\* of load agree (main.go:88-185, persist.go:190-236).
THEOREM RegisteredLoads == Spec => []LoadsAgain
<1>1. ASSUME RequestInv PROVE LoadsAgain
  <2>. SUFFICES ASSUME step = "unloadable", ~Splits PROVE Loadable(saved)
    BY <1>1 DEF LoadsAgain, RequestInv, SavedInv
  <2>. DEFINE env == captureJobEnvironment(dirs)
  <2>1. OptionsOK /\ request = Request /\ Given("persist") /\ TypedInv
    BY <1>1 DEF RequestInv, StageInv, Past0
  <2>2. DirsInv /\ saved = Encode(request, env)
    BY <1>1 DEF RequestInv, SavedInv
  <2>3. saved.request = request
    BY <2>1, <2>2, SavedRequest
  <2>. DEFINE path == FoldedPath(dirs)
              got  == saved.environment
  <2>4. /\ \E n \in Nat : got.path = [i \in 1..n |-> JSONPiece(Whole(dirs.cwd, Head(path[i])))]
        /\ got.home = JSONPiece(Whole(dirs.cwd, FoldedHome(dirs)))
    BY <2>2, SavedEnvironment
  <2>5. \A i \in DOMAIN got.path : got.path[i].abs /\ got.path[i].utf8
    BY <2>4, WholeIsAbsolute
  <2>6. got.home.abs /\ got.home.utf8
    BY <2>4, WholeIsAbsolute
  <2>7. /\ request.at # {} /\ request.headless /\ ~request.console
        /\ request.prompt \notin {"blank", "bytes"}
    BY <2>1 DEF OptionsOK, Request, validatePersist
  <2>8. request.wake =>
            /\ request.resume = "" /\ request.add_dirs = {} /\ request.prompt = "wake text"
            /\ request.wake_timeout = "positive" /\ request.wake_text = "text"
    BY <2>1 DEF OptionsOK, Request, validateWake, TypedInv, PromptText, Is
  <2>9. ~request.wake /\ request.resume # "" =>
            /\ request.resume \notin {"dash", "blank", "line", "bytes"}
            /\ request.prompt = "resume"
    BY <2>1 DEF OptionsOK, Request, ResumeOK, PromptText, Is
  <2>. QED  BY <2>3, <2>5, <2>6, <2>7, <2>8, <2>9 DEF Loadable
<1>. QED  BY <1>1, RequestsHold, PTL

\* And what is loaded is what was typed: the same request, with every element of PATH in
\* its place and the home, as they were there and then; except for a name that splits
\* PATH, that is not UTF-8, or that a variable in another spelling replaced
\* (Requests.SameWhenLoaded; persist.go:54-86, 127-147, 161).
THEOREM LoadsTheSame == Spec => []SameWhenLoaded
<1>1. ASSUME RequestInv PROVE SameWhenLoaded
  <2>. DEFINE got == loaded.environment
  <2>. SUFFICES ASSUME step = "loaded", ~Splits
                PROVE  /\ loaded.request = request
                       /\ "path" \notin dirs.stray =>
                             /\ Len(got.path) = Len(dirs.path)
                             /\ \A i \in DOMAIN dirs.path : Same(got.path[i], Head(dirs.path[i]))
                       /\ "home" \notin dirs.stray => Same(got.home, dirs.home)
    BY DEF SameWhenLoaded
  <2>1. OptionsOK /\ request = Request
    BY <1>1 DEF RequestInv, StageInv, Past0
  <2>2. DirsInv /\ loaded = Encode(request, captureJobEnvironment(dirs))
    BY <1>1 DEF RequestInv, SavedInv
  <2>3. loaded.request = request
    BY <2>1, <2>2, SavedRequest
  <2>4. ASSUME NEW p PROVE Same(JSONPiece(Whole(dirs.cwd, p)), p)
    BY DEF Same, JSONPiece
  <2>5. PICK n \in Nat : /\ DOMAIN FoldedPath(dirs) = 1..n /\ Len(FoldedPath(dirs)) = n
                         /\ got.path = [i \in 1..n |-> JSONPiece(Whole(dirs.cwd, Head(FoldedPath(dirs)[i])))]
    BY <2>2, SavedEnvironment
  <2>6. got.home = JSONPiece(Whole(dirs.cwd, FoldedHome(dirs)))
    BY <2>2, SavedEnvironment
  <2>7. ASSUME "path" \notin dirs.stray
        PROVE  /\ Len(got.path) = Len(dirs.path)
               /\ \A i \in DOMAIN dirs.path : Same(got.path[i], Head(dirs.path[i]))
    <3>1. FoldedPath(dirs) = dirs.path
      BY <2>7 DEF FoldedPath
    <3>2. Len(got.path) = n
      BY <2>5
    <3>. QED  BY <2>4, <2>5, <3>1, <3>2
  <2>8. ASSUME "home" \notin dirs.stray PROVE Same(got.home, dirs.home)
    BY <2>4, <2>6, <2>8 DEF FoldedHome
  <2>. QED  BY <2>3, <2>7, <2>8
<1>. QED  BY <1>1, RequestsHold, PTL

=============================================================================
