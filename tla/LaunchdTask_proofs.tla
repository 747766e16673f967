-------------------------- MODULE LaunchdTask_proofs --------------------------
(***************************************************************************)
(* Theorems about the macOS backend, for every calendar: however many      *)
(* seconds a minute and minutes a year have, and whenever a job is due.    *)
(***************************************************************************)
EXTENDS LaunchdTask, TLAPS

ChildSteps == {"none", "guard", "asleep", "ready"}
Steps == {"new", "idle", "write", "bootstrap", "read", "print", "verify", "bootout", "unlink"}

\* Which operation is at which step.
CallInv ==
    /\ step \in {"new", "idle"} => caller = "none"
    /\ step \in {"write", "bootstrap"} => caller = "Create"
    /\ step \in {"read", "print"} => caller = "Read"
    /\ step \in {"verify", "bootout", "unlink"} => caller = "Delete"

NamesInv ==
    /\ plist \in PlistStates /\ child \in ChildSteps
    /\ record \in {"saved", "started", "cancelled", "gone"}
    /\ step \in Steps /\ come \in BOOLEAN
    /\ answer \in [to : {"none", "Create", "Read", "Delete"},
                   is : {"ok", "missing", "refused", "uncertain", "error", "none"}]

LEMMA CallStep == ASSUME NamesInv, CallInv, [Next]_vars PROVE NamesInv' /\ CallInv'
<1>. USE DEF NamesInv, CallInv, PlistStates, ChildSteps, Steps, clockVars, jobVars, callVars, NoAnswer
<1>1. CASE CallCreate \/ CallRead \/ CallDelete
  BY <1>1 DEF CallCreate, CallRead, CallDelete, Call
<1>2. CASE WritePlist
  BY <1>2 DEF WritePlist, Unwritable, Fails, Return, Go
<1>3. CASE Bootstrap
  BY <1>3 DEF Bootstrap, Fails, Return
<1>4. CASE ReadPlist("read", "print", "missing")
  BY <1>4 DEF ReadPlist, Fails, Return, Go
<1>5. CASE ReadPlist("verify", "bootout", "error")
  BY <1>5 DEF ReadPlist, Fails, Return, Go
<1>6. CASE PrintService
  BY <1>6 DEF PrintService, Fails, Return
<1>7. CASE Bootout
  BY <1>7 DEF Bootout, Fails, Return, Go, Unload
<1>8. CASE RemovePlist
  BY <1>8 DEF RemovePlist, Fails, Return
<1>9. CASE StartChild \/ WakeUp
  BY <1>9 DEF StartChild, WakeUp
<1>10. CASE Guard
  BY <1>10 DEF Guard, ChildEnds
<1>11. CASE Run
  BY <1>11 DEF Run, ChildEnds
<1>12. CASE TimePasses \/ ClockSetBack
  <2>1. come' \in BOOLEAN
    <3>1. CASE TimePasses
      <4>1. come' = (come \/ now' >= at)
        BY <3>1 DEF TimePasses
      <4>. QED  BY <4>1
    <3>2. CASE ClockSetBack
      BY <3>2 DEF ClockSetBack
    <3>. QED  BY <1>12, <3>1, <3>2
  <2>. QED  BY <1>12, <2>1 DEF TimePasses, ClockSetBack
<1>13. CASE Logout \/ Login
  BY <1>13 DEF Logout, Login, CutShort, Unload, Load
<1>14. CASE Killed \/ Settle
  BY <1>14 DEF Killed, Settle, CutShort
<1>15. CASE Interfere
  BY <1>15 DEF Interfere, Unload
<1>16. CASE UNCHANGED vars
  BY <1>16 DEF vars
<1>. QED  BY <1>1, <1>2, <1>3, <1>4, <1>5, <1>6, <1>7, <1>8, <1>9, <1>10, <1>11, <1>12, <1>13, <1>14,
             <1>15, <1>16 DEF Next, Work, Child

-----------------------------------------------------------------------------
(* The guard *)

\* A child that is past the guard has the guard's word that this is the year.
GuardInv ==
    /\ now \in Nat /\ at \in Times /\ launch \in [at : Nat, guard : Nat]
    /\ child \in {"asleep", "ready"} /\ launch.at = 0 => Year(launch.guard) = Year(at)
    /\ launch.at # 0 => launch.at >= at /\ Year(launch.guard) = Year(at)

LEMMA GuardStep == ASSUME GuardInv, [Next]_vars PROVE GuardInv'
<1>. USE CalendarAssumption DEF GuardInv, clockVars, jobVars, callVars
<1>1. CASE CallCreate \/ CallRead \/ CallDelete
  BY <1>1 DEF CallCreate, CallRead, CallDelete, Call
<1>2. CASE Work
  <2>1. UNCHANGED <<clockVars, launch>> /\ child' \in {child, "none"}
    BY <1>2 DEF Work, WritePlist, Bootstrap, ReadPlist, PrintService, Bootout, RemovePlist, Unload
  <2>. QED  BY <2>1
<1>3. CASE StartChild \/ WakeUp
  BY <1>3 DEF StartChild, WakeUp
<1>4. CASE Guard
  <2>1. CASE child' = "none" /\ UNCHANGED launch
    BY <1>4, <2>1 DEF Guard
  <2>2. CASE Dispatch(now) # "skip" /\ launch' = [launch EXCEPT !.guard = IF launch.at = 0 THEN now ELSE @]
    <3>1. Year(now) = Year(at)
      BY <2>2 DEF Dispatch
    <3>. QED  BY <1>4, <2>2, <3>1 DEF Guard
  <2>. QED  BY <1>4, <2>1, <2>2 DEF Guard, ChildEnds
<1>5. CASE Run
  <2>1. at \in Nat /\ at > 0
    BY DEF GuardInv
  <2>. QED  BY <1>5, <2>1 DEF Run, ChildEnds
<1>6. CASE TimePasses
  BY <1>6 DEF TimePasses
<1>7. CASE ClockSetBack
  BY <1>7 DEF ClockSetBack
<1>8. CASE Logout \/ Login
  BY <1>8 DEF Logout, Login, Unload, Load
<1>9. CASE Killed \/ Settle
  BY <1>9 DEF Killed, Settle
<1>10. CASE Interfere
  BY <1>10 DEF Interfere, Unload
<1>11. CASE UNCHANGED vars
  BY <1>11 DEF vars
<1>. QED  BY <1>1, <1>2, <1>3, <1>4, <1>5, <1>6, <1>7, <1>8, <1>9, <1>10, <1>11 DEF Next, Child

\* However often launchd starts the child, in whatever year, the agent is launched at its
\* time or later, on the word of a guard that ran in the calendar year of that time
\* (preparePersistentDispatch, persist_dispatch_darwin.go:11-23).
THEOREM YearIsGuarded == Spec => []InItsTimeAndYear
<1>1. Init => GuardInv
  BY DEF Init, GuardInv, NoLaunch
<1>2. GuardInv /\ [Next]_vars => GuardInv'
  BY GuardStep
<1>3. GuardInv => InItsTimeAndYear
  BY DEF GuardInv, InItsTimeAndYear
<1>. QED  BY <1>1, <1>2, <1>3, PTL DEF Spec

-----------------------------------------------------------------------------
(* The plist and the job *)

\* Until its plist is written there is no job; the file that Delete removes is the one it
\* verified, and its job is unloaded then.
PlistInv ==
    /\ step \in {"new", "write"} => plist \in {"none", "foreign"} /\ ~loaded
    /\ step \in {"bootstrap", "print", "bootout", "unlink"} => plist = "exact"
    /\ step = "unlink" => ~loaded /\ gui
    /\ loaded => gui

\* Before the time a loaded job is armed for it.
TimedInv ==
    /\ timed => loaded
    /\ loaded /\ ~come => timed

\* What the Boolean equations of the model come to.
LEMMA LoadFacts == ASSUME Load PROVE loaded' /\ (timed' <=> ~come)
<1>1. loaded' = TRUE
  BY DEF Load
<1>2. timed' = ~come
  BY DEF Load
<1>. QED  BY <1>1, <1>2
LEMMA ChildEndsFacts == ASSUME ChildEnds PROVE timed' <=> (timed /\ ~come)
<1>1. timed' = (timed /\ ~come)
  BY DEF ChildEnds
<1>. QED  BY <1>1
LEMMA TimeFacts == ASSUME TimePasses PROVE come => come'
<1>1. come' = (come \/ now' >= at)
  BY DEF TimePasses
<1>. QED  BY <1>1

TaskInv == NamesInv /\ CallInv /\ PlistInv /\ TimedInv

LEMMA TaskStep == ASSUME TaskInv, [Next]_vars PROVE PlistInv' /\ TimedInv'
<1>. USE DEF TaskInv, NamesInv, PlistStates, CallInv, PlistInv, TimedInv, clockVars, jobVars, callVars
<1>1. CASE CallCreate \/ CallRead \/ CallDelete
  BY <1>1 DEF CallCreate, CallRead, CallDelete, Call
<1>2. CASE WritePlist
  BY <1>2 DEF WritePlist, Unwritable, Fails, Return, Go
<1>3. CASE Bootstrap
  BY <1>3, LoadFacts DEF Bootstrap, Fails, Return
<1>4. CASE ReadPlist("read", "print", "missing")
  BY <1>4 DEF ReadPlist, Fails, Return, Go
<1>5. CASE ReadPlist("verify", "bootout", "error")
  BY <1>5 DEF ReadPlist, Fails, Return, Go
<1>6. CASE PrintService
  BY <1>6 DEF PrintService, Fails, Return
<1>7. CASE Bootout
  BY <1>7 DEF Bootout, Fails, Return, Go, Unload
<1>8. CASE RemovePlist
  BY <1>8 DEF RemovePlist, Fails, Return
<1>9. CASE StartChild \/ WakeUp
  BY <1>9 DEF StartChild, WakeUp
<1>10. CASE Guard
  BY <1>10 DEF Guard, ChildEnds
<1>11. CASE Run
  BY <1>11 DEF Run, ChildEnds
<1>12. CASE TimePasses \/ ClockSetBack
  BY <1>12, TimeFacts DEF TimePasses, ClockSetBack
<1>13. CASE Logout \/ Login
  <2>1. CASE Logout
    BY <2>1 DEF Logout, CutShort, Unload
  <2>2. CASE Login /\ Load
    BY <2>2, LoadFacts DEF Login
  <2>3. CASE Login /\ UNCHANGED <<loaded, timed>>
    BY <2>3 DEF Login
  <2>. QED  BY <1>13, <2>1, <2>2, <2>3 DEF Login
<1>14. CASE Killed \/ Settle
  BY <1>14 DEF Killed, Settle, CutShort
<1>15. CASE Interfere
  BY <1>15 DEF Interfere, Unload
<1>16. CASE UNCHANGED vars
  BY <1>16 DEF vars
<1>. QED  BY <1>1, <1>2, <1>3, <1>4, <1>5, <1>6, <1>7, <1>8, <1>9, <1>10, <1>11, <1>12, <1>13, <1>14,
             <1>15, <1>16 DEF Next, Work, Child

LEMMA TaskInvariance == Spec => []TaskInv
<1>1. Init => TaskInv
  <2>1. Init => come \in BOOLEAN
    BY DEF Init
  <2>. QED  BY <2>1 DEF Init, TaskInv, NamesInv, PlistStates, ChildSteps, Steps, CallInv, PlistInv, TimedInv, NoAnswer
<1>2. TaskInv /\ [Next]_vars => TaskInv'
  BY CallStep, TaskStep DEF TaskInv
<1>. QED  BY <1>1, <1>2, PTL DEF Spec

\* Delete never removes a plist that another wrote, or that was changed after Create wrote
\* it: it removes what it verified two steps before (persist_task_launchd.go:73-98).
THEOREM OthersAreKept == Spec => OthersKept
<1>1. ASSUME TaskInv, Next, plist \in {"changed", "foreign"}
      PROVE  UNCHANGED plist
  <2>. USE <1>1 DEF TaskInv, PlistInv
  <2>1. CASE CallCreate \/ CallRead \/ CallDelete
    BY <2>1 DEF CallCreate, CallRead, CallDelete, Call
  <2>2. CASE Work
    BY <2>2 DEF Work, WritePlist, Bootstrap, ReadPlist, PrintService, Bootout, RemovePlist
  <2>3. CASE Child
    BY <2>3 DEF Child, StartChild, Guard, WakeUp, Run
  <2>4. CASE TimePasses \/ ClockSetBack \/ Logout \/ Login \/ Killed \/ Interfere \/ Settle
    BY <2>4 DEF TimePasses, ClockSetBack, Logout, Login, Killed, Interfere, Settle
  <2>. QED  BY <2>1, <2>2, <2>3, <2>4 DEF Next
<1>2. TaskInv /\ [Next]_vars => [(plist \in {"changed", "foreign"}) => UNCHANGED plist]_vars
  BY <1>1
<1>. QED  BY <1>2, TaskInvariance, PTL DEF Spec, OthersKept

-----------------------------------------------------------------------------
(* The contract of a backend *)

\* A step of an operation is one of the contract's: it moves the task as that operation
\* may, and either goes on or answers what fits.
LEMMA WorkKeepsContract ==
    ASSUME TaskInv, Work
    PROVE  Contract!Work \/ UNCHANGED Contract!cvars
<1>. USE DEF TaskInv, NamesInv, PlistStates, CallInv, PlistInv, TimedInv, clockVars, jobVars, callVars,
             task, Contract!Work, Contract!Operations, Contract!Return, Contract!Verdicts, Contract!Fits,
             Contract!Moves, Contract!cvars
<1>1. CASE WritePlist
  BY <1>1 DEF WritePlist, Unwritable, Fails, Return, Go, Contract!Creating
<1>2. CASE Bootstrap
  BY <1>2, LoadFacts DEF Bootstrap, Fails, Return, Contract!Creating
<1>3. CASE ReadPlist("read", "print", "missing")
  BY <1>3 DEF ReadPlist, Fails, Return, Go
<1>4. CASE ReadPlist("verify", "bootout", "error")
  BY <1>4 DEF ReadPlist, Fails, Return, Go, Contract!Deleting
<1>5. CASE PrintService
  BY <1>5 DEF PrintService, Fails, Return
<1>6. CASE Bootout
  BY <1>6 DEF Bootout, Fails, Return, Go, Unload, Contract!Deleting, Contract!Down
<1>7. CASE RemovePlist
  BY <1>7 DEF RemovePlist, Fails, Return, Contract!Deleting
<1>. QED  BY <1>1, <1>2, <1>3, <1>4, <1>5, <1>6, <1>7 DEF Work

LEMMA WorldKeepsContract ==
    ASSUME TaskInv, Next, ~Work
    PROVE  Contract!Next \/ UNCHANGED Contract!cvars
<1>. USE DEF TaskInv, NamesInv, PlistStates, CallInv, PlistInv, TimedInv, clockVars, jobVars, callVars,
             task, Contract!cvars, Contract!Next
<1>1. CASE CallCreate \/ CallRead \/ CallDelete
  BY <1>1 DEF CallCreate, CallRead, CallDelete, Call, NoAnswer,
              Contract!Call, Contract!Operations, Contract!NoAnswer
<1>2. CASE StartChild \/ WakeUp
  BY <1>2 DEF StartChild, WakeUp
<1>3. CASE Guard \/ Run
  <2>1. CASE UNCHANGED timed
    BY <1>3, <2>1 DEF Guard, Run, ChildEnds
  <2>2. CASE ChildEnds
    BY <1>3, <2>2, ChildEndsFacts DEF Guard, Run, Contract!Fire
  <2>. QED  BY <1>3, <2>1, <2>2 DEF Guard, Run
<1>4. CASE TimePasses
  <2>1. UNCHANGED <<timed, plist, loaded, caller, answer>>
    BY <1>4 DEF TimePasses
  <2>2. come' \in BOOLEAN
    <3>1. come' = (come \/ now' >= at)
      BY <1>4 DEF TimePasses
    <3>. QED  BY <3>1
  <2>3. CASE come' = TRUE
    BY <2>1, <2>3 DEF Contract!TimePasses
  <2>4. CASE come' = FALSE
    <3>1. ~come
      BY <1>4, <2>4, TimeFacts
    <3>. QED  BY <2>1, <2>4, <3>1
  <2>. QED  BY <2>2, <2>3, <2>4
<1>5. CASE ClockSetBack \/ Settle
  BY <1>5 DEF ClockSetBack, Settle
<1>6. CASE Logout \/ Killed
  BY <1>6 DEF Logout, Killed, CutShort, Unload, NoAnswer,
              Contract!Cut, Contract!GoesDown, Contract!Down, Contract!NoAnswer
<1>7. CASE Login
  BY <1>7 DEF Login, Load, Contract!Boot
<1>8. CASE Interfere
  BY <1>8 DEF Interfere, Unload, Contract!SwitchOff, Contract!GoesDown, Contract!Down
<1>. QED  BY <1>1, <1>2, <1>3, <1>4, <1>5, <1>6, <1>7, <1>8 DEF Next, Child

\* The macOS backend implements what the job store relies on, whatever launchctl, the disk,
\* a kill or the user does between the plist and the job (persist_task_launchd.go:38-98).
THEOREM ContractIsKept == Spec => KeepsContract
<1>1. Init => Contract!Init
  BY DEF Init, Contract!Init, Contract!NoAnswer, NoAnswer, task
<1>2. TaskInv /\ [Next]_vars => [Contract!Next]_(Contract!cvars)
  <2>1. CASE UNCHANGED vars
    BY <2>1 DEF vars, clockVars, jobVars, callVars, Contract!cvars, task
  <2>. QED  BY <2>1, WorkKeepsContract, WorldKeepsContract DEF Contract!Next
<1>. QED  BY <1>1, <1>2, TaskInvariance, PTL DEF Spec, KeepsContract, Contract!Spec

-----------------------------------------------------------------------------
(* The type invariant *)

LEMMA DivMod ==
    ASSUME NEW a \in Nat, NEW b \in Nat \ {0}
    PROVE  a \div b \in Nat /\ a % b \in Nat /\ a % b < b /\ a = b * (a \div b) + (a % b)
OBVIOUS

LEMMA DivUnique ==
    ASSUME NEW a \in Nat, NEW b \in Nat \ {0}, NEW q \in Nat, NEW r \in Nat, r < b, a = b * q + r
    PROVE  a \div b = q
OBVIOUS

LEMMA MulMono == ASSUME NEW s \in Nat, NEW u \in Nat, NEW m \in Nat, u + 1 <= m
  PROVE  s * u + s <= s * m
OBVIOUS

\* A quotient of a quotient.
LEMMA DivDiv ==
    ASSUME NEW x \in Nat, NEW s \in Nat \ {0}, NEW m \in Nat \ {0}
    PROVE  x \div (s * m) = (x \div s) \div m
<1>. DEFINE q == x \div s
           r == x % s
           p == q \div m
           u == q % m
<1>1. q \in Nat /\ r \in Nat /\ r < s /\ x = s * q + r
  BY DivMod
<1>2. p \in Nat /\ u \in Nat /\ u < m /\ q = m * p + u
  BY <1>1, DivMod
<1>. HIDE DEF q, r, p, u
<1>3. s * q = (s * m) * p + s * u
  BY <1>1, <1>2
<1>4. s * u + s <= s * m
  BY <1>2, MulMono
<1>5. s * m \in Nat \ {0} /\ s * u \in Nat
  BY <1>2
<1>6. s * u + r \in Nat /\ s * u + r < s * m /\ x = (s * m) * p + (s * u + r)
  BY <1>1, <1>2, <1>3, <1>4, <1>5
<1>7. x \div (s * m) = p
  <2>. DEFINE k == s * m
             w == s * u + r
  <2>1. k \in Nat \ {0} /\ w \in Nat /\ w < k /\ x = k * p + w
    BY <1>5, <1>6
  <2>. HIDE DEF k, w
  <2>2. x \div k = p
    BY <2>1, <1>2, DivUnique
  <2>. QED  BY <2>2 DEF k
<1>. QED  BY <1>7 DEF p, q

\* Two instants of the same minute of the same year are less than a minute apart.
LEMMA SameMinute ==
    ASSUME NEW x \in Nat, NEW y \in Nat, NEW s \in Nat \ {0}, NEW m \in Nat \ {0}, x < y,
           x \div (s * m) = y \div (s * m), (x \div s) % m = (y \div s) % m
    PROVE  y - x < s
<1>. DEFINE qx == x \div s
           qy == y \div s
<1>1. qx \in Nat /\ qy \in Nat
  BY DivMod
<1>2. qx \div m = qy \div m /\ qx % m = qy % m
  BY DivDiv
<1>3. qx = qy
  <2>. HIDE DEF qx, qy
  <2>. QED  BY <1>1, <1>2, DivMod
<1>4. x = s * qx + (x % s) /\ y = s * qy + (y % s)
  BY DivMod
<1>5. x % s \in Nat /\ y % s \in Nat /\ y % s < s
  BY DivMod
<1>6. s * qx \in Nat
  BY <1>1
<1>. HIDE DEF qx, qy
<1>. QED  BY <1>3, <1>4, <1>5, <1>6

\* A child that waits for its time sleeps less than a minute.
LEMMA WaitIsShort ==
    ASSUME now \in Nat, at \in Times, Dispatch(now) = "wait"
    PROVE  at - now \in 0..SecondsPerMinute
<1>1. at \in Nat /\ now < at /\ Year(now) = Year(at) /\ Minute(now) = Minute(at)
  BY CalendarAssumption DEF Dispatch
<1>2. at - now < SecondsPerMinute
  BY <1>1, SameMinute, CalendarAssumption DEF Year, Minute
<1>. QED  BY <1>1, <1>2, CalendarAssumption

ClockInv ==
    /\ now \in 0..Horizon /\ at \in Times /\ left \in 0..SecondsPerMinute
    /\ launch \in [at : 0..Horizon, guard : 0..Horizon]

LEMMA ClockStep == ASSUME ClockInv, [Next]_vars PROVE ClockInv'
<1>. USE CalendarAssumption DEF ClockInv, clockVars, jobVars, callVars
<1>1. CASE CallCreate \/ CallRead \/ CallDelete
  BY <1>1 DEF CallCreate, CallRead, CallDelete, Call
<1>2. CASE Work
  <2>1. UNCHANGED <<clockVars, launch>> /\ left' \in {left, 0}
    BY <1>2 DEF Work, WritePlist, Bootstrap, ReadPlist, PrintService, Bootout, RemovePlist, Unload
  <2>. QED  BY <2>1
<1>3. CASE StartChild \/ WakeUp
  BY <1>3 DEF StartChild, WakeUp
<1>4. CASE Guard
  <2>1. left' \in 0..SecondsPerMinute
    BY <1>4, WaitIsShort DEF Guard, ChildEnds
  <2>. QED  BY <1>4, <2>1 DEF Guard, ChildEnds
<1>5. CASE Run
  BY <1>5 DEF Run, ChildEnds
<1>6. CASE TimePasses
  BY <1>6 DEF TimePasses
<1>7. CASE ClockSetBack
  BY <1>7 DEF ClockSetBack
<1>8. CASE Logout \/ Login
  BY <1>8 DEF Logout, Login, Unload, Load
<1>9. CASE Killed \/ Settle
  BY <1>9 DEF Killed, Settle
<1>10. CASE Interfere
  BY <1>10 DEF Interfere, Unload
<1>11. CASE UNCHANGED vars
  BY <1>11 DEF vars
<1>. QED  BY <1>1, <1>2, <1>3, <1>4, <1>5, <1>6, <1>7, <1>8, <1>9, <1>10, <1>11 DEF Next, Child

FlagsInv ==
    /\ gui \in BOOLEAN /\ loaded \in BOOLEAN /\ pending \in BOOLEAN
    /\ timed \in BOOLEAN /\ setBack \in BOOLEAN /\ calm \in BOOLEAN

LEMMA FlagsStep == ASSUME FlagsInv, [Next]_vars PROVE FlagsInv'
<1>. USE DEF FlagsInv, clockVars, jobVars, callVars
<1>1. ASSUME Load PROVE loaded' \in BOOLEAN /\ pending' \in BOOLEAN /\ timed' \in BOOLEAN
  <2>1. timed' = ~come
    BY <1>1 DEF Load
  <2>. QED  BY <1>1, <2>1 DEF Load
<1>2. ASSUME Unload PROVE loaded' \in BOOLEAN /\ pending' \in BOOLEAN /\ timed' \in BOOLEAN
  BY <1>2 DEF Unload
<1>3. ASSUME ChildEnds PROVE timed' \in BOOLEAN
  <2>1. timed' = (timed /\ ~come)
    BY <1>3 DEF ChildEnds
  <2>. QED  BY <2>1
<1>4. CASE CallCreate \/ CallRead \/ CallDelete
  BY <1>4 DEF CallCreate, CallRead, CallDelete, Call
<1>5. CASE WritePlist \/ PrintService \/ RemovePlist
  BY <1>5 DEF WritePlist, PrintService, RemovePlist
<1>6. CASE ReadPlist("read", "print", "missing") \/ ReadPlist("verify", "bootout", "error")
  BY <1>6 DEF ReadPlist
<1>7. CASE Bootstrap
  BY <1>7, <1>1 DEF Bootstrap
<1>8. CASE Bootout
  BY <1>8, <1>2 DEF Bootout
<1>9. CASE StartChild
  BY <1>9 DEF StartChild
<1>10. CASE WakeUp
  BY <1>10 DEF WakeUp
<1>11. CASE Guard
  BY <1>11, <1>3 DEF Guard
<1>12. CASE Run
  BY <1>12, <1>3 DEF Run
<1>13. CASE TimePasses
  <2>1. pending' = (pending \/ (loaded /\ Comes(now')))
    BY <1>13 DEF TimePasses
  <2>2. pending' \in BOOLEAN
    BY <2>1
  <2>. QED  BY <1>13, <2>2 DEF TimePasses
<1>14. CASE ClockSetBack
  BY <1>14 DEF ClockSetBack
<1>15. CASE Logout
  BY <1>15, <1>2 DEF Logout
<1>16. CASE Login
  BY <1>16, <1>1 DEF Login
<1>17. CASE Killed \/ Settle
  BY <1>17 DEF Killed, Settle
<1>18. CASE Interfere
  BY <1>18, <1>2 DEF Interfere
<1>19. CASE UNCHANGED vars
  BY <1>19 DEF vars
<1>. QED  BY <1>4, <1>5, <1>6, <1>7, <1>8, <1>9, <1>10, <1>11, <1>12, <1>13, <1>14, <1>15, <1>16,
             <1>17, <1>18, <1>19 DEF Next, Work, Child

\* Every variable of the macOS backend keeps its type; in particular the guard never lets
\* a child sleep for longer than a minute (persist_task_launchd.go:245-270).
THEOREM TypeCorrect == Spec => []TypeOK
<1>1. Init => ClockInv /\ FlagsInv
  <2>1. Init => ClockInv
    BY CalendarAssumption DEF Init, ClockInv, NoLaunch
  <2>2. Init => FlagsInv
    BY DEF Init, FlagsInv
  <2>. QED  BY <2>1, <2>2
<1>2. ClockInv /\ FlagsInv /\ [Next]_vars => ClockInv' /\ FlagsInv'
  BY ClockStep, FlagsStep
<1>3. TaskInv /\ ClockInv /\ FlagsInv => TypeOK
  <2>. SUFFICES ASSUME TaskInv, ClockInv, FlagsInv PROVE TypeOK
    OBVIOUS
  <2>1. caller \in {"none", "Create", "Read", "Delete"}
    BY DEF TaskInv, NamesInv, CallInv, Steps
  <2>2. come \in BOOLEAN
    BY DEF TaskInv, NamesInv
  <2>3. gui \in BOOLEAN /\ loaded \in BOOLEAN /\ pending \in BOOLEAN /\ timed \in BOOLEAN
        /\ setBack \in BOOLEAN /\ calm \in BOOLEAN
    BY DEF FlagsInv
  <2>. QED  BY <2>1, <2>2, <2>3 DEF TaskInv, NamesInv, ClockInv, ChildSteps, Steps, TypeOK
<1>. QED  BY <1>1, <1>2, <1>3, TaskInvariance, PTL DEF Spec

\* What the macOS backend has refused for certain, or deleted, does not come back: the job
\* store may remove the payload on the strength of its answer (persist_task_launchd.go:38-98).
THEOREM GoneIsGone == Spec => []Contract!GoneStaysGone
BY ContractIsKept, Contract!GoneIsGone DEF KeepsContract

\* Its trigger fires once: when the time has come and the task is not armed, nothing arms it
\* again.
THEOREM OneStart == Spec => Contract!FiresOnce
BY ContractIsKept, Contract!OneStart DEF KeepsContract

===============================================================================
