----------------------------- MODULE LaunchdTask -----------------------------
(***************************************************************************)
(* The macOS scheduler backend (persist_task_launchd.go) and the guard     *)
(* every child passes (persist_dispatch_darwin.go).  A task is a plist in  *)
(* the user's LaunchAgents and the job launchd made of it.  launchd starts *)
(* the job when it loads it and whenever the minute of the calendar comes  *)
(* round, every year; the guard turns that into one run at its time.       *)
(*                                                                         *)
(* The calendar is small: an instant is a number, SecondsPerMinute of them *)
(* make a minute and MinutesPerYear minutes a year.                        *)
(***************************************************************************)
EXTENDS Naturals

CONSTANTS
    SecondsPerMinute, MinutesPerYear,
    Horizon,            \* the last instant of the clock: a bound
    Times               \* the instants a job may be scheduled for

ASSUME CalendarAssumption ==
    /\ SecondsPerMinute \in Nat \ {0} /\ MinutesPerYear \in Nat \ {0}
    /\ Horizon \in Nat
    /\ Times \subseteq 1..Horizon

VARIABLES
    now,        \* the wall clock
    at,         \* spec.At
    gui,        \* the user's GUI login domain exists
    plist,      \* the plist file
    loaded,     \* the job is loaded in that domain
    pending,    \* launchd is to start it
    child,      \* the child: "none", "guard", "asleep" or "ready"
    left,       \* how long it still sleeps, by the monotonic clock
    record,     \* the job directory, as far as a child looks at it
    step, caller, answer,   \* as in SystemdTask
    calm,       \* from now on nothing fails, and nobody interferes
    \* History, read by the refinement and the properties alone.
    come,       \* the time has come, whatever the clock says now
    timed,      \* loaded before the time, and not started since it came
    setBack,    \* the clock was set back
    launch      \* the instant the agent was launched, and the guard's clock

clockVars == <<now, at, come, setBack>>
jobVars   == <<gui, loaded, pending, child, left, timed>>
callVars  == <<step, caller, answer>>
vars == <<clockVars, jobVars, callVars, plist, record, calm, launch>>

PlistStates == {"none", "exact", "partial", "changed", "foreign"}
NoAnswer    == [to |-> "none", is |-> "none"]
NoLaunch    == [at |-> 0, guard |-> 0]

Year(t)   == t \div (SecondsPerMinute * MinutesPerYear)
Minute(t) == (t \div SecondsPerMinute) % MinutesPerYear
Second(t) == t % SecondsPerMinute

Init ==
    /\ now = 0 /\ at \in Times
    /\ gui = TRUE
    /\ plist \in {"none", "foreign"}
    /\ loaded = FALSE /\ pending = FALSE /\ child = "none" /\ left = 0
    /\ record = "saved"
    /\ step = "new" /\ caller = "none" /\ answer = NoAnswer
    /\ calm = FALSE
    /\ come = FALSE /\ timed = FALSE /\ setBack = FALSE /\ launch = NoLaunch

-----------------------------------------------------------------------------
(* Steps that several operations share. *)

Go(from, to) == step = from /\ step' = to /\ UNCHANGED <<caller, answer>>

Return(verdict) ==
    step' = "idle" /\ caller' = "none" /\ answer' = [to |-> caller, is |-> verdict]

Fails(verdict) == ~calm /\ Return(verdict)

Call(op, first) ==
    /\ step = IF op = "Create" THEN "new" ELSE "idle"
    /\ step' = first /\ caller' = op /\ answer' = NoAnswer
    /\ UNCHANGED <<clockVars, jobVars, plist, calm, launch>>

CallCreate == Call("Create", "write") /\ UNCHANGED record
CallRead   == record # "gone" /\ Call("Read", "read") /\ UNCHANGED record

\* Mutant: a job that is cancelled already is not deleted again.
CallDeleteOnce ==
    /\ record = "saved" /\ answer.to = "Read" /\ answer.is \in {"ok", "missing"}
    /\ Call("Delete", "verify")
    /\ record' = "cancelled"

\* remove inspects the task with Read, for want of a ReadForRemoval, and saves
\* the cancellation before it calls Delete.
CallDelete ==
    /\ record # "gone" /\ answer.to = "Read" /\ answer.is \in {"ok", "missing"}
    /\ Call("Delete", "verify")
    /\ record' = "cancelled"

\* bootstrap, or a login: RunAtLoad starts the job at once.
Load   == loaded' = TRUE /\ pending' = TRUE /\ timed' = ~come
\* bootout, or a logout: the child goes with the job.
Unload == loaded' = FALSE /\ pending' = FALSE /\ child' = "none" /\ left' = 0 /\ timed' = FALSE

-----------------------------------------------------------------------------
(* Create *)

\* A value cannot be in a plist, or the LaunchAgents directory is not as expected.
Unwritable == Fails("refused")

\* writeLaunchdPlist: exclusive creation; a failure leaves nothing, a part, or all.
WritePlist ==
    /\ step = "write"
    /\ \/ plist = "none" /\ plist' = "exact" /\ Go("write", "bootstrap")
       \/ plist = "none" /\ plist' \in {"none", "partial", "exact"} /\ Fails("uncertain")
       \/ plist # "none" /\ Return("refused") /\ UNCHANGED plist
       \/ Unwritable /\ UNCHANGED plist
    /\ UNCHANGED <<clockVars, jobVars, record, calm, launch>>

\* Mutant: a failed bootstrap is taken for a refusal.
BootstrapRefused ==
    /\ step = "bootstrap"
    /\ \/ gui /\ ~loaded /\ Load /\ Return("ok")
       \/ (~gui \/ ~calm) /\ Return("refused") /\ (Load \/ UNCHANGED <<loaded, pending, timed>>)
    /\ UNCHANGED <<clockVars, gui, child, left, plist, record, calm, launch>>

\* A login in between has loaded the new plist already.
Bootstrap ==
    /\ step = "bootstrap"
    /\ \/ gui /\ ~loaded /\ Load /\ Return("ok")
       \/ (~gui \/ loaded) /\ Return("uncertain") /\ UNCHANGED <<loaded, pending, timed>>
       \/ /\ gui /\ ~loaded /\ Fails("uncertain")
          /\ Load \/ UNCHANGED <<loaded, pending, timed>>
    /\ UNCHANGED <<clockVars, gui, child, left, plist, record, calm, launch>>

-----------------------------------------------------------------------------
(* Read, and the first half of Delete *)

\* Mutant: the plist is Delete's to remove because it is there.
ReadAnyPlist(here, next, missing) ==
    /\ step = here
    /\ \/ plist # "none" /\ Go(here, next)
       \/ plist = "none" /\ Return(missing)
    /\ UNCHANGED <<clockVars, jobVars, plist, record, calm, launch>>

\* Delete asks launchctl about a job whose plist is gone, and gives up whatever
\* the answer.
ReadPlist(here, next, missing) ==
    /\ step = here
    /\ \/ plist = "exact" /\ Go(here, next)
       \/ plist = "none" /\ Return(missing)
       \/ plist \notin {"none", "exact"} /\ Return("error")
       \/ Fails("error")
    /\ UNCHANGED <<clockVars, jobVars, plist, record, calm, launch>>

PrintService ==
    /\ step = "print"
    /\ \/ loaded /\ Return("ok")
       \/ ~loaded /\ Return("error")
       \/ Fails("error")
    /\ UNCHANGED <<clockVars, jobVars, plist, record, calm, launch>>

-----------------------------------------------------------------------------
(* Delete *)

Bootout ==
    /\ step = "bootout"
    /\ \/ loaded /\ Unload /\ Go("bootout", "unlink")
       \/ ~loaded /\ Return("error") /\ UNCHANGED <<loaded, pending, child, left, timed>>
       \/ Fails("error") /\ (Unload \/ UNCHANGED <<loaded, pending, child, left, timed>>)
    /\ UNCHANGED <<clockVars, gui, plist, record, calm, launch>>

\* The job directory goes when Delete has succeeded.
RemovePlist ==
    /\ step = "unlink"
    /\ \/ plist' = "none" /\ Return("ok") /\ record' = "gone"
       \/ Fails("error") /\ UNCHANGED <<plist, record>>
    /\ UNCHANGED <<clockVars, jobVars, calm, launch>>

Work == \/ WritePlist \/ Bootstrap
        \/ ReadPlist("read", "print", "missing") \/ PrintService
        \/ ReadPlist("verify", "bootout", "error") \/ Bootout \/ RemovePlist

-----------------------------------------------------------------------------
(* The child *)

\* launchd runs one child of a job at a time.
StartChild ==
    /\ loaded /\ pending /\ child = "none"
    /\ pending' = FALSE /\ child' = "guard"
    /\ UNCHANGED <<clockVars, gui, loaded, left, timed, callVars, plist, record, calm, launch>>

ChildEnds == child' = "none" /\ left' = 0 /\ timed' = (timed /\ ~come)

\* Mutants: the year is not looked at; a start after the time is no catch-up.
DispatchAnyYear(t)   == IF t >= at THEN "run" ELSE IF Minute(t) = Minute(at) THEN "wait" ELSE "skip"
DispatchNoCatchUp(t) == IF Year(t) # Year(at) \/ Minute(t) # Minute(at) THEN "skip"
                        ELSE IF t >= at THEN "run" ELSE "wait"

\* preparePersistentDispatch
Dispatch(t) ==
    CASE Year(t) # Year(at)                                   -> "skip"
      [] Year(t) = Year(at) /\ t >= at                        -> "run"
      [] Year(t) = Year(at) /\ t < at /\ Minute(t) = Minute(at) -> "wait"
      [] OTHER                                                -> "skip"

\* The guard loads the request without taking the lock.
Guard ==
    /\ child = "guard"
    /\ IF record = "gone" \/ Dispatch(now) = "skip"
       THEN ChildEnds /\ UNCHANGED launch
       ELSE /\ IF Dispatch(now) = "wait" THEN child' = "asleep" /\ left' = at - now
                                         ELSE child' = "ready" /\ UNCHANGED left
            /\ launch' = [launch EXCEPT !.guard = IF launch.at = 0 THEN now ELSE @]
            /\ UNCHANGED timed
    /\ UNCHANGED <<clockVars, gui, loaded, pending, callVars, plist, record, calm>>

WakeUp ==
    /\ child = "asleep" /\ left = 0 /\ child' = "ready"
    /\ UNCHANGED <<clockVars, gui, loaded, pending, left, timed, callVars, plist, record, calm, launch>>

\* execute reads the clock once more; what it does under the lock is JobStore's.
Run ==
    /\ child = "ready" /\ ChildEnds
    /\ IF now >= at /\ record = "saved"
       THEN record' = "started" /\ launch' = [launch EXCEPT !.at = now]
       ELSE UNCHANGED <<record, launch>>
    /\ UNCHANGED <<clockVars, gui, loaded, pending, callVars, plist, calm>>

-----------------------------------------------------------------------------
(* The world around *)

Comes(t) == Minute(t) = Minute(at) /\ Second(t) = 0

TimePasses ==
    /\ now < Horizon /\ now' = now + 1
    /\ come' = (come \/ now' >= at)
    /\ left' = IF left > 0 THEN left - 1 ELSE 0
    /\ pending' = (pending \/ (loaded /\ Comes(now')))
    /\ UNCHANGED <<at, setBack, gui, loaded, child, timed, callVars, plist, record, calm, launch>>

\* Once in a behaviour, and by one instant: a bound.
ClockSetBack ==
    /\ ~calm /\ now > 0 /\ ~setBack
    /\ now' = now - 1 /\ setBack' = TRUE
    /\ UNCHANGED <<at, come, jobVars, callVars, plist, record, calm, launch>>

\* The operation under way ends without an answer.
CutShort == /\ step' = IF step = "new" THEN "new" ELSE "idle"
            /\ caller' = "none" /\ answer' = NoAnswer

\* It runs in the session that ends.
Logout ==
    /\ ~calm /\ gui /\ gui' = FALSE /\ Unload
    /\ CutShort
    /\ UNCHANGED <<clockVars, plist, record, calm, launch>>
Login ==
    /\ ~gui /\ gui' = TRUE
    /\ IF plist \in {"exact", "changed"} THEN Load ELSE UNCHANGED <<loaded, pending, timed>>
    /\ UNCHANGED <<clockVars, child, left, callVars, plist, record, calm, launch>>

Killed ==
    /\ ~calm /\ step \notin {"new", "idle"}
    /\ CutShort
    /\ UNCHANGED <<clockVars, jobVars, plist, record, calm, launch>>

\* Between two operations a user can change or remove the plist, or unload the job.
Interfere ==
    /\ ~calm /\ step = "idle"
    /\ \/ plist = "exact" /\ plist' \in {"changed", "none"} /\ UNCHANGED jobVars
       \/ loaded /\ Unload /\ UNCHANGED <<gui, plist>>
    /\ UNCHANGED <<clockVars, callVars, record, calm, launch>>

Settle ==
    /\ ~calm /\ calm' = TRUE
    /\ UNCHANGED <<clockVars, jobVars, callVars, plist, record, launch>>

Child == StartChild \/ Guard \/ WakeUp \/ Run

Next ==
    \/ CallCreate \/ CallRead \/ CallDelete \/ Work
    \/ Child
    \/ TimePasses \/ ClockSetBack \/ Logout \/ Login \/ Killed \/ Interfere \/ Settle

Spec == Init /\ [][Next]_vars

\* An operation goes on, launchd starts what it has to and its child runs, a
\* user logs in again, and repeats the removal.  Time may stop anywhere.
FairSpec ==
    /\ Spec
    /\ WF_vars(Work) /\ WF_vars(Child) /\ WF_vars(Login)
    /\ SF_vars(CallRead) /\ SF_vars(CallDelete)

-----------------------------------------------------------------------------

TypeOK ==
    /\ now \in 0..Horizon /\ at \in Times
    /\ gui \in BOOLEAN /\ loaded \in BOOLEAN /\ pending \in BOOLEAN
    /\ plist \in PlistStates
    /\ child \in {"none", "guard", "asleep", "ready"}
    /\ left \in 0..SecondsPerMinute
    /\ record \in {"saved", "started", "cancelled", "gone"}
    /\ step \in {"new", "idle", "write", "bootstrap", "read", "print", "verify", "bootout", "unlink"}
    /\ caller \in {"none", "Create", "Read", "Delete"}
    /\ answer \in [to : {"none", "Create", "Read", "Delete"},
                   is : {"ok", "missing", "refused", "uncertain", "error", "none"}]
    /\ come \in BOOLEAN /\ timed \in BOOLEAN /\ setBack \in BOOLEAN /\ calm \in BOOLEAN
    /\ launch \in [at : 0..Horizon, guard : 0..Horizon]

\* The task as the job store sees it.  A start after the time, at a login or in
\* a later year, is one of its extra starts.
task == IF timed THEN "armed"
        ELSE IF plist \in {"exact", "changed"} /\ ~come THEN "latent"
        ELSE IF plist \in {"exact", "partial", "changed"} \/ loaded THEN "dormant" ELSE "absent"

\* Read looks for the plist, and a job can outlive its plist.
Contract == INSTANCE TaskContract
            WITH due <- come, task <- task, calling <- caller, MissingMeansOff <- FALSE

\* Whatever launchctl, the disk, a kill or the user does between the plist and
\* the loaded job, the backend answers as the job store expects: a refusal and a
\* finished deletion leave nothing that could start a child (persist_task_launchd.go:38-98).
KeepsContract == Contract!Spec

\* A plist that is not, or no longer, what Create wrote is never removed, though
\* Delete verifies it two steps before it removes it (persist_task_launchd.go:73-98).
OthersKept == [][(plist \in {"changed", "foreign"}) => UNCHANGED plist]_vars

\* However often launchd starts the child, and however the clock is set while
\* it sleeps, the agent is launched at its time or later, on the word of a guard
\* that ran in the calendar year of that time (persist_task_launchd.go:245-270,
\* persist_dispatch_darwin.go:11-23, README.md:121-125).
InItsTimeAndYear ==
    launch.at # 0 => launch.at >= at /\ Year(launch.guard) = Year(at)

\* A job that is loaded once its time has come is run in the same year: no start
\* is turned away that no other start makes up for (README.md:119-125).
Owed      == loaded /\ now >= at /\ Year(now) = Year(at) /\ record = "saved" /\ ~setBack
Delivered == Owed ~> ~Owed

\* After launchctl and the disk work again, a repeated removal finishes, also of
\* a job that a broken-off Delete has unloaded: at the next login
\* (persist_task_launchd.go:73-98, README.md:69-71).
RetriedRemovalFinishes ==
    calm /\ step # "new" /\ record # "gone" /\ plist = "exact" /\ (loaded \/ ~gui)
        ~> record = "gone"

=============================================================================
