----------------------------- MODULE SystemdTask -----------------------------
(***************************************************************************)
(* The Linux scheduler backend (persist_task_linux.go): one task is a pair *)
(* of unit files and what the systemd user manager makes of them.  The     *)
(* operations are called one at a time, under the job's lock; between any  *)
(* two steps of one the timer can fire, systemctl or the disk can fail,    *)
(* the caller can be killed and the machine can go down.                   *)
(***************************************************************************)

CONSTANT
    CutsWrites      \* whether writing a unit file may stop half-way

ASSUME CutsWritesAssumption == CutsWrites \in BOOLEAN

VARIABLES
    due,            \* the time of OnCalendar has come
    up,             \* the machine and the user manager are running
    unit,           \* the two unit files
    dropIn,         \* a drop-in overrides one of them
    enabled,        \* the timer is linked into timers.target
    timer,          \* the timer in the manager
    at,             \* where the operation under way is
    caller,         \* which operation that is
    found,          \* the unit files Delete has verified and is to remove
    answer,         \* what the last operation that returned said
    calm            \* from now on nothing fails, and nobody interferes

manager == <<up, enabled, timer>>
disk    == <<unit, dropIn>>
vars == <<due, up, unit, dropIn, enabled, timer, at, caller, found, answer, calm>>

Units      == {"service", "timer"}
\* A file may be written in part, changed after it was written, or another's.
UnitStates == {"none", "exact", "partial", "changed", "foreign"}
Operations == {"Create", "Read", "ReadForRemoval", "Delete"}
Steps      == {"idle", "new", "service", "timer", "undo", "reload", "enable",
               "readService", "readTimer", "showService", "showTimer", "halves",
               "disable", "removeTimer", "removeService", "reloadAgain"}
NoAnswer   == [to |-> "none", is |-> "none"]

\* Nothing of this ID exists, unless another file happens to have the name.
Init ==
    /\ due = FALSE
    /\ up = TRUE
    /\ unit \in [Units -> {"none", "foreign"}]
    /\ dropIn = FALSE
    /\ enabled = FALSE /\ timer = "inactive"
    /\ at = "new" /\ caller = "none" /\ found = {}
    /\ answer = NoAnswer
    /\ calm = FALSE

-----------------------------------------------------------------------------
(* Steps that several operations share. *)

Go(from, to) == at = from /\ at' = to /\ UNCHANGED <<caller, found, answer>>

Return(verdict) ==
    /\ at' = "idle" /\ caller' = "none" /\ found' = {}
    /\ answer' = [to |-> caller, is |-> verdict]

Fails(verdict) == ~calm /\ Return(verdict)

\* Before the first Create nothing else is called: the request is not saved yet.
Call(op) ==
    /\ up
    /\ at = IF op = "Create" THEN "new" ELSE "idle"
    /\ at' = IF op = "Create" THEN "service" ELSE "readService"
    /\ caller' = op /\ answer' = NoAnswer
    /\ UNCHANGED <<due, manager, disk, found, calm>>

\* remove calls Delete only after ReadForRemoval found the task or missed it.
CallDelete == answer.to = "ReadForRemoval" /\ answer.is \in {"ok", "missing"} /\ Call("Delete")

\* Mutant: the file is written under the task's name, without a suffix.
WriteBareName(u) ==
    /\ unit[u] = "none"
    /\ unit' = [v \in Units \cup {"task"} |-> IF v = "task" THEN "exact" ELSE unit[v]]

\* writeLinuxUnit: exclusive creation; a failure leaves nothing, a part, or all.
WriteUnit(u)  == unit[u] = "none" /\ unit' = [unit EXCEPT ![u] = "exact"]
WriteFails(u) ==
    /\ unit[u] = "none" /\ ~calm
    /\ \E left \in {"none", "exact"} \cup (IF CutsWrites THEN {"partial"} ELSE {}) :
          unit' = [unit EXCEPT ![u] = left]

\* os.Remove, which may find nothing to remove.
RemoveUnit(u) == unit' = [unit EXCEPT ![u] = "none"]

-----------------------------------------------------------------------------
(* Create *)

WriteService ==
    /\ at = "service"
    /\ \/ WriteUnit("service") /\ Go("service", "timer")
       \/ WriteFails("service") /\ Return("uncertain")
       \/ unit["service"] # "none" /\ Return("refused") /\ UNCHANGED unit
       \* The unit text or the unit directory is refused.
       \/ Fails("refused") /\ UNCHANGED unit
    /\ UNCHANGED <<due, manager, dropIn, calm>>

WriteTimer ==
    /\ at = "timer"
    /\ \/ WriteUnit("timer") /\ Go("timer", "reload")
       \/ WriteFails("timer") /\ Return("uncertain")
       \/ unit["timer"] # "none" /\ Go("timer", "undo") /\ UNCHANGED unit
    /\ UNCHANGED <<due, manager, dropIn, calm>>

UndoService ==
    /\ at = "undo"
    /\ \/ RemoveUnit("service") /\ Return("refused")
       \/ Fails("uncertain") /\ UNCHANGED unit
    /\ UNCHANGED <<due, manager, dropIn, calm>>

Reload ==
    /\ at = "reload"
    /\ Go("reload", "enable") \/ Fails("uncertain")
    /\ UNCHANGED <<due, manager, disk, calm>>

\* Starting a timer whose time is over leaves it elapsed.
Started == IF due THEN "elapsed" ELSE "waiting"

\* enable --now: the link, then the start.
Enable ==
    /\ at = "enable"
    /\ \/ enabled' = TRUE /\ timer' = Started /\ Return("ok")
       \/ /\ Fails("uncertain")
          /\ \/ UNCHANGED <<enabled, timer>>
             \/ enabled' = TRUE /\ timer' \in {timer, Started}
    /\ UNCHANGED <<due, up, disk, calm>>

Create == WriteService \/ WriteTimer \/ UndoService \/ Reload \/ Enable

-----------------------------------------------------------------------------
(* Read, ReadForRemoval, and the first half of Delete *)

\* A missing file ends either Read; Delete then looks for one half of the pair.
MissingUnit ==
    IF caller = "Delete" THEN at' = "halves" /\ UNCHANGED <<caller, found, answer>>
                         ELSE Return("missing")

CheckFile(u, here, next) ==
    /\ at = here
    /\ \/ unit[u] = "exact" /\ Go(here, next)
       \/ unit[u] = "none" /\ MissingUnit
       \/ unit[u] \notin {"none", "exact"} /\ Return("error")
       \/ Fails("error")
    /\ UNCHANGED <<due, manager, disk, calm>>

\* systemctl show: the unit comes from this file alone.
ShowService ==
    /\ at = "showService"
    /\ \/ ~dropIn /\ Go("showService", "showTimer")
       \/ dropIn /\ Return("error")
       \/ Fails("error")
    /\ UNCHANGED <<due, manager, disk, calm>>

\* Read alone also wants the timer to be enabled, and waiting or elapsed.
Ready == enabled /\ timer \in {"waiting", "elapsed"}

ShowTimer ==
    /\ at = "showTimer"
    /\ \/ ~dropIn /\ caller = "Read" /\ Ready /\ Return("ok")
       \/ ~dropIn /\ caller = "ReadForRemoval" /\ Return("ok")
       \/ /\ ~dropIn /\ caller = "Delete"
          /\ at' = "disable" /\ found' = Units /\ UNCHANGED <<caller, answer>>
       \/ (dropIn \/ (caller = "Read" /\ ~Ready)) /\ Return("error")
       \/ Fails("error")
    /\ UNCHANGED <<due, manager, disk, calm>>

ReadUnits == \/ CheckFile("service", "readService", "readTimer")
             \/ CheckFile("timer", "readTimer", "showService")
             \/ ShowService \/ ShowTimer

-----------------------------------------------------------------------------
(* Delete *)

\* Mutants: one file of the pair is an error; a file is Delete's to remove
\* because it is there.
HalvesRefused ==
    /\ at = "halves"
    /\ Return(IF \A u \in Units : unit[u] = "none" THEN "missing" ELSE "error")
    /\ UNCHANGED <<due, manager, disk, calm>>

HalvesUnread ==
    /\ at = "halves"
    /\ found' = {u \in Units : unit[u] # "none"}
    /\ at' = IF "timer" \in found' THEN "disable" ELSE "removeService"
    /\ UNCHANGED <<due, manager, disk, calm, caller, answer>>

\* A registration or deletion that broke off can have left one file.
FindHalves ==
    /\ at = "halves"
    /\ LET exact == {u \in Units : unit[u] = "exact"}
       IN  \/ /\ \A u \in Units : unit[u] \in {"none", "exact"}
              /\ exact # {}
              /\ at' = IF "timer" \in exact THEN "disable" ELSE "removeService"
              /\ found' = exact /\ UNCHANGED <<caller, answer>>
           \/ (\A u \in Units : unit[u] = "none") /\ Return("missing")
           \/ (\E u \in Units : unit[u] \notin {"none", "exact"}) /\ Return("error")
           \/ Fails("error")
    /\ UNCHANGED <<due, manager, disk, calm>>

\* Mutant: the timer is removed even if it could not be disabled.
DisableUnchecked ==
    /\ at = "disable"
    /\ Go("disable", "removeTimer")
    /\ \/ enabled' = FALSE /\ timer' = "inactive"
       \/ ~calm /\ UNCHANGED <<enabled, timer>>
    /\ UNCHANGED <<due, up, disk, calm>>

\* disable --now: the link, then the stop.
Disable ==
    /\ at = "disable"
    /\ \/ enabled' = FALSE /\ timer' = "inactive" /\ Go("disable", "removeTimer")
       \/ /\ Fails("error")
          /\ \/ UNCHANGED <<enabled, timer>>
             \/ enabled' = FALSE /\ timer' \in {timer, "inactive"}
    /\ UNCHANGED <<due, up, disk, calm>>

RemoveTimer ==
    /\ at = "removeTimer"
    /\ \/ /\ RemoveUnit("timer")
          /\ Go("removeTimer", IF "service" \in found THEN "removeService" ELSE "reloadAgain")
       \/ Fails("error") /\ UNCHANGED unit
    /\ UNCHANGED <<due, manager, dropIn, calm>>

RemoveService ==
    /\ at = "removeService"
    /\ \/ RemoveUnit("service") /\ Go("removeService", "reloadAgain")
       \/ Fails("error") /\ UNCHANGED unit
    /\ UNCHANGED <<due, manager, dropIn, calm>>

ReloadAgain ==
    /\ at = "reloadAgain"
    /\ Return("ok") \/ Fails("error")
    /\ UNCHANGED <<due, manager, disk, calm>>

Delete == FindHalves \/ Disable \/ RemoveTimer \/ RemoveService \/ ReloadAgain

-----------------------------------------------------------------------------
(* The world around *)

TimePasses ==
    /\ ~due /\ due' = TRUE
    /\ UNCHANGED <<manager, disk, at, caller, found, answer, calm>>

\* While its service runs a timer is neither waiting nor elapsed.
TimerFires ==
    /\ up /\ due /\ timer = "waiting" /\ timer' = "running"
    /\ UNCHANGED <<due, up, enabled, disk, at, caller, found, answer, calm>>
ServiceEnds ==
    /\ timer = "running" /\ timer' = "elapsed"
    /\ UNCHANGED <<due, up, enabled, disk, at, caller, found, answer, calm>>

\* The operation under way ends without an answer.
CutShort == at' = "idle" /\ caller' = "none" /\ found' = {} /\ answer' = NoAnswer

Killed ==
    /\ ~calm /\ at \notin {"new", "idle"}
    /\ CutShort
    /\ UNCHANGED <<due, manager, disk, calm>>
MachineStops ==
    /\ ~calm /\ up
    /\ IF at \in {"new", "idle"} THEN UNCHANGED <<at, caller, found, answer>> ELSE CutShort
    /\ up' = FALSE /\ timer' = "inactive"
    /\ UNCHANGED <<due, enabled, disk, calm>>

\* Persistent=false: a timer whose time has passed meanwhile does not fire.
MachineStarts ==
    /\ ~up /\ up' = TRUE
    /\ timer' = IF enabled THEN Started ELSE "inactive"
    /\ UNCHANGED <<due, enabled, disk, at, caller, found, answer, calm>>

\* Between two operations a user can change a file, add a drop-in, switch the timer
\* off, and remove a file of a timer that is off.
Interfere ==
    /\ ~calm /\ at = "idle"
    /\ \/ /\ \E u \in Units : unit[u] = "exact" /\ unit' = [unit EXCEPT ![u] = "changed"]
          /\ UNCHANGED <<manager, dropIn>>
       \/ dropIn' = ~dropIn /\ UNCHANGED <<manager, unit>>
       \/ /\ up /\ unit["timer"] = "exact" /\ enabled
          /\ enabled' = FALSE /\ timer' = "inactive" /\ UNCHANGED <<up, disk>>
       \/ /\ up /\ ~enabled /\ timer = "inactive"
          /\ \E u \in Units : unit[u] \in {"exact", "partial"} /\ RemoveUnit(u)
          /\ UNCHANGED <<manager, dropIn>>
    /\ UNCHANGED <<due, at, caller, found, answer, calm>>

Settle ==
    /\ ~calm /\ calm' = TRUE
    /\ UNCHANGED <<due, manager, disk, at, caller, found, answer>>

Work == Create \/ ReadUnits \/ Delete

Next ==
    \/ Call("Create") \/ Call("Read") \/ Call("ReadForRemoval") \/ CallDelete
    \/ Work
    \/ TimePasses \/ TimerFires \/ ServiceEnds
    \/ Killed \/ MachineStops \/ MachineStarts \/ Interfere \/ Settle

Spec == Init /\ [][Next]_vars

\* An operation goes on, a machine is switched on again, and the user repeats
\* the removal, which begins with ReadForRemoval.
FairSpec ==
    /\ Spec
    /\ WF_vars(Work) /\ WF_vars(MachineStarts)
    /\ SF_vars(Call("ReadForRemoval")) /\ SF_vars(CallDelete)

-----------------------------------------------------------------------------

TypeOK ==
    /\ due \in BOOLEAN /\ up \in BOOLEAN /\ calm \in BOOLEAN
    /\ unit \in [Units -> UnitStates]
    /\ dropIn \in BOOLEAN
    /\ enabled \in BOOLEAN
    /\ timer \in {"inactive", "waiting", "running", "elapsed"}
    /\ at \in Steps
    /\ caller \in Operations \cup {"none"}
    /\ found \subseteq Units
    /\ answer \in [to : Operations \cup {"none"},
                   is : {"ok", "missing", "refused", "uncertain", "error", "none"}]

\* The task as the job store sees it.
OnDisk == \E u \in Units : unit[u] \in {"exact", "partial", "changed"}
task   == IF timer = "waiting" THEN "armed"
          ELSE IF enabled /\ ~due THEN "latent"
          ELSE IF OnDisk \/ enabled \/ timer # "inactive" THEN "dormant" ELSE "absent"

Contract == INSTANCE TaskContract WITH task <- task, calling <- caller, MissingMeansOff <- TRUE

\* Whatever fails or is cut short between the two files, the link and the
\* manager, the backend answers as the job store expects (persist_task.go:20-35):
\* a definite refusal and a finished deletion leave nothing that could start a
\* child, success leaves a timer that will, and a retry of a deletion that broke
\* off is right about what it finds.
KeepsContract == Contract!Spec

\* A file that is not, or no longer, what Create wrote is never removed
\* (persist_task_linux.go:97-118).
OthersKept ==
    [][\A u \in Units : unit[u] \in {"changed", "foreign"} => unit'[u] = unit[u]]_vars

\* Whatever registration or deletion left behind when it broke off, a repeated
\* removal finishes once systemctl and the disk work again and nobody has
\* changed the units (persist_task_linux.go:103-137; README.md:69-71).
Untouched == ~dropIn /\ \A u \in Units : unit[u] \in {"none", "exact"}
Deleted   == answer.to = "Delete" /\ answer.is \in {"ok", "missing"}
RetriedRemovalFinishes == calm /\ at # "new" /\ Untouched ~> Deleted

-----------------------------------------------------------------------------
(* What the documents say, and the code does not keep. *)

\* docs/VERIFICATION.md:42-43: "public removal including disabled/partial
\* units".  A unit file that Create could write only in part is not the expected
\* one, so ReadForRemoval and Delete refuse it for ever
\* (persist_task_linux.go:53-61, 190-205).
PartialUnitsRemoved ==
    calm /\ at # "new" /\ ~dropIn /\ (\A u \in Units : unit[u] \in {"none", "exact", "partial"})
        ~> Deleted

=============================================================================
