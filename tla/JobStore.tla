------------------------------ MODULE JobStore ------------------------------
(***************************************************************************)
(* One persistent job of agent-at: its private directory, the lifecycle    *)
(* lock in it, the OS task that starts it, and the processes that meet     *)
(* there (persist.go).  A job ID is 128 random bits and nothing but the    *)
(* ID links two jobs, so one job is enough; every process stands for one   *)
(* run of the program on that ID: one `--persist`, any number of children  *)
(* started by the OS task, of `--remove` and of `--list`.                  *)
(*                                                                         *)
(* A step is one system call another process can observe.  What a step     *)
(* keeps of a JSON file is whether it exists and whether it is complete.   *)
(***************************************************************************)

CONSTANTS
    Registrar,      \* the process that runs register
    Executors,      \* children started by the OS task: execute
    TimedRun,       \* the one of them that the time trigger starts
    Removers,       \* processes that run remove
    Listers,        \* processes that run list
    NoOne,          \* the lock's owner when it is free
    WaitsForLock,   \* execution waits for the lock (Unix) or gives up (Windows)
    Mortals,        \* the processes that may be killed
    DiskFails       \* whether creating or removing a file may fail

Procs == {Registrar} \cup Executors \cup Removers \cup Listers

ASSUME ProcsAssumption ==
    /\ Registrar \notin Executors \cup Removers \cup Listers
    /\ Executors \cap (Removers \cup Listers) = {}
    /\ Removers \cap Listers = {}
    /\ NoOne \notin Procs
    /\ TimedRun \in Executors
    /\ Mortals \subseteq Procs
    /\ WaitsForLock \in BOOLEAN
    /\ DiskFails \in BOOLEAN

VARIABLES
    due,            \* the scheduled time At has come
    task,           \* the OS task: "absent", "armed" or "dormant" (will not fire)
    dirMade,        \* the job directory exists
    files,          \* the files in it
    damaged,        \* those of them whose JSON is incomplete
    holder,         \* who holds the lock file's exclusive lock
    pc,             \* where each process is
    sawDue,         \* whether a child's `now` had reached At when it read the clock
    report,         \* what register told the user
    view,           \* what each list has read so far
    \* History, read by the properties alone.
    launched,       \* the children that called launch
    turnedAway,     \* the children that found the lock held and gave up
    cancelSaved,    \* a remover got past its cancellation record
    torn            \* a removal stopped after cancelled.json and before request.json

fileVars    == <<dirMade, files, damaged>>
historyVars == <<launched, turnedAway, cancelSaved, torn>>
vars == <<due, task, dirMade, files, damaged, holder, pc, sawDue, report, view,
          launched, turnedAway, cancelSaved, torn>>

FileNames == {"lock", "request", "started", "cancelled", "stdout", "stderr", "result"}
Ended     == {"done", "dead"}

RegistrarPCs == {"idle", "mklock", "locking", "saving", "checkAt", "creating",
                 "readback", "recheck", "return", "discard", "sweep"} \cup Ended
ExecutorPCs  == {"idle", "opening", "waiting", "loading", "checking", "marking",
                 "starting", "running", "recording"} \cup Ended
RemoverPCs   == {"idle", "loading", "inspecting", "cancelling", "deleting",
                 "removing"} \cup Ended
ListerPCs    == {"idle", "readStarted", "readResult", "readCancelled", "readTask"} \cup Ended
PCs == RegistrarPCs \cup ExecutorPCs \cup RemoverPCs \cup ListerPCs

Statuses == {"", "reserved", "started / result unknown", "result",
             "result unknown (unreadable result)"}
View == [before : BOOLEAN, status : Statuses, pending : BOOLEAN,
         os : {"", "registered", "missing", "unreadable"}]
BlankView == [before |-> FALSE, status |-> "", pending |-> FALSE, os |-> ""]

Init ==
    /\ due = FALSE
    /\ task = "absent"
    /\ dirMade = FALSE /\ files = {} /\ damaged = {}
    /\ holder = NoOne
    /\ pc = [p \in Procs |-> "idle"]
    /\ sawDue = [e \in Executors |-> FALSE]
    /\ report = "none"
    /\ view = [l \in Listers |-> BlankView]
    /\ launched = {} /\ turnedAway = {} /\ cancelSaved = FALSE /\ torn = FALSE

-----------------------------------------------------------------------------
(* Steps that several operations share. *)

At(p, label)   == pc[p] = label
Goto(p, label) == pc' = [pc EXCEPT ![p] = label]

\* Returning runs the deferred release, if the process took the lock.
Finish(p) ==
    /\ Goto(p, "done")
    /\ holder' = IF holder = p THEN NoOne ELSE holder

\* Mutant: lockJob does not see that the lock is held.
LockIgnored == dirMade /\ "lock" \in files

\* lockJob: the lock file must be there, and a held lock is an error at once.
LockFree   == dirMade /\ "lock" \in files /\ holder = NoOne
Take(p)    == holder' = p

\* load: request.json decodes and passes every check on the saved request.
Loadable == "request" \in files \ damaged

\* createJSON: exclusive creation, then the content and a sync.
CreateJSON(f) ==
    /\ dirMade /\ f \notin files
    /\ files' = files \cup {f}
    /\ UNCHANGED <<dirMade, damaged>>

\* It fails on a file that exists; or the disk fails, before the file is
\* created, or with all or part of its content written.
CreateJSONFails(f) ==
    \/ (f \in files \/ DiskFails) /\ UNCHANGED fileVars
    \/ /\ DiskFails /\ dirMade /\ f \notin files
       /\ files' = files \cup {f}
       /\ damaged' \in {damaged, damaged \cup {f}}
       /\ UNCHANGED dirMade

\* os.RemoveAll, entry by entry in an order the filesystem chooses.  It goes on
\* past an entry it cannot remove, so what is left after an error can be any
\* part of what was there.
UnlinkOne ==
    \E f \in files :
        /\ files' = files \ {f}
        /\ damaged' = damaged \ {f}
        /\ UNCHANGED dirMade
RemoveDir ==
    /\ files = {}
    /\ dirMade' = FALSE
    /\ UNCHANGED <<files, damaged>>
StopRemoving(p) ==
    torn' = (torn \/ (At(p, "removing") /\ "request" \in files /\ "cancelled" \notin files))

-----------------------------------------------------------------------------
(* The OS scheduler as persist.go sees it, through taskScheduler. *)

Registered == IF due THEN "dormant" ELSE "armed"

TaskCreated        == task' = Registered
TaskRefused        == task' = "absent"                          \* a definite error
TaskUncertain      == task' \in {"absent", "dormant", Registered}
TaskDeleted        == task' = "absent"                          \* or was missing
TaskDeletionFailed == IF task = "absent" THEN UNCHANGED task
                                         ELSE task' \in {task, "dormant", "absent"}
TaskReadings == {"missing", "unreadable"}
                \cup (IF task = "absent" THEN {} ELSE {"registered"})

TimePasses ==
    /\ ~due
    /\ due' = TRUE
    /\ UNCHANGED <<task, fileVars, holder, pc, sawDue, report, view, historyVars>>

\* The child reads the clock as it starts, before it waits for the lock.
StartChild(e) ==
    /\ At(e, "idle")
    /\ Goto(e, "opening")
    /\ sawDue' = [sawDue EXCEPT ![e] = due]
    /\ UNCHANGED <<due, fileVars, holder, report, view, historyVars>>

\* The trigger fires once.
Fire == task = "armed" /\ due /\ task' = "dormant" /\ StartChild(TimedRun)

\* launchd starts a job as it loads it and again every year, and a user can
\* start the unit or the task by hand.
ExtraStart(e) == e # TimedRun /\ task # "absent" /\ StartChild(e) /\ UNCHANGED task

-----------------------------------------------------------------------------
(* register *)

\* secureJobDir: the directory, then the lock file in it.  Its last check can
\* fail with both left behind.
MakeDir ==
    /\ At(Registrar, "idle")
    /\ dirMade' = TRUE
    /\ Goto(Registrar, "mklock")
    /\ UNCHANGED <<due, task, files, damaged, holder, sawDue, report, view, historyVars>>

MakeLockFile ==
    /\ At(Registrar, "mklock")
    /\ \/ /\ files' = {"lock"} /\ UNCHANGED dirMade
          /\ Goto(Registrar, "locking") /\ UNCHANGED report
       \/ /\ DiskFails
          /\ \/ dirMade' = FALSE /\ UNCHANGED files
             \/ files' = {"lock"} /\ UNCHANGED dirMade
          /\ Goto(Registrar, "done") /\ report' = "failed"
    /\ UNCHANGED <<due, task, damaged, holder, sawDue, view, historyVars>>

\* A --remove that saw the new ID in --list may hold the lock: the directory
\* is then swept without it.
LockNewJob ==
    /\ At(Registrar, "locking")
    /\ IF LockFree THEN Take(Registrar) /\ Goto(Registrar, "saving")
                   ELSE Goto(Registrar, "sweep") /\ UNCHANGED holder
    /\ UNCHANGED <<due, task, fileVars, sawDue, report, view, historyVars>>

SaveRequest ==
    /\ At(Registrar, "saving")
    /\ \/ CreateJSON("request") /\ Goto(Registrar, "checkAt")
       \/ CreateJSONFails("request") /\ Goto(Registrar, "discard")
    /\ UNCHANGED <<due, task, holder, sawDue, report, view, historyVars>>

CheckAt ==
    /\ At(Registrar, "checkAt")
    /\ Goto(Registrar, IF due THEN "discard" ELSE "creating")
    /\ UNCHANGED <<due, task, fileVars, holder, sawDue, report, view, historyVars>>

\* What register leaves behind for the user to inspect: the lock is released
\* and nothing is removed.
Retain == Finish(Registrar) /\ report' = "retained"

\* Mutant: an uncertain creation is cleaned up like a definite failure.
CreateTaskDiscardsDoubt ==
    /\ At(Registrar, "creating")
    /\ \/ TaskCreated /\ Goto(Registrar, "readback")
       \/ (TaskRefused \/ TaskUncertain) /\ Goto(Registrar, "discard")
    /\ UNCHANGED <<due, fileVars, holder, sawDue, report, view, historyVars>>

CreateTask ==
    /\ At(Registrar, "creating")
    /\ \/ TaskCreated /\ Goto(Registrar, "readback") /\ UNCHANGED <<holder, report>>
       \/ TaskRefused /\ Goto(Registrar, "discard") /\ UNCHANGED <<holder, report>>
       \/ TaskUncertain /\ Retain
    /\ UNCHANGED <<due, fileVars, sawDue, view, historyVars>>

ReadBack ==
    /\ At(Registrar, "readback")
    /\ \E reading \in TaskReadings :
          IF reading = "registered"
          THEN Goto(Registrar, "recheck") /\ UNCHANGED <<holder, report>>
          ELSE Retain
    /\ UNCHANGED <<due, task, fileVars, sawDue, view, historyVars>>

\* Mutant: the clock is not read again after the read-back.
RecheckSkipped ==
    /\ At(Registrar, "recheck")
    /\ Goto(Registrar, "return")
    /\ UNCHANGED <<due, task, fileVars, holder, sawDue, report, view, historyVars>>

Recheck ==
    /\ At(Registrar, "recheck")
    /\ IF due THEN Retain
              ELSE Goto(Registrar, "return") /\ UNCHANGED <<holder, report>>
    /\ UNCHANGED <<due, task, fileVars, sawDue, view, historyVars>>

\* Success is printed by the caller, after the deferred release.
ReturnRegistered ==
    /\ At(Registrar, "return")
    /\ Finish(Registrar) /\ report' = "registered"
    /\ UNCHANGED <<due, task, fileVars, sawDue, view, historyVars>>

Discard ==
    /\ pc[Registrar] \in {"discard", "sweep"}
    /\ \/ UnlinkOne /\ UNCHANGED <<pc, holder, report>>
       \/ RemoveDir /\ Finish(Registrar) /\ report' = "failed"
       \/ DiskFails /\ UNCHANGED fileVars /\ Finish(Registrar) /\ report' = "failed"
    /\ UNCHANGED <<due, task, sawDue, view, historyVars>>

Register == \/ MakeDir \/ MakeLockFile \/ LockNewJob \/ SaveRequest \/ CheckAt
            \/ CreateTask \/ ReadBack \/ Recheck \/ ReturnRegistered \/ Discard

-----------------------------------------------------------------------------
(* execute *)

\* Mutant: execution gives up on a held lock everywhere.
OpenNeverWaits(e) ==
    /\ At(e, "opening")
    /\ \/ LockFree /\ Take(e) /\ Goto(e, "loading")
       \/ ~LockFree /\ Goto(e, "done") /\ UNCHANGED holder
    /\ UNCHANGED <<due, task, fileVars, sawDue, report, view, historyVars>>

\* The lock file is opened by its name.  On Unix the child then waits for the
\* lock of that file, which a removal may unlink meanwhile.
OpenForExecution(e) ==
    /\ At(e, "opening")
    /\ IF ~dirMade \/ "lock" \notin files
       THEN Goto(e, "done") /\ UNCHANGED <<holder, turnedAway>>
       ELSE IF WaitsForLock
       THEN Goto(e, "waiting") /\ UNCHANGED <<holder, turnedAway>>
       ELSE IF holder = NoOne
       THEN Take(e) /\ Goto(e, "loading") /\ UNCHANGED turnedAway
       ELSE Goto(e, "done") /\ turnedAway' = turnedAway \cup {e} /\ UNCHANGED holder
    /\ UNCHANGED <<due, task, fileVars, sawDue, report, view, launched, cancelSaved, torn>>

LockForExecution(e) ==
    /\ At(e, "waiting")
    /\ holder = NoOne
    /\ Take(e) /\ Goto(e, "loading")
    /\ UNCHANGED <<due, task, fileVars, sawDue, report, view, historyVars>>

LoadForExecution(e) ==
    /\ At(e, "loading")
    /\ IF Loadable /\ sawDue[e] THEN Goto(e, "checking") /\ UNCHANGED holder
                                ELSE Finish(e)
    /\ UNCHANGED <<due, task, fileVars, sawDue, report, view, historyVars>>

\* Mutant: the cancellation record is not looked at.
CheckStartedOnly(e) ==
    /\ At(e, "checking")
    /\ IF "started" \notin files THEN Goto(e, "marking") /\ UNCHANGED holder
                                ELSE Finish(e)
    /\ UNCHANGED <<due, task, fileVars, sawDue, report, view, historyVars>>

CheckRecords(e) ==
    /\ At(e, "checking")
    /\ IF {"started", "cancelled"} \cap files = {}
       THEN Goto(e, "marking") /\ UNCHANGED holder
       ELSE Finish(e)
    /\ UNCHANGED <<due, task, fileVars, sawDue, report, view, historyVars>>

\* Mutant: the start record is written under another name.
MarkUnderOtherName(e) ==
    /\ At(e, "marking")
    /\ CreateJSON("start.json") /\ Goto(e, "starting")
    /\ UNCHANGED <<due, task, holder, sawDue, report, view, historyVars>>

MarkStarted(e) ==
    /\ At(e, "marking")
    /\ \/ CreateJSON("started") /\ Goto(e, "starting") /\ UNCHANGED holder
       \/ CreateJSONFails("started") /\ Finish(e)
    /\ UNCHANGED <<due, task, sawDue, report, view, historyVars>>

\* launch is called only when both logs could be created; otherwise the result
\* says log_failed.
Launch(e) ==
    /\ At(e, "starting")
    /\ \E logs \in {{}, {"stdout"}, {"stdout", "stderr"}} :
          LET opened == dirMade /\ logs = {"stdout", "stderr"} /\ logs \cap files = {}
          IN  /\ opened \/ DiskFails \/ {"stdout", "stderr"} \cap files # {}
              /\ files' = IF dirMade THEN files \cup logs ELSE files
              /\ launched' = IF opened THEN launched \cup {e} ELSE launched
              /\ Goto(e, IF opened THEN "running" ELSE "recording")
    /\ UNCHANGED <<due, task, dirMade, damaged, holder, sawDue, report, view,
                   turnedAway, cancelSaved, torn>>

AgentEnds(e) ==
    /\ At(e, "running")
    /\ Goto(e, "recording")
    /\ UNCHANGED <<due, task, fileVars, holder, sawDue, report, view, historyVars>>

\* Mutant: once there is a result, the start record and the logs are tidied up.
RecordResultAndTidy(e) ==
    /\ At(e, "recording")
    /\ files' = (files \ {"started", "stdout", "stderr"}) \cup {"result"}
    /\ Finish(e)
    /\ UNCHANGED <<due, task, dirMade, damaged, sawDue, report, view, historyVars>>

RecordResult(e) ==
    /\ At(e, "recording")
    /\ CreateJSON("result") \/ CreateJSONFails("result")
    /\ Finish(e)
    /\ UNCHANGED <<due, task, sawDue, report, view, historyVars>>

Execute(e) == \/ OpenForExecution(e) \/ LockForExecution(e) \/ LoadForExecution(e)
              \/ CheckRecords(e) \/ MarkStarted(e) \/ Launch(e) \/ RecordResult(e)

-----------------------------------------------------------------------------
(* remove *)

LockForRemoval(r) ==
    /\ At(r, "idle")
    /\ IF LockFree THEN Take(r) /\ Goto(r, "loading")
                   ELSE Goto(r, "done") /\ UNCHANGED holder
    /\ UNCHANGED <<due, task, fileVars, sawDue, report, view, historyVars>>

LoadForRemoval(r) ==
    /\ At(r, "loading")
    /\ IF Loadable THEN Goto(r, "inspecting") /\ UNCHANGED holder
                   ELSE Finish(r)
    /\ UNCHANGED <<due, task, fileVars, sawDue, report, view, historyVars>>

\* A missing OS task does not stop the removal of the private record.
InspectTask(r) ==
    /\ At(r, "inspecting")
    /\ \E reading \in TaskReadings :
          IF reading = "unreadable"
          THEN Finish(r)
          ELSE Goto(r, "cancelling") /\ UNCHANGED holder
    /\ UNCHANGED <<due, task, fileVars, sawDue, report, view, historyVars>>

SaveCancellation(r) ==
    /\ At(r, "cancelling")
    /\ \/ /\ \/ "cancelled" \in files /\ UNCHANGED fileVars
             \/ CreateJSON("cancelled")
          /\ Goto(r, "deleting") /\ cancelSaved' = TRUE /\ UNCHANGED holder
       \/ /\ "cancelled" \notin files /\ CreateJSONFails("cancelled")
          /\ Finish(r) /\ UNCHANGED cancelSaved
    /\ UNCHANGED <<due, task, sawDue, report, view, launched, turnedAway, torn>>

\* Mutant: the error of the OS deletion is dropped.
DeleteTaskErrorDropped(r) ==
    /\ At(r, "deleting")
    /\ TaskDeleted \/ TaskDeletionFailed
    /\ Goto(r, "removing")
    /\ UNCHANGED <<due, fileVars, holder, sawDue, report, view, historyVars>>

DeleteTask(r) ==
    /\ At(r, "deleting")
    /\ \/ TaskDeleted /\ Goto(r, "removing") /\ UNCHANGED holder
       \/ TaskDeletionFailed /\ Finish(r)
    /\ UNCHANGED <<due, fileVars, sawDue, report, view, historyVars>>

RemoveAll(r) ==
    /\ At(r, "removing")
    /\ \/ UnlinkOne /\ UNCHANGED <<pc, holder, torn>>
       \/ RemoveDir /\ Finish(r) /\ UNCHANGED torn
       \/ DiskFails /\ UNCHANGED fileVars /\ Finish(r) /\ StopRemoving(r)
    /\ UNCHANGED <<due, task, sawDue, report, view, launched, turnedAway, cancelSaved>>

Remove(r) == \/ LockForRemoval(r) \/ LoadForRemoval(r) \/ InspectTask(r)
             \/ SaveCancellation(r) \/ DeleteTask(r) \/ RemoveAll(r)

-----------------------------------------------------------------------------
(* list: it takes no lock, and builds one line from five separate reads *)

See(l, field, value) == view' = [view EXCEPT ![l][field] = value]

Looking(l) ==
    UNCHANGED <<due, task, fileVars, holder, sawDue, report, historyVars>>

ListLoad(l) ==
    /\ At(l, "idle")
    /\ dirMade
    /\ IF Loadable
       THEN /\ Goto(l, "readStarted")
            /\ view' = [view EXCEPT ![l] = [BlankView EXCEPT !.before = launched # {} \/ cancelSaved]]
       ELSE Goto(l, "done") /\ UNCHANGED view
    /\ Looking(l)

ListStarted(l) ==
    /\ At(l, "readStarted")
    /\ Goto(l, "readResult")
    /\ See(l, "status", IF "started" \in files THEN "started / result unknown"
                                                ELSE "reserved")
    /\ Looking(l)

ListResult(l) ==
    /\ At(l, "readResult")
    /\ Goto(l, "readCancelled")
    /\ See(l, "status", IF "result" \in damaged THEN "result unknown (unreadable result)"
                        ELSE IF "result" \in files THEN "result"
                        ELSE view[l].status)
    /\ Looking(l)

ListCancelled(l) ==
    /\ At(l, "readCancelled")
    /\ Goto(l, "readTask")
    /\ See(l, "pending", "cancelled" \in files)
    /\ Looking(l)

ListTask(l) ==
    /\ At(l, "readTask")
    /\ Goto(l, "done")
    /\ \E reading \in TaskReadings : See(l, "os", reading)
    /\ Looking(l)

List(l) == \/ ListLoad(l) \/ ListStarted(l) \/ ListResult(l) \/ ListCancelled(l)
           \/ ListTask(l)

-----------------------------------------------------------------------------

\* A process is killed.  The OS releases its lock; a partial file is the one
\* that CreateJSONFails leaves.
Crash(p) ==
    /\ pc[p] \notin {"idle"} \cup Ended
    /\ pc' = [pc EXCEPT ![p] = "dead"]
    /\ holder' = IF holder = p THEN NoOne ELSE holder
    /\ StopRemoving(p)
    /\ UNCHANGED <<due, task, fileVars, sawDue, report, view, launched,
                   turnedAway, cancelSaved>>

Next ==
    \/ TimePasses
    \/ Fire
    \/ Register
    \/ \E e \in Executors : ExtraStart(e) \/ Execute(e) \/ AgentEnds(e)
    \/ \E r \in Removers : Remove(r)
    \/ \E l \in Listers : List(l)
    \/ \E p \in Mortals : Crash(p)

Spec == Init /\ [][Next]_vars

\* A running process goes on, the machine is on at the scheduled time, and a
\* free lock is granted to who waits for it.  Nobody has to run a command, and
\* an agent may never end.
Fairness ==
    /\ WF_vars(TimePasses) /\ WF_vars(Fire) /\ WF_vars(Register)
    /\ \A e \in Executors : WF_vars(Execute(e))
    /\ \A r \in Removers : WF_vars(pc[r] # "idle" /\ Remove(r))
FairSpec == Spec /\ Fairness

-----------------------------------------------------------------------------

TypeOK ==
    /\ due \in BOOLEAN
    /\ task \in {"absent", "armed", "dormant"}
    /\ dirMade \in BOOLEAN
    /\ files \subseteq FileNames
    /\ damaged \subseteq files
    /\ holder \in Procs \cup {NoOne}
    /\ pc \in [Procs -> PCs]
    /\ sawDue \in [Executors -> BOOLEAN]
    /\ report \in {"none", "registered", "retained", "failed"}
    /\ view \in [Listers -> View]
    /\ launched \subseteq Executors
    /\ turnedAway \subseteq Executors
    /\ cancelSaved \in BOOLEAN
    /\ torn \in BOOLEAN

\* The agent is launched at most once, whatever process dies and however often
\* the OS starts a child (persist.go:317-331): the durable start record and the
\* lock see to it, until a removal breaks off between the records and the request.
OnceOnly == torn \/ \A d, e \in launched : d = e

\* Once a remover has gone past its cancellation record no child launches the
\* agent, even one that was already waiting for the lock (persist.go:317, 422-432).
CancelExcludesStart ==
    [][launched' # launched => ~cancelSaved \/ torn]_vars

\* An OS task never exists without the complete request it would execute: the
\* request is saved first, and kept whenever creation or deletion of the task
\* is in doubt (persist.go:269-284, 433-436).
TaskHasPayload == task # "absent" => Loadable

\* While a child is between its start record and its result, nobody takes a
\* file of the job away (persist.go:264-266, 305, 404).
Executing == \E e \in Executors : pc[e] \in {"starting", "running", "recording"}
RunningJobKept == [][Executing => files \subseteq files' /\ dirMade']_vars

\* A success report means a task that will start the job, or has: a time that
\* comes between the two looks at the clock is never reported as a success
\* (persist.go:272, 286-289).
SuccessMeansArmed ==
    [][report' = "registered" /\ report # "registered"
         => task = "armed" \/ pc[TimedRun] # "idle"]_vars

\* A line of --list that shows an untouched reservation tells the truth about
\* the moment the list began, although it is put together from reads at five
\* moments without the lock: a job that had been launched or cancelled by then
\* is never shown so, even while it is being removed (persist.go:450-476).
UntouchedLineIsTrue ==
    \A l \in Listers :
        /\ view[l].status = "reserved" /\ ~view[l].pending
        /\ view[l].os = "registered"
        => ~view[l].before

\* A job that was reported registered is launched, unless it is cancelled: the
\* trigger that fires while registration or a removal that will be refused
\* holds the lock is not lost (persist_lock_execution_unix.go:11-13).
RegisteredJobStarts == report = "registered" ~> launched # {} \/ cancelSaved

-----------------------------------------------------------------------------
(* What the user can tell of the job's life, and the promise about it. *)

Some(P, label) == \E p \in P : pc[p] = label

life ==
    IF ~Loadable
    THEN IF pc[Registrar] \in {"idle", "mklock", "locking", "saving"} THEN "new" ELSE "removed"
    ELSE IF "cancelled" \in files          THEN "cancelled"
    ELSE IF Some(Removers, "removing")     THEN "removed"
    ELSE IF Some(Executors, "starting")    THEN "claimed"
    ELSE IF Some(Executors, "running")     THEN "running"
    ELSE IF "started" \in files            THEN "ended"
    ELSE "reserved"

Promise == INSTANCE JobPromise WITH told <- report

\* The job store keeps its promise until a removal breaks off between the
\* records and the request.
KeepsPromise == Promise!Init /\ [][Promise!Next \/ torn']_<<life, report>>

-----------------------------------------------------------------------------
(* What the documents say, and the code does not keep. *)

\* docs/VERIFICATION.md:130: "A failed removal retains cancellation state,
\* preventing later start."  persist.go:436 removes the records in any order.
CancellationRetained == [][launched' # launched => ~cancelSaved]_vars

\* README.md:50-51: "If the time passes during registration, agent-at reports
\* the retained state instead of claiming success."  On Windows the one start
\* the trigger makes can meet the lock of the very registration that is then
\* reported successful, and is lost (persist.go:286-289,
\* persist_lock_execution_windows.go:5).
TimedRunNotTurnedAway ==
    report = "registered" /\ TimedRun \in turnedAway =>
        launched # {} \/ \E p \in Removers \cup (Executors \ {TimedRun}) : pc[p] # "idle"

=============================================================================
