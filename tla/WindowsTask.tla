----------------------------- MODULE WindowsTask -----------------------------
(***************************************************************************)
(* The Windows scheduler backend (persist_task_windows.go, persist_task.go *)
(* :97-195).  Each operation runs PowerShell once; PowerShell makes one    *)
(* COM call and prints one JSON object.  Anything can break before the     *)
(* call, or between the call and the object, so what an operation answers  *)
(* hangs on how the object is read.                                        *)
(***************************************************************************)

VARIABLES
    due,        \* the trigger's StartBoundary has come
    up,         \* the user is signed in
    registered, \* the task of this name, as Task Scheduler keeps it, or NoTask
    spent,      \* its time came: StartWhenAvailable is false
    saved,      \* the job directory is there
    step, caller, answer,   \* as in SystemdTask
    reply,      \* what PowerShell printed, and how it exited
    calm        \* from now on nothing fails, and nobody interferes

callVars == <<step, caller, answer>>
vars == <<due, up, registered, spent, saved, callVars, reply, calm>>

\* persist_task.go:178-182, with the principal's RunLevel and the trigger's Enabled.
Want == [Enabled |-> "true", MultipleInstancesPolicy |-> "IgnoreNew",
         DisallowStartIfOnBatteries |-> "false", StopIfGoingOnBatteries |-> "false",
         StartWhenAvailable |-> "false", RunOnlyIfIdle |-> "false",
         RunOnlyIfNetworkAvailable |-> "false", WakeToRun |-> "false",
         ExecutionTimeLimit |-> "PT0S", RunLevel |-> "LeastPrivilege", Trigger |-> "true"]
OSDefault == [Want EXCEPT !.DisallowStartIfOnBatteries = "true",
                          !.StopIfGoingOnBatteries = "true", !.ExecutionTimeLimit = "PT72H"]
Names == DOMAIN Want

\* "rest" stands for principal, time, action and directory: exactly the job's,
\* changed since, or another task's.
NoTask  == [rest |-> "none", set |-> Want]
Foreign == [rest |-> "foreign", set |-> Want]
taskXML == [rest |-> "exact", set |-> Want]
Changes(n) == {[Want EXCEPT ![n] = v] : v \in {"other", "PT72H", "true"}}
Edited  == [rest : {"changed"}, set : {Want}] \cup
           [rest : {"exact"}, set : UNION {Changes(n) : n \in Names}]

NoReply  == [json |-> "none", hr |-> "S_OK", failed |-> FALSE, xml |-> NoTask]
NoAnswer == [to |-> "none", is |-> "none"]

Init ==
    /\ due = FALSE /\ up = TRUE /\ saved = TRUE
    /\ registered \in {NoTask, Foreign}
    /\ spent = FALSE
    /\ step = "new" /\ caller = "none" /\ answer = NoAnswer
    /\ reply = NoReply /\ calm = FALSE

-----------------------------------------------------------------------------
(* The definition that comes back *)

\* Task Scheduler omits values equal to its defaults when it exports a task.
Exports(task) ==
    {task, [task EXCEPT !.set = [n \in Names |->
                IF task.set[n] = OSDefault[n] THEN "omitted" ELSE task.set[n]]]}

\* Mutant: an omitted value is taken for the wanted one.
TaskValueWanted(xml, n) == IF xml.set[n] = "omitted" THEN Want[n] ELSE xml.set[n]

\* Absence receives the default of the OS, not the desired value.
taskValue(xml, n) == IF xml.set[n] = "omitted" THEN OSDefault[n] ELSE xml.set[n]

\* Mutant: only the settings are compared.
ValidateSettings(xml) == \A n \in Names : taskValue(xml, n) = Want[n]

validateTaskXML(xml) == /\ xml.rest = "exact"
                        /\ \A n \in Names : taskValue(xml, n) = Want[n]

-----------------------------------------------------------------------------
(* PowerShell *)

\* Commands are typed in the user's interactive session.
Call(op) ==
    /\ saved /\ up
    /\ step = IF op = "Create" THEN "new" ELSE "idle"
    /\ step' = "run" /\ caller' = op /\ answer' = NoAnswer /\ reply' = NoReply
    /\ UNCHANGED <<due, up, registered, spent, saved, calm>>

\* remove calls Delete only after Read accepted the task or missed it.
CallDelete == answer.to = "Read" /\ answer.is \in {"ok", "missing"} /\ Call("Delete")

\* What PowerShell prints of a call that has returned.
Prints(hr, xml) ==
    LET whole == [json |-> IF hr = "S_OK" THEN "ok" ELSE "error", hr |-> hr,
                  failed |-> hr # "S_OK", xml |-> xml]
    IN  \/ reply' = whole
        \* It dies on the way, after all or none of its output.
        \/ ~calm /\ reply' \in {[whole EXCEPT !.failed = TRUE],
                                [NoReply EXCEPT !.failed = TRUE], NoReply}

NotFound == {"ERROR_FILE_NOT_FOUND", "SCHED_E_TASK_NOT_FOUND"}

\* RegisterTask with TASK_CREATE, GetTask(...).Xml, DeleteTask.
Perform ==
    /\ step = "run" /\ step' = "decode"
    /\ \/ /\ caller = "Create" /\ registered = NoTask
          /\ registered' = taskXML /\ spent' = due /\ Prints("S_OK", NoTask)
       \/ /\ caller = "Create" /\ registered # NoTask
          /\ Prints("ERROR_ALREADY_EXISTS", NoTask) /\ UNCHANGED <<registered, spent>>
       \/ /\ caller = "Read" /\ registered # NoTask
          /\ \E xml \in Exports(registered) : Prints("S_OK", xml)
          /\ UNCHANGED <<registered, spent>>
       \/ /\ caller = "Delete" /\ registered # NoTask
          /\ registered' = NoTask /\ spent' = FALSE /\ Prints("S_OK", NoTask)
       \/ /\ caller # "Create" /\ registered = NoTask
          /\ \E hr \in NotFound : Prints(hr, NoTask)
          /\ UNCHANGED <<registered, spent>>
       \* Access is denied, or the service is not there; or PowerShell does not
       \* get as far as the call.
       \/ ~calm /\ Prints("E_ACCESSDENIED", NoTask) /\ UNCHANGED <<registered, spent>>
       \/ ~calm /\ reply' = [NoReply EXCEPT !.failed = TRUE] /\ UNCHANGED <<registered, spent>>
    /\ UNCHANGED <<due, up, saved, caller, answer, calm>>

\* decodeTaskResponse: a whole object with a negative HRESULT is the word of Task
\* Scheduler; all else, even "ok" from a PowerShell that failed, is no answer.
decodeTaskResponse ==
    IF reply.json = "error" THEN reply.hr
    ELSE IF reply.json = "none" \/ reply.failed THEN "unknown" ELSE "S_OK"

\* Mutants: the answer that the task is missing is known by one code; a failure
\* of PowerShell refuses the task like one of Task Scheduler.
TaskNotFoundOneCode(result) == result = "ERROR_FILE_NOT_FOUND"
CreateResultDefinite(result) == IF result = "S_OK" THEN "ok" ELSE "refused"

taskNotFound(result) == result \in NotFound
createResult(result) == IF result = "S_OK" THEN "ok"
                        ELSE IF result = "unknown" THEN "uncertain" ELSE "refused"

Verdict(op, result) ==
    IF op = "Create" THEN createResult(result)
    ELSE IF taskNotFound(result) THEN "missing"
    ELSE IF result # "S_OK" \/ (op = "Read" /\ ~validateTaskXML(reply.xml)) THEN "error"
    ELSE "ok"

\* A refusal, and a Delete that is done, let the store remove the job directory.
Return ==
    /\ step = "decode" /\ step' = "idle" /\ caller' = "none"
    /\ LET verdict == Verdict(caller, decodeTaskResponse)
       IN  /\ answer' = [to |-> caller, is |-> verdict]
           /\ saved' = (saved /\ ~(verdict = "refused")
                              /\ ~(caller = "Delete" /\ verdict \in {"ok", "missing"}))
    /\ UNCHANGED <<due, up, registered, spent, reply, calm>>

Work == Perform \/ Return

-----------------------------------------------------------------------------
(* The world around *)

\* A time that comes while nobody is signed in is missed.
TimePasses ==
    /\ ~due /\ due' = TRUE
    /\ spent' = (spent \/ (registered # NoTask /\ ~up))
    /\ UNCHANGED <<up, registered, saved, callVars, reply, calm>>

Enabled == registered.set.Enabled = "true" /\ registered.set.Trigger = "true"

Fires ==
    /\ due /\ up /\ registered.rest \in {"exact", "changed"} /\ ~spent /\ spent' = TRUE
    /\ UNCHANGED <<due, up, registered, saved, callVars, reply, calm>>

CutShort == /\ step' = IF step = "new" THEN "new" ELSE "idle"
            /\ caller' = "none" /\ answer' = NoAnswer /\ reply' = NoReply

\* A call already made stands, as after Perform.
Killed ==
    /\ ~calm /\ step \notin {"new", "idle"} /\ CutShort
    /\ UNCHANGED <<due, up, registered, spent, saved, calm>>

SignOut ==
    /\ ~calm /\ up /\ up' = FALSE /\ CutShort
    /\ spent' = (spent \/ (due /\ registered # NoTask))
    /\ UNCHANGED <<due, registered, saved, calm>>
SignIn ==
    /\ ~up /\ up' = TRUE
    /\ UNCHANGED <<due, registered, spent, saved, callVars, reply, calm>>

\* While no operation runs, a user can edit the task or delete it.
Interfere ==
    /\ ~calm /\ step = "idle" /\ registered = taskXML
    /\ registered' \in Edited \cup {NoTask}
    /\ spent' = (spent /\ registered' # NoTask)
    /\ UNCHANGED <<due, up, saved, callVars, reply, calm>>

Settle == /\ ~calm /\ calm' = TRUE
          /\ UNCHANGED <<due, up, registered, spent, saved, callVars, reply>>

Next == \/ Call("Create") \/ Call("Read") \/ CallDelete \/ Work
        \/ TimePasses \/ Fires \/ Killed \/ SignOut \/ SignIn \/ Interfere \/ Settle

Spec == Init /\ [][Next]_vars

\* An operation goes on, and the user signs in and repeats the removal.
FairSpec == Spec /\ WF_vars(Work) /\ WF_vars(SignIn) /\ SF_vars(Call("Read")) /\ SF_vars(CallDelete)

-----------------------------------------------------------------------------

TypeOK ==
    /\ due \in BOOLEAN /\ up \in BOOLEAN /\ spent \in BOOLEAN /\ saved \in BOOLEAN /\ calm \in BOOLEAN
    /\ registered \in {NoTask, Foreign, taskXML} \cup Edited
    /\ step \in {"new", "idle", "run", "decode"}
    /\ caller \in {"none", "Create", "Read", "Delete"}
    /\ answer \in [to : {"none", "Create", "Read", "Delete"},
                   is : {"ok", "missing", "refused", "uncertain", "error", "none"}]

Ours == registered.rest \in {"exact", "changed"}
task == IF ~Ours THEN "absent"
        ELSE IF spent \/ ~Enabled THEN "dormant"
        ELSE IF up THEN "armed" ELSE "latent"

\* However PowerShell breaks off, the backend answers as the job store expects:
\* only the word of Task Scheduler refuses a task or calls it missing
\* (persist_task_windows.go:64-107, 146-166).
Contract == INSTANCE TaskContract WITH task <- task, calling <- caller, MissingMeansOff <- TRUE
KeepsContract == Contract!Spec

\* Read accepts no task but the job's own, unchanged: whichever of its values the
\* export leaves out, it runs on batteries and has no time limit
\* (persist_task.go:83-95, 178-191).
AcceptedIsWanted ==
    [][(answer' = [to |-> "Read", is |-> "ok"] /\ answer' # answer) => (registered = taskXML)]_vars

\* A task of this name that is another's stays, although Delete deletes by name:
\* Read stands before it (persist_task_windows.go:75-92, persist.go:415-435).
OthersKept == [][(registered.rest = "foreign") => UNCHANGED registered]_vars

\* A removal that broke off, even after Task Scheduler had deleted the task,
\* finishes when it is repeated (persist_task_windows.go:86-92, README.md:69-71).
RetriedRemovalFinishes ==
    calm /\ step # "new" /\ (registered \in {NoTask, taskXML}) ~> ~saved

=============================================================================
