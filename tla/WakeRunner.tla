----------------------------- MODULE WakeRunner -----------------------------
(***************************************************************************)
(* The wake request (wake.go:80-154): it is authorized, on macOS by asking *)
(* the CLI itself, and runs within a limit in a process group (Unix,       *)
(* wake_process_unix.go) or a job object (Windows,                         *)
(* wake_process_windows.go) that is ended with it.  The probe of macOS and *)
(* the request share runWakeResult.                                        *)
(***************************************************************************)
EXTENDS Await

VARIABLES
    what,       \* what runWakeResult runs: "probe" or "request"
    kid,        \* a process the leader started: "in" the group or job, "left" it, ...
    inJob,      \* Windows: the leader is assigned to the job
    exit,       \* how the leader ended
    done,       \* cmd.Wait has returned
    limit,      \* the timer of the limit fired
    broken,     \* Windows: a call on the job failed
    ended,      \* terminate has been called
    reused,     \* Unix: the ID of the group, reaped and empty, names another one
    struck      \* that other group was killed

groupVars == <<what, kid, inJob, exit, done, limit, broken, ended, reused, struck>>

WakeInit ==
    /\ what = "none" /\ kid = "none" /\ inJob = FALSE /\ exit = "none" /\ done = FALSE
    /\ limit = FALSE /\ broken = FALSE /\ ended = FALSE /\ reused = FALSE /\ struck = FALSE

Calm == UNCHANGED <<choice, clockVars, signals>>

-----------------------------------------------------------------------------
(* authorizeWakeCommand *)

\* The next process starts from nothing; one that left the probe's group stays, one
\* that is dying is forgotten.
Begin(w) ==
    /\ pc' = "start" /\ what' = w /\ leader' = "none"
    /\ kid' = IF kid = "left" THEN kid ELSE "none"
    /\ exit' = "none" /\ done' = FALSE /\ limit' = FALSE /\ inJob' = FALSE
    /\ ended' = FALSE /\ reused' = FALSE /\ struck' = FALSE
    /\ UNCHANGED <<code, broken>>

\* Credential files decide, or on macOS the status command may have to.
Authorize ==
    /\ pc = "launch" /\ mode = "wake"
    /\ \/ Return("1") /\ UNCHANGED <<leader, groupVars>>
       \/ Begin("request")
       \/ os = "darwin" /\ Begin("probe")
    /\ Calm /\ UNCHANGED tmp

\* The last deferred call of runWakeResult is over.  A probe that did not end with 0,
\* or whose answer does not show a subscription, refuses the request.
Finish ==
    /\ pc = "finish"
    /\ IF what = "request"
       THEN pc' = "leave" /\ UNCHANGED <<code, leader, groupVars>>
       ELSE \/ Return("1") /\ UNCHANGED <<leader, groupVars>>
            \/ code = "0" /\ Begin("request")
    /\ Calm /\ UNCHANGED tmp

-----------------------------------------------------------------------------
(* runWakeResult, startWakeProcess *)

\* Mutant: the child is not created suspended.
StartRunning ==
    /\ pc = "start" /\ ~ctx /\ UNCHANGED code
    /\ leader' = "running" /\ pc' = IF os = "windows" THEN "assign" ELSE "select"
    /\ Calm /\ UNCHANGED <<tmp, groupVars>>

Start ==
    /\ pc = "start"
    /\ \/ ctx /\ pc' = "finish" /\ code' = "130" /\ UNCHANGED leader
       \/ ~ctx /\ pc' = "finish" /\ code' = "1" /\ UNCHANGED leader
       \/ /\ ~ctx /\ UNCHANGED code
          /\ IF os = "windows" THEN leader' = "suspended" /\ pc' = "assign"
                               ELSE leader' = "running" /\ pc' = "select"
    /\ Calm /\ UNCHANGED <<tmp, groupVars>>

\* fail: the suspended process is killed and waited for.
FailStart == leader' = "reaped" /\ pc' = "finish" /\ code' = "1"

Assign ==
    /\ pc = "assign"
    /\ \/ inJob' = TRUE /\ pc' = "resume" /\ UNCHANGED <<code, leader>>
       \/ FailStart /\ UNCHANGED inJob
    /\ Calm
    /\ UNCHANGED <<tmp, what, kid, exit, done, limit, broken, ended, reused, struck>>

Resume ==
    /\ pc = "resume"
    /\ \/ leader' = "running" /\ pc' = "select" /\ UNCHANGED code
       \/ FailStart
    /\ Calm /\ UNCHANGED <<tmp, groupVars>>

ExitCode == IF exit = "zero" THEN "0" ELSE "child"

Select ==
    /\ pc = "select"
    /\ \/ done  /\ pc' = "release"   /\ code' = ExitCode
       \/ ctx   /\ pc' = "terminate" /\ code' = "130"
       \/ limit /\ pc' = "terminate" /\ code' = "124"
    /\ Calm /\ UNCHANGED <<tmp, leader, groupVars>>

\* Mutant: only the leader is killed.
KillLeader ==
    /\ leader' = IF leader = "running" THEN "dying" ELSE leader
    /\ UNCHANGED kid

\* SIGKILL reaches every member, at some time.
KillMembers ==
    /\ leader' = IF leader = "running" THEN "dying" ELSE leader
    /\ kid' = IF kid = "in" THEN "dying" ELSE kid

\* kill(-pid), TerminateJobObject.
KillGroup == KillMembers /\ struck' = (struck \/ (os # "windows" /\ reused))

Active == leader \in {"running", "dying"} \/ kid \in {"in", "dying"}

\* Mutant: every call signals.
EndGroupAgain(next, poll) ==
    /\ ended' = TRUE
    /\ \/ os # "windows" /\ pc' = next /\ KillGroup /\ UNCHANGED broken
       \/ os = "windows" /\ pc' = poll /\ KillGroup /\ UNCHANGED broken
       \/ os = "windows" /\ pc' = next /\ broken' = TRUE /\ UNCHANGED <<leader, kid, struck>>
    /\ Calm /\ UNCHANGED <<code, tmp, what, inJob, exit, done, limit, reused>>

\* Unix signals once.  Windows asks until nothing in the job is active, unless a
\* call fails.
EndGroup(next, poll) ==
    /\ ended' = TRUE
    /\ \/ /\ os # "windows" /\ pc' = next /\ UNCHANGED broken
          /\ IF ended THEN UNCHANGED <<leader, kid, struck>> ELSE KillGroup
       \/ os = "windows" /\ pc' = poll /\ KillGroup /\ UNCHANGED broken
       \/ os = "windows" /\ pc' = next /\ broken' = TRUE /\ UNCHANGED <<leader, kid, struck>>
    /\ Calm /\ UNCHANGED <<code, tmp, what, inJob, exit, done, limit, reused>>

Poll(poll, next) ==
    /\ pc = poll /\ pc' = next
    /\ \/ ~Active /\ UNCHANGED broken
       \/ Active /\ broken' = TRUE
    /\ Calm
    /\ UNCHANGED <<code, tmp, leader, what, kid, inJob, exit, done, limit, ended, reused, struck>>

Terminate == pc = "terminate" /\ EndGroup("drain", "terminating")

\* Mutant: the directory is removed without waiting for the child.
DrainNot == /\ pc = "drain" /\ pc' = "release"
            /\ Calm /\ UNCHANGED <<code, tmp, leader, groupVars>>

\* Mutant: the child's own result takes the place of the outcome.
DrainResult == /\ pc = "drain" /\ done /\ pc' = "release" /\ code' = ExitCode
               /\ Calm /\ UNCHANGED <<tmp, leader, groupVars>>

\* <-done, without a limit.
Drain == /\ pc = "drain" /\ done /\ pc' = "release"
         /\ Calm /\ UNCHANGED <<code, tmp, leader, groupVars>>

Release == pc = "release" /\ EndGroup("close", "releasing")

\* The job goes with its last handle, and its processes with the job.
Close ==
    /\ pc = "close" /\ pc' = "finish"
    /\ IF os = "windows" THEN KillMembers ELSE UNCHANGED <<leader, kid>>
    /\ Calm
    /\ UNCHANGED <<code, tmp, what, inJob, exit, done, limit, broken, ended, reused, struck>>

WakeStep == \/ Authorize \/ Finish \/ Start \/ Assign \/ Resume \/ Select
            \/ Terminate \/ Poll("terminating", "drain") \/ Drain \/ Release \/ Poll("releasing", "close") \/ Close

-----------------------------------------------------------------------------
(* The processes *)

\* The leader ends; or the children it leaves.
LeaderEnds ==
    /\ mode = "wake" /\ leader = "running" /\ leader' = "zombie"
    /\ exit' \in {"zero", "nonzero"} /\ UNCHANGED kid
LeaderForks == mode = "wake" /\ leader = "running" /\ kid = "none" /\ kid' = "in"
               /\ UNCHANGED <<leader, exit>>
KidLeaves == kid = "in" /\ os # "windows" /\ kid' = "left" /\ UNCHANGED <<leader, exit>>
KidEnds == kid \in {"in", "left"} /\ kid' = "gone" /\ UNCHANGED <<leader, exit>>
KilledDies ==
    \/ leader = "dying" /\ leader' = "zombie" /\ exit' = "killed" /\ UNCHANGED kid
    \/ kid = "dying" /\ kid' = "gone" /\ UNCHANGED <<leader, exit>>
Live(A) == A /\ Calm
             /\ UNCHANGED <<pc, code, tmp, what, inJob, done, limit, broken, ended, reused, struck>>

\* The goroutine that waits.  A status command writes to pipes, which are read to
\* their end; a request writes to agent-at's own streams.
Reap ==
    \/ leader = "zombie" /\ leader' = "reaped" /\ UNCHANGED done
    \/ /\ leader = "reaped" /\ exit # "none" /\ ~done /\ done' = TRUE /\ UNCHANGED leader
       /\ what = "probe" => kid \in {"none", "gone"}
WaitGoroutine == /\ mode = "wake" /\ ~Stopped /\ Reap /\ Calm
                 /\ UNCHANGED <<pc, code, tmp, what, kid, inJob, exit, limit, broken, ended, reused, struck>>

LimitExpires ==
    /\ pc = "select" /\ ~limit /\ limit' = TRUE /\ Calm
    /\ UNCHANGED <<pc, code, tmp, leader, what, kid, inJob, exit, done, broken, ended, reused, struck>>

IDReused ==
    /\ os # "windows" /\ mode = "wake" /\ pc \in {"select", "terminate", "drain", "release"}
    /\ leader = "reaped" /\ kid \notin {"in", "dying"} /\ ~reused /\ reused' = TRUE /\ Calm
    /\ UNCHANGED <<pc, code, tmp, leader, what, kid, inJob, exit, done, limit, broken, ended, struck>>

\* agent-at is killed, or its session ends: a job goes with its handle, a process
\* group stays.
Killed ==
    /\ ~Stopped /\ pc' = "killed" /\ Calm
    /\ IF inJob THEN KillMembers ELSE UNCHANGED <<leader, kid>>
    /\ UNCHANGED <<code, tmp, what, inJob, exit, done, limit, broken, ended, reused, struck>>

=============================================================================
