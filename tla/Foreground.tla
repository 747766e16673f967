----------------------------- MODULE Foreground -----------------------------
(***************************************************************************)
(* agent-at in the foreground, from its start to its exit: the wait        *)
(* (Await), and then the wake request (WakeRunner) or the agent's run      *)
(* (AgentSession) that it launches.                                        *)
(***************************************************************************)
EXTENDS WakeRunner, AgentSession

vars == <<awaitVars, groupVars, sessionVars>>

ForegroundInit == Init /\ WakeInit /\ SessionInit

Waiting  == AwaitStep \/ Tick \/ Jump \/ Interrupt
WakeRuns == \/ WakeStep \/ WaitGoroutine \/ LimitExpires \/ IDReused \/ Killed
            \/ Live(LeaderEnds \/ LeaderForks \/ KidLeaves \/ KidEnds \/ KilledDies)
AgentRuns == RunAgent \/ Parent \/ Child \/ KeyPressed \/ AgentEnds \/ WindowClosed

Next == \/ Waiting /\ UNCHANGED <<groupVars, sessionVars>>
        \/ WakeRuns /\ UNCHANGED sessionVars
        \/ AgentRuns /\ UNCHANGED groupVars

Spec == ForegroundInit /\ [][Next]_vars

\* A process that is not stopped goes on, time passes, the limit comes, and what is
\* killed dies.  Nothing is assumed of an agent, a CLI or the user.
FairSpec ==
    /\ Spec
    /\ WF_vars(AwaitStep /\ UNCHANGED <<groupVars, sessionVars>>)
    /\ WF_vars(Tick /\ UNCHANGED <<groupVars, sessionVars>>)
    /\ WF_vars(WakeStep /\ UNCHANGED sessionVars)
    /\ WF_vars(WaitGoroutine /\ UNCHANGED sessionVars)
    /\ WF_vars(LimitExpires /\ UNCHANGED sessionVars)
    /\ WF_vars(Live(KilledDies) /\ UNCHANGED sessionVars)
    /\ WF_vars(RunAgent /\ UNCHANGED groupVars)
    /\ WF_vars(Parent /\ UNCHANGED groupVars)
    /\ WF_vars(Child /\ UNCHANGED groupVars)

-----------------------------------------------------------------------------

TypeOK ==
    /\ now \in 0..Horizon /\ jumps \in 0..MaxJumps /\ timer \in 0..Second /\ late \in Nat
    /\ ctx \in BOOLEAN /\ tmp \in BOOLEAN /\ handler \in {"default", "ctx", "caught"}
    /\ code \in {"none", "0", "1", "2", "124", "130", "child"}
    /\ leader \in {"none", "suspended", "running", "dying", "zombie", "reaped"}
    /\ kid \in {"none", "in", "left", "dying", "gone"} /\ exit \in {"none", "zero", "nonzero", "killed"}
    /\ {done, limit, broken, ended, reused, struck, inJob, attached} \subseteq BOOLEAN
    /\ result \in {"none", "ok", "error"} /\ writers \subseteq {"child", "agent"}

\* However the clock is set and the machine sleeps, the wait ends neither before the
\* time by the wall clock nor more than a second of running time after it
\* (schedule.go:86-101).
LaunchedInTime ==
    [][/\ late' <= Second
       /\ pc # "launch" /\ pc' = "launch" => now >= Due]_vars

\* What Ctrl+C cancels before its last look at the context is not launched.  The wake
\* request looks again before it starts; an agent is past its last look once the
\* loop reads the clock (schedule.go:85-102, main.go:233-234, wake.go:115).
CancelledStartsNothing ==
    [][(leader = "none" /\ leader' # "none" /\ ctx)
        => (mode # "wake" /\ cancelledAt \in {"clock", "launch"})]_vars

\* Nothing of a wake request runs on when agent-at returns, or Ctrl+C takes it away
\* while it prepares or cleans up; on Windows, not even when it is killed, since nothing
\* runs before it is in the job (wake_process_unix.go:25-34,
\* wake_process_windows.go:41-88, wake.go:87-88).
GroupEnded ==
    mode = "wake" /\ (pc \in {"exited", "interrupted"} \/ (pc = "killed" /\ os = "windows"))
        => leader \notin {"running"} /\ kid # "in"

\* One outcome is reported, the one that came about: a request that agent-at killed
\* ends with 130 after Ctrl+C and with 124 after its limit, whatever came next, and
\* with its own code only when it ended by itself (wake.go:130-153).
OutcomeTrue ==
    pc = "exited" /\ mode = "wake" /\ what = "request" =>
        /\ exit = "killed" => (code = "130" /\ ctx) \/ (code = "124" /\ limit)
        /\ code = "0" => exit = "zero"

\* The group that agent-at killed is not killed again on the way out, when its ID may
\* be another group's (sync.Once, wake_process_unix.go:23-34).  A group whose leader
\* ended by itself may be gone already when it is killed: README, "Where documents and
\* code disagree".
KilledOnce == struck => exit # "killed"

\* A temporary directory goes after the process that uses it; on Windows after every
\* descendant, unless a call on the job fails (wake.go:146-151, process.go:130-142,
\* wake_process_windows.go:70-84).
TempDirLast ==
    [][(tmp /\ ~tmp') => /\ leader \in {"none", "reaped"}
                         /\ mode = "wake" /\ os = "windows" /\ ~broken => ~Active]_vars

\* It does go: agent-at does not exit before it, and Ctrl+C does not leave it behind
\* while agent-at waits, a wake request runs or an agent reads it (process.go:77-94,
\* 122-131, wake.go:57-61).  Two moments are left: before NotifyContext, and when a
\* wake's deferred stop() has run and its cleanup() has not (main.go:224-230,
\* wake.go:81-88; README, "Where documents and code disagree").
Exposed == pc \in {"fill", "undo", "notify"} \/ (pc = "remove" /\ mode = "wake")
TempDirRemoved ==
    [][~Stopped /\ pc' \in {"exited", "interrupted"} /\ ~Window =>
           ~tmp' \/ (pc' = "interrupted" /\ Exposed)]_vars

\* A session that is over, or did not begin, leaves the console its code pages
\* (platform_windows.go:113-126).
ConsoleRestored == run = "returned" => cp = [in |-> "own", out |-> "own"]

\* agent-at reports the launch of a new console's agent as it was: success means that
\* the agent was started, and a reported error that none was
\* (platform_windows.go:169-180, 206-235).
AnswerTrue ==
    Window /\ pc = "exited" => /\ code = "0" => leader # "none"
                               /\ result = "error" => leader = "none"

\* A wake ends, by its limit if need be, whatever the CLI and its descendants in the
\* group do.  What left the group can keep the status pipes of macOS open, and a job
\* that cannot be ended its processes (wake.go:126-151).
WakeEnds ==
    pc = "start" ~> Stopped \/ (kid = "left" /\ what = "probe") \/ broken

\* agent-at waits for the console child's answer no longer than there can be one: the
\* child that is closed or fails ends the pipe, and the agent does not hold it
\* (platform_windows.go:160-176, 200-205).
ParentAnswered == pc \in {"request", "answer"} ~> Stopped

=============================================================================
