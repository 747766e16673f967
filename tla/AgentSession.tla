---------------------------- MODULE AgentSession ----------------------------
(***************************************************************************)
(* An agent's run in the foreground: runAgent (process.go:64-153) in       *)
(* agent-at's own terminal, or on Windows in a new console                 *)
(* (platform_windows.go:80-279), where a second agent-at, the console      *)
(* child, gets the request over one pipe, runs the agent and tells over    *)
(* another whether it started.                                             *)
(***************************************************************************)
EXTENDS Await

VARIABLES
    run,        \* the step of runAgent, in agent-at or in the console child
    attached,   \* the streams of that process are a console
    cp,         \* the code pages of that console
    rc,         \* what runAgent returns
    started,    \* the error of Start, reported next
    child,      \* the console child
    sent,       \* what the child finds on the request pipe: "nothing", "request" or "end"
    result,     \* what agent-at finds on the result pipe
    writers     \* who holds the write end of the result pipe

sessionVars == <<run, attached, cp, rc, started, child, sent, result, writers>>

SessionInit ==
    /\ run = "none" /\ attached \in BOOLEAN /\ cp = [in |-> "own", out |-> "own"]
    /\ rc = "none" /\ started = "none" /\ child = "none"
    /\ sent = "nothing" /\ result = "none" /\ writers = {}

Window == mode = "console" /\ os = "windows"
Still  == UNCHANGED <<mode, os, now, jumps, timer, late, ctx, cancelledAt>>

-----------------------------------------------------------------------------
(* runAgent.  A step of it belongs to the console child, or to agent-at. *)

Runs(step) == run = step /\ IF Window THEN child = "agent" ELSE pc = "agent"

\* The callback `started`: nobody listens in agent-at's own terminal.
Report(err) ==
    IF Window /\ "child" \in writers
    THEN result' = err /\ writers' = writers \ {"child"}
    ELSE UNCHANGED <<result, writers>>

Own == UNCHANGED <<pc, code, child, sent>>

SetInputCP ==
    /\ Runs("input")
    /\ \/ /\ ~(os = "windows" /\ attached) /\ run' = "notify"
          /\ UNCHANGED <<cp, rc, result, writers>>
       \/ /\ os = "windows" /\ attached /\ run' = "output"
          /\ cp' = [cp EXCEPT !.in = "utf8"] /\ UNCHANGED <<rc, result, writers>>
       \/ /\ os = "windows" /\ attached /\ run' = "returned" /\ rc' = "1"
          /\ Report("error") /\ UNCHANGED cp
    /\ Own /\ Still /\ UNCHANGED <<handler, tmp, leader, attached, started>>

\* Mutant: the half that was set is left.
KeepInput == cp
RestoreInput == [cp EXCEPT !.in = "own"]

SetOutputCP ==
    /\ Runs("output")
    /\ \/ /\ cp' = [cp EXCEPT !.out = "utf8"] /\ run' = "notify"
          /\ UNCHANGED <<rc, result, writers>>
       \/ cp' = RestoreInput /\ run' = "returned" /\ rc' = "1" /\ Report("error")
    /\ Own /\ Still /\ UNCHANGED <<handler, tmp, leader, attached, started>>

\* Mutant: Ctrl+C is not caught.
NotifyNot ==
    /\ Runs("notify") /\ run' = "prepare"
    /\ Own /\ Still /\ UNCHANGED <<handler, tmp, leader, attached, cp, rc, started, result, writers>>

\* Ctrl+C stays the agent's alone; the supervisor has a prompt to remove.
Notify ==
    /\ Runs("notify") /\ run' = "prepare"
    /\ handler' = IF mode # "headless" /\ ~Window THEN "caught" ELSE handler
    /\ Own /\ Still /\ UNCHANGED <<tmp, leader, attached, cp, rc, started, result, writers>>

\* A long prompt for an interactive agent goes to a file, which an error takes back.
PrepareAgent ==
    /\ Runs("prepare")
    /\ \/ started' = "error" /\ run' = "report" /\ UNCHANGED tmp
       \/ run' = "start" /\ tmp' \in (IF mode = "headless" THEN {FALSE} ELSE BOOLEAN)
          /\ UNCHANGED started
    /\ Own /\ Still /\ UNCHANGED <<handler, leader, attached, cp, rc, result, writers>>

\* Who gets the write end of the result pipe from the child: it has taken the
\* inheritance off the handle.  Mutant: it has not.
AgentInherits == {"agent"}
AgentGets == {}

\* Mutant: the start is reported before it is tried.
StartReported ==
    /\ Runs("start") /\ run' = "report" /\ Report("ok")
    /\ \/ started' = "error" /\ UNCHANGED leader
       \/ started' = "ok" /\ leader' = "running"
    /\ Own /\ Still /\ UNCHANGED <<handler, tmp, attached, cp, rc>>

StartAgent ==
    /\ Runs("start") /\ run' = "report"
    /\ \/ started' = "error" /\ UNCHANGED <<leader, writers>>
       \/ /\ started' = "ok" /\ leader' = "running"
          /\ writers' = writers \cup (IF Window THEN AgentGets ELSE {})
    /\ Own /\ Still /\ UNCHANGED <<handler, tmp, attached, cp, rc, result>>

ReportStart ==
    /\ Runs("report") /\ Report(started)
    /\ IF started = "ok" THEN run' = "wait" /\ UNCHANGED rc ELSE run' = "cleanup" /\ rc' = "1"
    /\ Own /\ Still /\ UNCHANGED <<handler, tmp, leader, attached, cp, started>>

WaitAgent ==
    /\ Runs("wait") /\ leader = "zombie" /\ leader' = "reaped"
    /\ run' = "cleanup" /\ rc' \in {"0", "1", "child"}
    /\ Own /\ Still /\ UNCHANGED <<handler, tmp, attached, cp, started, result, writers>>

\* The deferred calls: cleanup, then signal.Stop and restore.
Cleanup ==
    /\ Runs("cleanup") /\ tmp' = FALSE /\ run' = "restore"
    /\ Own /\ Still /\ UNCHANGED <<handler, leader, attached, cp, rc, started, result, writers>>
Restore ==
    /\ Runs("restore") /\ run' = "returned" /\ cp' = [in |-> "own", out |-> "own"]
    /\ handler' = IF Window THEN handler ELSE "default"
    /\ Own /\ Still /\ UNCHANGED <<tmp, leader, attached, rc, started, result, writers>>

RunAgent == \/ SetInputCP \/ SetOutputCP \/ Notify \/ PrepareAgent \/ StartAgent
            \/ ReportStart \/ WaitAgent \/ Cleanup \/ Restore

-----------------------------------------------------------------------------
(* agent-at: the launch function of run, launchConsole *)

Launch ==
    /\ pc = "launch" /\ mode # "wake" /\ handler' = "default"
    /\ IF Window THEN pc' = "openConsole" /\ UNCHANGED run
                 ELSE pc' = "agent" /\ run' = "input"
    /\ Still /\ UNCHANGED <<code, tmp, leader, attached, cp, rc, started, child, sent, result, writers>>

AgentReturned ==
    /\ pc = "agent" /\ run = "returned" /\ Return(rc)
    /\ Still /\ UNCHANGED <<handler, tmp, leader, sessionVars>>

\* The two pipes and the child.  agent-at closes the ends it gave away.
OpenConsole ==
    /\ pc = "openConsole"
    /\ \/ Return("1") /\ UNCHANGED <<child, writers, attached>>
       \/ /\ pc' = "request" /\ child' = "decode" /\ writers' = {"child"} /\ attached' = TRUE
          /\ UNCHANGED code
    /\ Still /\ UNCHANGED <<handler, tmp, leader, run, cp, rc, started, sent, result>>

\* A child that does not get the request is killed.
WriteRequest ==
    /\ pc = "request"
    /\ \/ /\ child # "dead" /\ sent' = "request" /\ pc' = "answer"
          /\ UNCHANGED <<code, child, writers>>
       \/ /\ Return("1") /\ sent' = "end" /\ child' = "dead" /\ writers' = {}
    /\ Still /\ UNCHANGED <<handler, tmp, leader, run, attached, cp, rc, started, result>>

\* An answer, or the end of the pipe.
ReadAnswer ==
    /\ pc = "answer"
    /\ \/ result = "ok" /\ Return("0")
       \/ result = "error" /\ Return("1")
       \/ result = "none" /\ writers = {} /\ Return("1")
    /\ Still /\ UNCHANGED <<handler, tmp, leader, sessionVars>>

Parent == Launch \/ AgentReturned \/ OpenConsole \/ WriteRequest \/ ReadAnswer

-----------------------------------------------------------------------------
(* The console child *)

Closes(step) == /\ child' = step
                /\ Still /\ UNCHANGED <<pc, code, handler, tmp, leader, attached, cp, rc, started, sent>>

\* It exits without a word when a handle is no good.
ChildDecodes ==
    /\ child = "decode"
    /\ \/ writers' = writers \ {"child"} /\ Closes("dead") /\ UNCHANGED <<run, result>>
       \/ sent = "request" /\ Closes("open") /\ UNCHANGED <<run, result, writers>>
       \/ sent = "end" /\ Report("error") /\ Closes("dead") /\ UNCHANGED run
ChildOpens ==
    /\ child = "open"
    /\ \/ Report("error") /\ Closes("dead") /\ UNCHANGED run
       \/ Closes("agent") /\ run' = "input" /\ UNCHANGED <<result, writers>>

\* Without --close-on-exit the window waits for a key.
ChildReturns ==
    /\ child = "agent" /\ run = "returned"
    /\ Closes("hold") \/ Closes("dead")
    /\ writers' = writers \ {"child"} /\ UNCHANGED <<run, result>>
KeyPressed == child = "hold" /\ Closes("dead") /\ UNCHANGED <<run, result, writers>>

\* agent-at is gone, and its end of the request pipe closed.
RequestEnds ==
    /\ child = "decode" /\ Stopped /\ sent = "nothing" /\ sent' = "end"
    /\ Still /\ UNCHANGED <<pc, code, handler, tmp, leader, run, attached, cp, rc, started, child, result, writers>>

Child == RequestEnds \/ ChildDecodes \/ ChildOpens \/ ChildReturns

-----------------------------------------------------------------------------
(* The processes *)

AgentEnds ==
    /\ mode # "wake" /\ leader = "running" /\ leader' = "zombie"
    /\ writers' = writers \ {"agent"}
    /\ Still /\ UNCHANGED <<pc, code, handler, tmp, run, attached, cp, rc, started, child, sent, result>>

\* Its window is closed, or the child is killed; the agent may outlive it.
WindowClosed ==
    /\ child \notin {"none", "dead"} /\ child' = "dead"
    /\ leader' \in {leader} \cup (IF leader = "running" THEN {"zombie"} ELSE {})
    /\ writers' = writers \ ({"child"} \cup (IF leader' = "zombie" THEN {"agent"} ELSE {}))
    /\ Still /\ UNCHANGED <<pc, code, handler, tmp, run, attached, cp, rc, started, sent, result>>

=============================================================================
