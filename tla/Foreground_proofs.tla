-------------------------- MODULE Foreground_proofs --------------------------
(***************************************************************************)
(* Theorems about agent-at in the foreground, for every instant of --at,   *)
(* every length of a second and any number of clock jumps.                 *)
(***************************************************************************)
EXTENDS Foreground, TLAPS

-----------------------------------------------------------------------------
(* The clocks *)

\* Before the time nothing is late, and after it no more time is left to wait than
\* makes a second with what has gone by.
ClockInv ==
    /\ now \in Nat /\ timer \in Nat /\ late \in Nat
    /\ late + timer <= Second
    /\ now < Due => late = 0

LEMMA MinOfTwo ==
    ASSUME NEW a \in Nat, NEW b \in Nat
    PROVE  Min({a, b}) \in {a, b} /\ Min({a, b}) <= a /\ Min({a, b}) <= b
<1>1. \E x \in {a, b} : \A y \in {a, b} : x <= y
  OBVIOUS
<1>. QED  BY <1>1 DEF Min

LEMMA WakeKeepsClock == ASSUME WakeRuns PROVE UNCHANGED clockVars
<1>1. CASE WakeStep
  BY <1>1 DEF WakeStep, Authorize, Finish, Start, Assign, Resume, Select, Terminate, Poll,
              Drain, Release, Close, EndGroup, Calm
<1>2. CASE WaitGoroutine \/ LimitExpires \/ IDReused \/ Killed
  BY <1>2 DEF WaitGoroutine, LimitExpires, IDReused, Killed, Calm
<1>3. CASE Live(LeaderEnds \/ LeaderForks \/ KidLeaves \/ KidEnds \/ KilledDies)
  BY <1>3 DEF Live, Calm
<1>. QED  BY <1>1, <1>2, <1>3 DEF WakeRuns

LEMMA AgentKeepsClock == ASSUME AgentRuns PROVE UNCHANGED clockVars
<1>1. CASE RunAgent
  BY <1>1 DEF RunAgent, SetInputCP, SetOutputCP, Notify, PrepareAgent, StartAgent,
              ReportStart, WaitAgent, Cleanup, Restore, Still, clockVars
<1>2. CASE Parent
  BY <1>2 DEF Parent, Launch, AgentReturned, OpenConsole, WriteRequest, ReadAnswer, Still, clockVars
<1>3. CASE Child \/ KeyPressed
  BY <1>3 DEF Child, RequestEnds, ChildDecodes, ChildOpens, ChildReturns, KeyPressed, Closes,
              Still, clockVars
<1>4. CASE AgentEnds \/ WindowClosed
  BY <1>4 DEF AgentEnds, WindowClosed, Still, clockVars
<1>. QED  BY <1>1, <1>2, <1>3, <1>4 DEF AgentRuns

LEMMA ClockStep == ASSUME ClockInv, [Next]_vars PROVE ClockInv'
<1>. USE TimeAssumption
<1>. USE DEF ClockInv
<1>1. CASE UNCHANGED clockVars
  BY <1>1 DEF clockVars
<1>2. CASE ReadClock
  <2>1. CASE now >= Due
    BY <1>2, <2>1 DEF ReadClock
  <2>2. CASE now < Due
    <3>1. Due - now \in Nat
      BY <2>2
    <3>2. WaitFor(Due - now) \in Nat /\ WaitFor(Due - now) <= Second
      BY <3>1, MinOfTwo DEF WaitFor
    <3>. QED  BY <1>2, <2>2, <3>2 DEF ReadClock
  <2>. QED  BY <2>1, <2>2
<1>3. CASE Tick
  <2>1. Min({now + 1, Horizon}) \in {now + 1, Horizon}
    BY MinOfTwo
  <2>2. now >= Due => now' >= Due
    BY <1>3, <2>1 DEF Tick
  <2>. QED  BY <1>3, <2>1, <2>2 DEF Tick
<1>4. CASE Jump
  BY <1>4 DEF Jump
<1>5. CASE AwaitStep /\ ~ReadClock
  <2>1. UNCHANGED clockVars
    BY <1>5 DEF AwaitStep, Prepare, MakeTemp, FillTemp, UndoTemp, NotifyContext, CheckContext, Wait,
                  Leave, StopNotify, RemoveTemp, clockVars
  <2>. QED  BY <2>1, <1>1
<1>6. CASE Interrupt
  BY <1>6, <1>1 DEF Interrupt
<1>7. CASE WakeRuns
  BY <1>7, <1>1, WakeKeepsClock
<1>8. CASE AgentRuns
  BY <1>8, <1>1, AgentKeepsClock
<1>9. CASE UNCHANGED vars
  BY <1>9, <1>1 DEF vars, awaitVars
<1>. QED  BY <1>2, <1>3, <1>4, <1>5, <1>6, <1>7, <1>8, <1>9 DEF Next, Waiting

LEMMA ClockInvariance == Spec => []ClockInv
<1>1. ForegroundInit => ClockInv
  BY TimeAssumption DEF ForegroundInit, Init, ClockInv
<1>2. ClockInv /\ [Next]_vars => ClockInv'
  BY ClockStep
<1>. QED  BY <1>1, <1>2, PTL DEF Spec

\* Only await's look at the clock leads to the launch.
LEMMA OnlyTheClockLaunches ==
    ASSUME Next, pc # "launch", pc' = "launch" PROVE ReadClock
<1>1. CASE Waiting
  <2>1. CASE Prepare \/ Leave
    BY <2>1 DEF Prepare, MakeTemp, FillTemp, UndoTemp, NotifyContext, Leave, StopNotify, RemoveTemp, Return
  <2>2. CASE CheckContext \/ Wait
    BY <2>2 DEF CheckContext, Wait, Return
  <2>3. CASE Tick \/ Jump \/ Interrupt
    BY <2>3 DEF Tick, Jump, Interrupt
  <2>. QED  BY <1>1, <2>1, <2>2, <2>3 DEF Waiting, AwaitStep
<1>2. CASE WakeRuns
  <2>1. CASE WakeStep
    BY <2>1 DEF WakeStep, Authorize, Finish, Begin, Start, Assign, Resume, FailStart, Select,
                Terminate, Poll, Drain, Release, Close, EndGroup, Return
  <2>2. CASE WaitGoroutine \/ LimitExpires \/ IDReused \/ Killed
    BY <2>2 DEF WaitGoroutine, LimitExpires, IDReused, Killed
  <2>3. CASE Live(LeaderEnds \/ LeaderForks \/ KidLeaves \/ KidEnds \/ KilledDies)
    BY <2>3 DEF Live
  <2>. QED  BY <1>2, <2>1, <2>2, <2>3 DEF WakeRuns
<1>3. CASE AgentRuns
  <2>1. CASE RunAgent
    BY <2>1 DEF RunAgent, SetInputCP, SetOutputCP, Notify, PrepareAgent, StartAgent,
                ReportStart, WaitAgent, Cleanup, Restore, Own
  <2>2. CASE Parent
    BY <2>2 DEF Parent, Launch, AgentReturned, OpenConsole, WriteRequest, ReadAnswer, Return
  <2>3. CASE Child \/ KeyPressed
    BY <2>3 DEF Child, RequestEnds, ChildDecodes, ChildOpens, ChildReturns, KeyPressed, Closes
  <2>4. CASE AgentEnds \/ WindowClosed
    BY <2>4 DEF AgentEnds, WindowClosed
  <2>. QED  BY <1>3, <2>1, <2>2, <2>3, <2>4 DEF AgentRuns
<1>. QED  BY <1>1, <1>2, <1>3 DEF Next

\* await, schedule.go:68-108: it goes on to the launch only when the wall clock it read
\* has reached the time, and whatever that clock does, not more than a second of running
\* time after that, for every length of a second and any number of jumps.
THEOREM Timely == Spec => LaunchedInTime
<1>1. ASSUME ClockInv, Next
      PROVE  late' <= Second /\ (pc # "launch" /\ pc' = "launch" => now >= Due)
  <2>1. late' <= Second
    BY <1>1, ClockStep, TimeAssumption DEF ClockInv
  <2>2. ASSUME pc # "launch", pc' = "launch" PROVE now >= Due
    <3>1. ReadClock
      BY <1>1, <2>2, OnlyTheClockLaunches
    <3>. QED  BY <3>1, <2>2 DEF ReadClock
  <2>. QED  BY <2>1, <2>2
<1>2. ClockInv /\ [Next]_vars =>
          [late' <= Second /\ (pc # "launch" /\ pc' = "launch" => now >= Due)]_vars
  BY <1>1
<1>. QED  BY <1>2, ClockInvariance, PTL DEF Spec, LaunchedInTime

-----------------------------------------------------------------------------
(* Where agent-at can be *)

WaitPcs    == {"prepare", "fill", "undo", "notify", "check", "clock", "wait", "launch"}
WakePcs    == {"start", "assign", "resume", "select", "terminate", "terminating", "drain",
               "release", "releasing", "close", "finish"}
SessionPcs == {"openConsole", "agent", "request", "answer"}
EndPcs     == {"leave", "remove", "exited", "interrupted", "killed"}

\* A wake has no session, a session no group; and nothing is launched while waiting.
PlaceInv ==
    /\ mode \in {"wake", "headless", "interactive", "console"}
    /\ mode = "wake"  => /\ pc \in WaitPcs \cup WakePcs \cup EndPcs
                         /\ run = "none" /\ child = "none"
    /\ mode # "wake" => /\ pc \in WaitPcs \cup SessionPcs \cup EndPcs
                        /\ what = "none" /\ kid = "none" /\ leader # "dying" /\ ~inJob
    /\ pc \in WaitPcs => /\ leader = "none" /\ what = "none" /\ kid = "none" /\ ~inJob
                         /\ ~done /\ ~ended /\ exit = "none" /\ run = "none" /\ child = "none"

\* What was cancelled before a session was cancelled after the last look at the context,
\* and during a session nothing cancels.
CancelInv ==
    /\ pc = "clock" /\ ctx => cancelledAt = "clock"
    /\ pc = "launch" /\ ctx => cancelledAt \in {"clock", "launch"}
    /\ run # "none" \/ child # "none" \/ pc \in SessionPcs =>
          handler # "ctx" /\ (ctx => cancelledAt \in {"clock", "launch"})

LEMMA PlaceInit == ASSUME ForegroundInit PROVE PlaceInv /\ CancelInv
BY DEF ForegroundInit, Init, WakeInit, SessionInit, PlaceInv, CancelInv, WaitPcs, SessionPcs

LEMMA WaitingKeepsPlace ==
    ASSUME PlaceInv, CancelInv, Waiting, UNCHANGED <<groupVars, sessionVars>>
    PROVE  PlaceInv' /\ CancelInv'
<1>. USE DEF PlaceInv, CancelInv, WaitPcs, WakePcs, SessionPcs, EndPcs, groupVars, sessionVars,
             choice, clockVars, signals
<1>1. CASE Prepare
  BY <1>1 DEF Prepare, MakeTemp, FillTemp, UndoTemp, NotifyContext, Return
<1>2. CASE CheckContext
  BY <1>2 DEF CheckContext, Return
<1>3. CASE ReadClock
  BY <1>3 DEF ReadClock
<1>4. CASE Wait
  BY <1>4 DEF Wait, Return
<1>5. CASE Leave
  BY <1>5 DEF Leave, StopNotify, RemoveTemp
<1>6. CASE Tick
  BY <1>6 DEF Tick
<1>7. CASE Jump
  BY <1>7 DEF Jump
<1>8. CASE Interrupt
  BY <1>8 DEF Interrupt, Stopped
<1>. QED  BY <1>1, <1>2, <1>3, <1>4, <1>5, <1>6, <1>7, <1>8 DEF Waiting, AwaitStep


LEMMA WakeKeepsPlace ==
    ASSUME PlaceInv, CancelInv, WakeRuns, UNCHANGED sessionVars
    PROVE  PlaceInv' /\ CancelInv'
<1>. USE DEF PlaceInv, CancelInv, WaitPcs, WakePcs, SessionPcs, EndPcs, groupVars, sessionVars,
             choice, clockVars, signals, Calm
<1>1. CASE Authorize \/ Finish
  BY <1>1 DEF Authorize, Finish, Begin, Return
<1>2. CASE Start \/ Assign \/ Resume
  BY <1>2 DEF Start, Assign, Resume, FailStart
<1>3. CASE Select
  BY <1>3 DEF Select
<1>4. CASE Terminate \/ Release
  BY <1>4 DEF Terminate, Release, EndGroup, KillGroup, KillMembers
<1>5. CASE Poll("terminating", "drain") \/ Poll("releasing", "close")
  BY <1>5 DEF Poll
<1>6. CASE Drain \/ Close
  BY <1>6 DEF Drain, Close, KillMembers
<1>7. CASE Live(LeaderEnds \/ LeaderForks \/ KidLeaves \/ KidEnds \/ KilledDies)
  BY <1>7 DEF Live, LeaderEnds, LeaderForks, KidLeaves, KidEnds, KilledDies
<1>8. CASE WaitGoroutine \/ LimitExpires \/ IDReused
  BY <1>8 DEF WaitGoroutine, Reap, LimitExpires, IDReused
<1>9. CASE Killed
  BY <1>9 DEF Killed, KillMembers, Stopped
<1>. QED  BY <1>1, <1>2, <1>3, <1>4, <1>5, <1>6, <1>7, <1>8, <1>9 DEF WakeRuns, WakeStep

\* A session belongs to no wake.
LEMMA AgentIsNoWake == ASSUME PlaceInv, AgentRuns PROVE mode # "wake" /\ UNCHANGED <<mode, os>>
<1>. USE DEF PlaceInv, WaitPcs, WakePcs, EndPcs, Still, Runs, Window
<1>1. CASE RunAgent
  BY <1>1 DEF RunAgent, SetInputCP, SetOutputCP, Notify, PrepareAgent, StartAgent,
              ReportStart, WaitAgent, Cleanup, Restore
<1>2. CASE Parent
  BY <1>2 DEF Parent, Launch, AgentReturned, OpenConsole, WriteRequest, ReadAnswer
<1>3. CASE Child \/ KeyPressed
  BY <1>3 DEF Child, RequestEnds, ChildDecodes, ChildOpens, ChildReturns, KeyPressed, Closes
<1>4. CASE AgentEnds \/ WindowClosed
  BY <1>4 DEF AgentEnds, WindowClosed
<1>. QED  BY <1>1, <1>2, <1>3, <1>4 DEF AgentRuns

LEMMA AgentKeepsPlace ==
    ASSUME PlaceInv, CancelInv, AgentRuns, UNCHANGED groupVars
    PROVE  PlaceInv' /\ CancelInv'
<1>. USE AgentIsNoWake DEF PlaceInv, CancelInv, WaitPcs, WakePcs, SessionPcs, EndPcs, groupVars, Still,
             Runs, Own, Window
<1>1. CASE SetInputCP \/ SetOutputCP \/ ReportStart
  BY <1>1 DEF SetInputCP, SetOutputCP, ReportStart
<1>2. CASE Notify \/ PrepareAgent \/ StartAgent
  <2>1. CASE Notify
    BY <2>1 DEF Notify
  <2>2. CASE PrepareAgent
    BY <2>2 DEF PrepareAgent
  <2>3. CASE StartAgent
    BY <2>3 DEF StartAgent
  <2>. QED  BY <1>2, <2>1, <2>2, <2>3
<1>3. CASE WaitAgent \/ Cleanup \/ Restore
  BY <1>3 DEF WaitAgent, Cleanup, Restore
<1>4. CASE Launch
  BY <1>4 DEF Launch
<1>5. CASE AgentReturned \/ OpenConsole \/ WriteRequest \/ ReadAnswer
  BY <1>5 DEF AgentReturned, OpenConsole, WriteRequest, ReadAnswer, Return, sessionVars
<1>6. CASE Child \/ KeyPressed
  BY <1>6 DEF Child, RequestEnds, ChildDecodes, ChildOpens, ChildReturns, KeyPressed, Closes, Stopped
<1>7. CASE AgentEnds \/ WindowClosed
  BY <1>7 DEF AgentEnds, WindowClosed
<1>. QED  BY <1>1, <1>2, <1>3, <1>4, <1>5, <1>6, <1>7 DEF AgentRuns, RunAgent, Parent

LEMMA PlaceStep ==
    ASSUME PlaceInv, CancelInv, [Next]_vars PROVE PlaceInv' /\ CancelInv'
<1>1. CASE UNCHANGED vars
  BY <1>1 DEF vars, awaitVars, choice, clockVars, signals, groupVars, sessionVars, PlaceInv, CancelInv
<1>. QED  BY <1>1, WaitingKeepsPlace, WakeKeepsPlace, AgentKeepsPlace DEF Next

-----------------------------------------------------------------------------
(* The group of a wake *)

Quiet == leader # "running" /\ kid # "in"

\* Ctrl+C takes agent-at away only while it prepares or leaves.
\* Outside start and end nothing of the wake runs; inside, whatever runs on Windows is
\* in the job, and what was signalled on Unix stays down.
GroupInv ==
    mode = "wake" =>
        /\ pc \in {"check", "clock", "wait", "launch"} \cup WakePcs => handler = "ctx"
        /\ pc \in WaitPcs \cup {"start", "assign", "resume", "finish", "leave", "remove", "exited",
                               "interrupted"} => Quiet
        /\ pc \in {"start", "assign", "resume"} =>
              ~done /\ ~ended /\ exit = "none" /\ kid \notin {"in", "dying"}
        /\ pc = "start" => leader = "none"
        /\ pc \in {"assign", "resume"} => os = "windows" /\ leader = "suspended"
        /\ pc = "resume" => inJob
        /\ pc \in {"terminating", "drain", "releasing", "close"} => ended
        /\ os # "windows" /\ ended => Quiet
        /\ os = "windows" /\ (~inJob \/ pc = "killed") => Quiet
        /\ done => leader = "reaped" /\ exit # "none"
        /\ pc \in {"release", "releasing", "close"} => done
        /\ pc \in {"finish", "leave", "remove"} => leader \in {"none", "reaped"}
        /\ os = "windows" /\ ~broken /\ pc \in {"close", "finish", "leave", "remove"} => ~Active

\* The code is that of the first event that ended the wait: a signal or the limit, a
\* failed start, or the end of the leader by itself.
OutcomeInv ==
    mode = "wake" =>
        /\ exit \in {"none", "zero", "nonzero", "killed"}
        /\ pc \in {"start", "assign", "resume", "select"} => leader # "dying" /\ exit # "killed"
        /\ pc \in {"terminate", "terminating", "drain"} =>
              (code = "130" /\ ctx) \/ (code = "124" /\ limit)
        /\ pc \in {"release", "releasing", "close", "finish", "leave", "remove", "exited"} /\ what = "request" =>
              \/ (code = "130" /\ ctx) \/ (code = "124" /\ limit)
              \/ code \in {"1", "130"} /\ exit = "none" /\ leader \in {"none", "reaped"}
              \/ exit \in {"zero", "nonzero"} /\ leader = "reaped" /\ code = ExitCode

GroupIndInv == PlaceInv /\ GroupInv /\ OutcomeInv

LEMMA WaitingKeepsGroup ==
    ASSUME GroupIndInv, Waiting, UNCHANGED <<groupVars, sessionVars>>
    PROVE  GroupInv' /\ OutcomeInv'
<1>. USE DEF GroupIndInv, PlaceInv, GroupInv, OutcomeInv, Quiet, Active, ExitCode, WaitPcs, WakePcs,
             EndPcs, groupVars, choice, clockVars, signals
<1>1. CASE Prepare
  BY <1>1 DEF Prepare, MakeTemp, FillTemp, UndoTemp, NotifyContext, Return
<1>2. CASE CheckContext
  BY <1>2 DEF CheckContext, Return
<1>3. CASE ReadClock
  BY <1>3 DEF ReadClock
<1>4. CASE Wait
  BY <1>4 DEF Wait, Return
<1>5. CASE Leave
  BY <1>5 DEF Leave, StopNotify, RemoveTemp
<1>6. CASE Tick \/ Jump
  BY <1>6 DEF Tick, Jump
<1>7. CASE Interrupt
  BY <1>7 DEF Interrupt, Stopped
<1>. QED  BY <1>1, <1>2, <1>3, <1>4, <1>5, <1>6, <1>7 DEF Waiting, AwaitStep

LEMMA WakeKeepsGroup ==
    ASSUME GroupIndInv, WakeRuns, UNCHANGED sessionVars
    PROVE  GroupInv' /\ OutcomeInv'
<1>. USE DEF GroupIndInv, PlaceInv, GroupInv, OutcomeInv, Quiet, Active, ExitCode, WaitPcs, WakePcs,
             EndPcs, groupVars, choice, clockVars, signals, Calm
<1>1. CASE Authorize
  BY <1>1 DEF Authorize, Begin, Return
<1>2. CASE Finish
  BY <1>2 DEF Finish, Begin, Return
<1>3. CASE Start
  BY <1>3 DEF Start
<1>4. CASE Assign \/ Resume
  BY <1>4 DEF Assign, Resume, FailStart
<1>5. CASE Select
  BY <1>5 DEF Select
<1>6. CASE Terminate
  BY <1>6 DEF Terminate, EndGroup, KillGroup, KillMembers
<1>7. CASE Poll("terminating", "drain")
  BY <1>7 DEF Poll
<1>8. CASE Drain
  BY <1>8 DEF Drain
<1>9. CASE Release
  BY <1>9 DEF Release, EndGroup, KillGroup, KillMembers
<1>10. CASE Poll("releasing", "close")
  BY <1>10 DEF Poll
<1>11. CASE Close
  BY <1>11 DEF Close, KillMembers
<1>12. CASE Live(LeaderEnds \/ LeaderForks)
  BY <1>12 DEF Live, LeaderEnds, LeaderForks
<1>13. CASE Live(KidLeaves \/ KidEnds \/ KilledDies)
  BY <1>13 DEF Live, KidLeaves, KidEnds, KilledDies
<1>14. CASE WaitGoroutine
  BY <1>14 DEF WaitGoroutine, Reap
<1>15. CASE LimitExpires \/ IDReused
  BY <1>15 DEF LimitExpires, IDReused
<1>16. CASE Killed
  BY <1>16 DEF Killed, KillMembers, Stopped
<1>. QED  BY <1>1, <1>2, <1>3, <1>4, <1>5, <1>6, <1>7, <1>8, <1>9, <1>10, <1>11, <1>12, <1>13,
             <1>14, <1>15, <1>16 DEF WakeRuns, WakeStep, Live

LEMMA GroupInit == ASSUME ForegroundInit PROVE GroupInv /\ OutcomeInv
BY DEF ForegroundInit, Init, WakeInit, GroupInv, OutcomeInv, Quiet, WaitPcs, WakePcs

LEMMA GroupStep == ASSUME GroupIndInv, [Next]_vars PROVE GroupInv' /\ OutcomeInv'
<1>1. CASE AgentRuns
  BY <1>1, AgentIsNoWake DEF GroupIndInv, GroupInv, OutcomeInv
<1>2. CASE UNCHANGED vars
  BY <1>2 DEF vars, awaitVars, choice, clockVars, signals, groupVars, GroupIndInv, GroupInv, OutcomeInv,
              Quiet, Active, ExitCode, WaitPcs
<1>. QED  BY <1>1, <1>2, WaitingKeepsGroup, WakeKeepsGroup DEF Next

LEMMA Invariance == Spec => [](GroupIndInv /\ CancelInv)
<1>1. ForegroundInit => GroupIndInv /\ CancelInv
  BY PlaceInit, GroupInit DEF GroupIndInv
<1>2. GroupIndInv /\ CancelInv /\ [Next]_vars => (GroupIndInv /\ CancelInv)'
  BY PlaceStep, GroupStep DEF GroupIndInv
<1>. QED  BY <1>1, <1>2, PTL DEF Spec

\* Once agent-at has exited, or Ctrl+C took it away while it prepared or left, nothing in
\* the wake's process group or job runs, and on Windows not once it is killed
\* (wake_process_unix.go, wake_process_windows.go).
THEOREM GroupEnds == Spec => []GroupEnded
<1>1. GroupIndInv => GroupEnded
  BY DEF GroupIndInv, GroupInv, Quiet, GroupEnded
<1>. QED  BY <1>1, Invariance, PTL

\* runWakeResult (wake.go:113-154) reports 130 or 124 for a request that it killed, for
\* the reason it killed it, and the request's own code only when that ended by itself.
THEOREM OutcomeIsTrue == Spec => []OutcomeTrue
<1>1. GroupIndInv => OutcomeTrue
  BY DEF GroupIndInv, OutcomeInv, ExitCode, OutcomeTrue
<1>. QED  BY <1>1, Invariance, PTL

\* On Unix whatever died by a signal was signalled by terminate, and an ID is free for
\* others only after its leader was reaped.
OnceInv ==
    /\ mode # "wake" => ~reused /\ ~struck /\ exit = "none"
    /\ mode = "wake" =>
          /\ inJob => os = "windows"
          /\ reused \/ struck => os # "windows" /\ leader = "reaped"
          /\ os # "windows" /\ (leader = "dying" \/ exit = "killed") => ended
          /\ struck => exit # "killed"

LEMMA OnceStep ==
    ASSUME GroupIndInv, OnceInv, [Next]_vars
    PROVE  OnceInv'
<1>. USE DEF OnceInv, groupVars, choice, Calm
<1>1. CASE Waiting /\ UNCHANGED <<groupVars, sessionVars>>
  <2>1. UNCHANGED <<mode, os, leader>>
    BY <1>1 DEF Waiting, AwaitStep, Prepare, MakeTemp, FillTemp, UndoTemp, NotifyContext, CheckContext,
                  ReadClock, Wait, Leave, StopNotify, RemoveTemp, Tick, Jump, Interrupt
  <2>. QED  BY <1>1, <2>1
<1>2. CASE AgentRuns /\ UNCHANGED groupVars
  BY <1>2, AgentIsNoWake DEF GroupIndInv
<1>3. CASE UNCHANGED vars
  BY <1>3 DEF vars, awaitVars
<1>4. CASE WakeRuns
  <2>. USE DEF GroupIndInv, PlaceInv, GroupInv, OutcomeInv, WaitPcs, WakePcs, EndPcs
  <2>1. CASE Authorize \/ Finish
    BY <2>1 DEF Authorize, Finish, Begin, Return
  <2>2. CASE Start \/ Assign \/ Resume
    BY <2>2 DEF Start, Assign, Resume, FailStart
  <2>3. CASE Select \/ Drain \/ Poll("terminating", "drain") \/ Poll("releasing", "close")
    BY <2>3 DEF Select, Drain, Poll
  <2>4. CASE Terminate \/ Release
    <3>1. mode = "wake" /\ UNCHANGED <<mode, os, exit, reused, inJob>> /\ ended'
      <4>1. mode = "wake"
        BY <2>4 DEF Terminate, Release, SessionPcs
      <4>2. UNCHANGED <<mode, os, exit, reused, inJob>> /\ ended'
        BY <2>4 DEF Terminate, Release, EndGroup
      <4>. QED  BY <4>1, <4>2
    <3>2. CASE UNCHANGED <<leader, struck>>
      BY <3>1, <3>2
    <3>3. CASE KillGroup
      <4>1. CASE os = "windows"
        BY <3>1, <3>3, <4>1 DEF KillGroup, KillMembers
      <4>2. CASE os # "windows" /\ ~ended
        BY <3>1, <3>3, <4>2 DEF KillGroup, KillMembers
      <4>3. CASE os # "windows" /\ ended
        BY <2>4, <3>1, <3>2, <4>3 DEF Terminate, Release, EndGroup
      <4>. QED  BY <4>1, <4>2, <4>3
    <3>. QED  BY <2>4, <3>2, <3>3 DEF Terminate, Release, EndGroup
  <2>5. CASE Close
    BY <2>5 DEF Close, KillMembers
  <2>6. CASE Live(LeaderEnds \/ LeaderForks)
    BY <2>6 DEF Live, LeaderEnds, LeaderForks
  <2>7. CASE Live(KidLeaves \/ KidEnds \/ KilledDies)
    BY <2>7 DEF Live, KidLeaves, KidEnds, KilledDies
  <2>8. CASE WaitGoroutine \/ LimitExpires \/ IDReused
    BY <2>8 DEF WaitGoroutine, Reap, LimitExpires, IDReused
  <2>9. CASE Killed
    BY <2>9 DEF Killed, KillMembers
  <2>. QED  BY <1>4, <2>1, <2>2, <2>3, <2>4, <2>5, <2>6, <2>7, <2>8, <2>9 DEF WakeRuns, WakeStep, Live
<1>. QED  BY <1>1, <1>2, <1>3, <1>4 DEF Next

\* A group that agent-at killed is not killed a second time, when its ID may have passed
\* to another one (Foreground.KilledOnce; wake_process_unix.go:23-34).
THEOREM KillsOnce == Spec => []KilledOnce
<1>1. ForegroundInit => OnceInv
  BY DEF ForegroundInit, Init, WakeInit, OnceInv
<1>2. GroupIndInv /\ OnceInv /\ [Next]_vars => OnceInv'
  BY OnceStep
<1>3. GroupIndInv /\ OnceInv => KilledOnce
  BY DEF OnceInv, KilledOnce
<1>. QED  BY <1>1, <1>2, <1>3, Invariance, PTL DEF Spec

\* A wake starts its process only while it is not cancelled, and a session after the
\* last look at the context.
LEMMA WakeLaunches ==
    ASSUME GroupIndInv, WakeRuns, leader = "none", leader' # "none"
    PROVE  ~ctx
<1>. USE DEF GroupIndInv, GroupInv
<1>1. CASE Authorize \/ Finish
  BY <1>1 DEF Authorize, Finish, Begin, Return
<1>2. CASE Start
  BY <1>2 DEF Start
<1>3. CASE Assign \/ Resume
  BY <1>3 DEF Assign, Resume, PlaceInv, WaitPcs, SessionPcs, EndPcs
<1>4. CASE Select \/ Drain \/ Poll("terminating", "drain") \/ Poll("releasing", "close")
  BY <1>4 DEF Select, Drain, Poll
<1>5. CASE Terminate \/ Release \/ Close
  BY <1>5 DEF Terminate, Release, Close, EndGroup, KillGroup, KillMembers
<1>6. CASE Live(LeaderEnds \/ LeaderForks \/ KidLeaves \/ KidEnds \/ KilledDies)
  BY <1>6 DEF Live, LeaderEnds, LeaderForks, KidLeaves, KidEnds, KilledDies
<1>7. CASE WaitGoroutine \/ LimitExpires \/ IDReused \/ Killed
  BY <1>7 DEF WaitGoroutine, Reap, LimitExpires, IDReused, Killed, KillMembers
<1>. QED  BY <1>1, <1>2, <1>3, <1>4, <1>5, <1>6, <1>7 DEF WakeRuns, WakeStep

LEMMA AgentLaunches ==
    ASSUME AgentRuns, leader = "none", leader' # "none"
    PROVE  StartAgent
<1>1. CASE RunAgent
  BY <1>1 DEF RunAgent, SetInputCP, SetOutputCP, Notify, PrepareAgent, ReportStart, WaitAgent,
              Cleanup, Restore
<1>2. CASE Parent
  BY <1>2 DEF Parent, Launch, AgentReturned, OpenConsole, WriteRequest, ReadAnswer
<1>3. CASE Child \/ KeyPressed
  BY <1>3 DEF Child, RequestEnds, ChildDecodes, ChildOpens, ChildReturns, KeyPressed, Closes
<1>4. CASE AgentEnds \/ WindowClosed
  BY <1>4 DEF AgentEnds, WindowClosed
<1>. QED  BY <1>1, <1>2, <1>3, <1>4 DEF AgentRuns

\* After Ctrl+C a wake request is not started, and an agent only when its launch was
\* past await's last look at the context (schedule.go:85-102, wake.go:115).
THEOREM CancelledStarts == Spec => CancelledStartsNothing
<1>1. ASSUME GroupIndInv, CancelInv, Next, leader = "none", leader' # "none", ctx
      PROVE  mode # "wake" /\ cancelledAt \in {"clock", "launch"}
  <2>. USE <1>1
  <2>1. CASE Waiting
    BY <2>1 DEF Waiting, AwaitStep, Prepare, MakeTemp, FillTemp, UndoTemp, NotifyContext, CheckContext,
                  ReadClock, Wait, Leave, StopNotify, RemoveTemp, Tick, Jump, Interrupt
  <2>2. CASE WakeRuns
    BY <2>2, WakeLaunches
  <2>3. CASE AgentRuns
    BY <2>3, AgentLaunches, AgentIsNoWake DEF StartAgent, Runs, CancelInv, GroupIndInv
  <2>. QED  BY <2>1, <2>2, <2>3 DEF Next
<1>2. GroupIndInv /\ CancelInv /\ [Next]_vars =>
          [(leader = "none" /\ leader' # "none" /\ ctx)
              => (mode # "wake" /\ cancelledAt \in {"clock", "launch"})]_vars
  BY <1>1
<1>. QED  BY <1>2, Invariance, PTL DEF Spec, CancelledStartsNothing

-----------------------------------------------------------------------------
(* The agent's run *)

OwnPages == [in |-> "own", out |-> "own"]

ConsoleInv ==
    /\ run \in {"none", "input", "returned"} => cp = OwnPages
    /\ run = "output" => cp = [in |-> "utf8", out |-> "own"]

\* While a directory exists Ctrl+C is caught or cancels, except before NotifyContext and
\* after a wake's stop; and an agent's run goes on.
DirInv ==
    /\ mode = "wake" =>
          /\ handler # "caught"
          /\ tmp => /\ pc \notin {"prepare", "exited"}
                    /\ handler = "ctx" \/ pc \in {"fill", "undo", "notify", "remove", "interrupted", "killed"}
    /\ mode # "wake" =>
          /\ run \in {"none", "input", "output", "notify", "prepare", "start"} => leader = "none"
          /\ run \in {"cleanup", "restore", "returned"} => leader \in {"none", "reaped"}
          /\ run = "report" => started \in {"ok", "error"} /\ (started = "ok" <=> leader # "none")
          /\ run \in {"prepare", "start", "report", "wait", "cleanup"} /\ mode # "headless" /\ ~Window
                => handler = "caught"
          /\ tmp => mode # "headless" /\ (\/ run \in {"start", "report", "wait", "cleanup"}
                                          \/ pc \in {"fill", "undo", "interrupted", "killed"})
          /\ tmp /\ ~Window => pc \in {"agent", "fill", "undo", "interrupted", "killed"}
          /\ ~Window => /\ pc \notin {"openConsole", "request", "answer"}
                        /\ pc \in {"leave", "remove"} => run \in {"none", "returned"}

\* The console child reports once, and what came about.
AnswerInv ==
    /\ result \in {"none", "ok", "error"}
    /\ result # "none" => "child" \notin writers
    /\ result = "ok" => leader # "none" /\ run \in {"wait", "cleanup", "restore", "returned"}
    /\ result = "error" => /\ leader = "none"
                           /\ \/ run \in {"cleanup", "restore", "returned"}
                              \/ run = "none" /\ child = "dead"
    /\ result # "none" \/ child # "none" => Window
    /\ pc = "openConsole" => child = "none" /\ run = "none" /\ result = "none"
    /\ child \in {"decode", "open"} => run = "none" /\ result = "none"
    /\ run # "none" /\ Window => child # "none"
    /\ Window => pc # "agent"
    /\ Window /\ pc \in {"leave", "remove", "exited"} /\ code = "0" => result = "ok"

SessionInv == ConsoleInv /\ DirInv /\ AnswerInv

LEMMA SessionStart == ASSUME ForegroundInit PROVE SessionInv
BY DEF ForegroundInit, Init, SessionInit, SessionInv, ConsoleInv, DirInv, AnswerInv, OwnPages

LEMMA WaitingKeepsSession ==
    ASSUME PlaceInv, SessionInv, Waiting, UNCHANGED <<groupVars, sessionVars>>
    PROVE  SessionInv'
<1>. USE DEF PlaceInv, SessionInv, ConsoleInv, DirInv, AnswerInv, OwnPages, WaitPcs, WakePcs, SessionPcs,
             EndPcs, sessionVars, choice, clockVars, signals, Window
<1>1. CASE Prepare
  <2>1. CASE MakeTemp
    <3>1. tmp' => tmp \/ (pc' = "fill" /\ mode # "headless")
      BY <2>1 DEF MakeTemp
    <3>. QED  BY <2>1, <3>1 DEF MakeTemp, Return
  <2>2. CASE FillTemp
    BY <2>2 DEF FillTemp
  <2>3. CASE UndoTemp \/ NotifyContext
    BY <2>3 DEF UndoTemp, NotifyContext
  <2>. QED  BY <1>1, <2>1, <2>2, <2>3 DEF Prepare
<1>2. CASE CheckContext
  BY <1>2 DEF CheckContext, Return
<1>3. CASE ReadClock
  BY <1>3 DEF ReadClock
<1>4. CASE Wait
  BY <1>4 DEF Wait, Return
<1>5. CASE Leave
  <2>1. CASE StopNotify
    BY <2>1 DEF StopNotify
  <2>2. CASE RemoveTemp
    <3>1. tmp' => tmp /\ mode # "wake"
      BY <2>2 DEF RemoveTemp
    <3>. QED  BY <2>2, <3>1 DEF RemoveTemp
  <2>. QED  BY <1>5, <2>1, <2>2 DEF Leave
<1>6. CASE Tick \/ Jump
  BY <1>6 DEF Tick, Jump
<1>7. CASE Interrupt
  BY <1>7 DEF Interrupt, Stopped
<1>. QED  BY <1>1, <1>2, <1>3, <1>4, <1>5, <1>6, <1>7 DEF Waiting, AwaitStep

\* What a wake's steps can do beside a wake: end agent-at.
LEMMA WakeBesideSession ==
    ASSUME PlaceInv, WakeRuns
    PROVE  /\ UNCHANGED <<mode, os, handler, tmp>>
           /\ mode # "wake" => pc' = "killed" /\ UNCHANGED <<code, leader>>
           /\ pc' \in {"prepare", "exited", "interrupted"} => pc' = pc
           /\ pc \in {"fill", "undo", "notify", "remove", "interrupted", "killed"} => pc' \in {pc, "killed"}
<1>. USE DEF PlaceInv, WaitPcs, SessionPcs, EndPcs, Calm, choice, signals
<1>1. CASE Authorize \/ Finish
  BY <1>1 DEF Authorize, Finish, Begin, Return
<1>2. CASE Start \/ Assign \/ Resume
  BY <1>2 DEF Start, Assign, Resume, FailStart
<1>3. CASE Select \/ Drain \/ Poll("terminating", "drain") \/ Poll("releasing", "close")
  BY <1>3 DEF Select, Drain, Poll
<1>4. CASE Terminate \/ Release \/ Close
  BY <1>4 DEF Terminate, Release, Close, EndGroup
<1>5. CASE Live(LeaderEnds \/ LeaderForks)
  BY <1>5 DEF Live, LeaderEnds, LeaderForks
<1>6. CASE Live(KidLeaves \/ KidEnds \/ KilledDies)
  BY <1>6 DEF Live, KidLeaves, KidEnds, KilledDies
<1>7. CASE WaitGoroutine \/ LimitExpires \/ IDReused
  BY <1>7 DEF WaitGoroutine, LimitExpires, IDReused, Stopped
<1>8. CASE Killed
  BY <1>8 DEF Killed, Stopped
<1>. QED  BY <1>1, <1>2, <1>3, <1>4, <1>5, <1>6, <1>7, <1>8 DEF WakeRuns, WakeStep, Live

LEMMA WakeKeepsSession ==
    ASSUME PlaceInv, SessionInv, WakeRuns, UNCHANGED sessionVars
    PROVE  SessionInv'
BY WakeBesideSession DEF PlaceInv, SessionInv, ConsoleInv, DirInv, AnswerInv, OwnPages, WaitPcs, SessionPcs,
       EndPcs, sessionVars, Window

LEMMA AgentKeepsSession ==
    ASSUME PlaceInv, SessionInv, AgentRuns
    PROVE  SessionInv'
<1>. USE AgentIsNoWake DEF PlaceInv, SessionInv, ConsoleInv, DirInv, AnswerInv, OwnPages, WaitPcs,
             SessionPcs, EndPcs, Window, Still, Runs, Own, Report
<1>1. CASE SetInputCP
  BY <1>1 DEF SetInputCP
<1>2. CASE SetOutputCP
  BY <1>2 DEF SetOutputCP, RestoreInput
<1>3. CASE Notify
  BY <1>3 DEF Notify
<1>4. CASE PrepareAgent
  <2>1. tmp' => tmp \/ (mode # "headless" /\ run' = "start")
    BY <1>4 DEF PrepareAgent
  <2>. QED  BY <1>4, <2>1 DEF PrepareAgent
<1>5. CASE StartAgent
  BY <1>5 DEF StartAgent, AgentGets
<1>6. CASE ReportStart
  BY <1>6 DEF ReportStart
<1>7. CASE WaitAgent
  BY <1>7 DEF WaitAgent
<1>8. CASE Cleanup
  BY <1>8 DEF Cleanup
<1>9. CASE Restore
  BY <1>9 DEF Restore
<1>10. CASE Launch
  BY <1>10 DEF Launch
<1>11. CASE AgentReturned
  BY <1>11 DEF AgentReturned, Return, sessionVars
<1>12. CASE OpenConsole
  BY <1>12 DEF OpenConsole, Return
<1>13. CASE WriteRequest
  BY <1>13 DEF WriteRequest, Return
<1>14. CASE ReadAnswer
  BY <1>14 DEF ReadAnswer, Return, sessionVars
<1>15. CASE RequestEnds \/ ChildDecodes
  BY <1>15 DEF RequestEnds, ChildDecodes, Closes
<1>16. CASE ChildOpens
  BY <1>16 DEF ChildOpens, Closes
<1>17. CASE ChildReturns \/ KeyPressed
  BY <1>17 DEF ChildReturns, KeyPressed, Closes
<1>18. CASE AgentEnds
  BY <1>18 DEF AgentEnds
<1>19. CASE WindowClosed
  BY <1>19 DEF WindowClosed
<1>. QED  BY <1>1, <1>2, <1>3, <1>4, <1>5, <1>6, <1>7, <1>8, <1>9, <1>10, <1>11, <1>12, <1>13, <1>14,
             <1>15, <1>16, <1>17, <1>18, <1>19 DEF AgentRuns, RunAgent, Parent, Child

LEMMA SessionStep == ASSUME PlaceInv, SessionInv, [Next]_vars PROVE SessionInv'
<1>1. CASE UNCHANGED vars
  BY <1>1 DEF vars, awaitVars, choice, clockVars, signals, sessionVars, SessionInv, ConsoleInv, DirInv,
              AnswerInv, Window
<1>. QED  BY <1>1, WaitingKeepsSession, WakeKeepsSession, AgentKeepsSession DEF Next

LEMMA SessionInvariance == Spec => [](GroupIndInv /\ SessionInv)
<1>1. ForegroundInit => SessionInv
  BY SessionStart
<1>2. GroupIndInv /\ SessionInv /\ [Next]_vars => SessionInv'
  BY SessionStep DEF GroupIndInv
<1>. QED  BY <1>1, <1>2, Invariance, PTL DEF Spec

\* configureConsoleUTF8 and its restore (platform_windows.go:113-126): a run of an agent
\* that returns leaves the console its own code pages, when only half was set too.
THEOREM ConsoleIsRestored == Spec => []ConsoleRestored
<1>1. SessionInv => ConsoleRestored
  BY DEF SessionInv, ConsoleInv, OwnPages, ConsoleRestored
<1>. QED  BY <1>1, SessionInvariance, PTL

\* Nothing but Ctrl+C interrupts.
LEMMA OnlyInterruptInterrupts ==
    ASSUME PlaceInv, Next, ~Stopped, pc' = "interrupted" PROVE Interrupt /\ handler = "default"
<1>. USE DEF Stopped
<1>1. CASE Waiting
  <2>1. CASE Prepare \/ Leave
    BY <2>1 DEF Prepare, MakeTemp, FillTemp, UndoTemp, NotifyContext, Leave, StopNotify, RemoveTemp, Return
  <2>2. CASE CheckContext \/ ReadClock \/ Wait
    BY <2>2 DEF CheckContext, ReadClock, Wait, Return
  <2>3. CASE Tick \/ Jump
    BY <2>3 DEF Tick, Jump
  <2>4. CASE Interrupt
    BY <2>4 DEF Interrupt
  <2>. QED  BY <1>1, <2>1, <2>2, <2>3, <2>4 DEF Waiting, AwaitStep
<1>2. CASE WakeRuns
  BY <1>2, WakeBesideSession
<1>3. CASE AgentRuns
  <2>1. CASE RunAgent
    BY <2>1 DEF RunAgent, SetInputCP, SetOutputCP, Notify, PrepareAgent, StartAgent,
                ReportStart, WaitAgent, Cleanup, Restore, Own
  <2>2. CASE Parent
    BY <2>2 DEF Parent, Launch, AgentReturned, OpenConsole, WriteRequest, ReadAnswer, Return
  <2>3. CASE Child \/ KeyPressed
    BY <2>3 DEF Child, RequestEnds, ChildDecodes, ChildOpens, ChildReturns, KeyPressed, Closes
  <2>4. CASE AgentEnds \/ WindowClosed
    BY <2>4 DEF AgentEnds, WindowClosed
  <2>. QED  BY <1>3, <2>1, <2>2, <2>3, <2>4 DEF AgentRuns
<1>. QED  BY <1>1, <1>2, <1>3 DEF Next

\* The temporary directory of a wake or of a long prompt is gone when agent-at exits, and
\* when Ctrl+C takes agent-at away, but for the two moments of Exposed: before
\* NotifyContext (wake.go:53-87, main.go:224-230) and between a wake's stop() and the end
\* of its cleanup() (wake.go:82, 88).
THEOREM DirIsRemoved == Spec => TempDirRemoved
<1>1. ASSUME GroupIndInv, SessionInv, SessionInv', Next, ~Stopped, pc' \in {"exited", "interrupted"},
             ~Window, tmp'
      PROVE  pc' = "interrupted" /\ Exposed
  <2>. USE <1>1 DEF GroupIndInv
  <2>1. CASE pc' = "interrupted"
    <3>1. Interrupt /\ handler = "default"
      BY <2>1, OnlyInterruptInterrupts
    <3>2. tmp
      BY <3>1 DEF Interrupt
    <3>3. CASE mode = "wake"
      BY <3>1, <3>2, <3>3, <2>1 DEF SessionInv, DirInv, Exposed, Stopped
    <3>4. CASE mode # "wake"
      BY <3>1, <3>2, <3>4, <2>1 DEF SessionInv, DirInv, Exposed, Stopped
    <3>. QED  BY <3>3, <3>4
  <2>2. CASE pc' = "exited"
    <3>1. UNCHANGED <<mode, os>>
      <4>1. CASE Waiting
        BY <4>1 DEF Waiting, AwaitStep, Prepare, MakeTemp, FillTemp, UndoTemp, NotifyContext,
                    CheckContext, ReadClock, Wait, Leave, StopNotify, RemoveTemp, Tick, Jump, Interrupt, choice
      <4>2. CASE WakeRuns
        BY <4>2, WakeBesideSession
      <4>3. CASE AgentRuns
        BY <4>3, AgentIsNoWake
      <4>. QED  BY <4>1, <4>2, <4>3 DEF Next
    <3>2. ~Window'
      BY <3>1 DEF Window
    <3>. QED  BY <2>2, <3>1, <3>2 DEF SessionInv, DirInv
  <2>. QED  BY <2>1, <2>2
<1>2. GroupIndInv /\ SessionInv /\ SessionInv' /\ [Next]_vars =>
          [~Stopped /\ pc' \in {"exited", "interrupted"} /\ ~Window =>
               ~tmp' \/ (pc' = "interrupted" /\ Exposed)]_vars
  BY <1>1
<1>. QED  BY <1>2, SessionInvariance, PTL DEF Spec, TempDirRemoved

\* launchConsole returns 0 only when the console child started the agent, and the child
\* reports an error only when it did not (platform_windows.go:130-235).
THEOREM AnswerIsTrue == Spec => []AnswerTrue
<1>1. SessionInv => AnswerTrue
  BY DEF SessionInv, AnswerInv, AnswerTrue
<1>. QED  BY <1>1, SessionInvariance, PTL

\* Only four steps take a directory away: the end of a trial preparation, the preparation
\* of an agent, the end of its run, and the way out of a wake.
LEMMA DirSteps ==
    ASSUME PlaceInv, Next, tmp, ~tmp'
    PROVE  \/ Prepare
           \/ (PrepareAgent \/ Cleanup) /\ mode # "wake"
           \/ RemoveTemp /\ mode = "wake"
<1>1. CASE Waiting
  <2>1. CASE Leave
    BY <2>1 DEF Leave, StopNotify, RemoveTemp
  <2>2. CASE CheckContext \/ ReadClock \/ Wait \/ Tick \/ Jump \/ Interrupt
    <3>1. tmp' = tmp
      BY <2>2 DEF CheckContext, ReadClock, Wait, Tick, Jump, Interrupt
    <3>. QED  BY <3>1
  <2>3. CASE Prepare
    BY <2>3
  <2>. QED  BY <1>1, <2>1, <2>2, <2>3 DEF Waiting, AwaitStep
<1>2. CASE WakeRuns
  BY <1>2, WakeBesideSession
<1>3. CASE AgentRuns
  <2>. USE <1>3, AgentIsNoWake
  <2>1. CASE RunAgent
    BY <2>1 DEF RunAgent, SetInputCP, SetOutputCP, Notify, StartAgent, ReportStart, WaitAgent, Restore
  <2>2. CASE Parent
    BY <2>2 DEF Parent, Launch, AgentReturned, OpenConsole, WriteRequest, ReadAnswer
  <2>3. CASE Child \/ KeyPressed
    BY <2>3 DEF Child, RequestEnds, ChildDecodes, ChildOpens, ChildReturns, KeyPressed, Closes
  <2>4. CASE AgentEnds \/ WindowClosed
    BY <2>4 DEF AgentEnds, WindowClosed
  <2>. QED  BY <2>1, <2>2, <2>3, <2>4 DEF AgentRuns
<1>. QED  BY <1>1, <1>2, <1>3 DEF Next

\* No temporary directory is removed under the process that uses it, and on Windows not
\* under its descendants either while the calls on the job succeed (wake.go:146-151).
THEOREM DirIsLast == Spec => TempDirLast
<1>1. ASSUME GroupIndInv, SessionInv, Next, tmp, ~tmp'
      PROVE  /\ leader \in {"none", "reaped"}
             /\ mode = "wake" /\ os = "windows" /\ ~broken => ~Active
  <2>. USE <1>1 DEF GroupIndInv
  <2>1. CASE Prepare
    BY <2>1 DEF Prepare, MakeTemp, FillTemp, UndoTemp, NotifyContext, PlaceInv, WaitPcs, Active
  <2>2. CASE PrepareAgent /\ mode # "wake"
    BY <2>2 DEF PrepareAgent, Runs, SessionInv, DirInv
  <2>3. CASE Cleanup /\ mode # "wake"
    BY <2>3 DEF Cleanup, Runs, SessionInv, DirInv
  <2>4. CASE RemoveTemp /\ mode = "wake"
    BY <2>4 DEF RemoveTemp, GroupInv
  <2>. QED  BY <2>1, <2>2, <2>3, <2>4, DirSteps
<1>2. GroupIndInv /\ SessionInv /\ [Next]_vars =>
          [(tmp /\ ~tmp') => /\ leader \in {"none", "reaped"}
                             /\ mode = "wake" /\ os = "windows" /\ ~broken => ~Active]_vars
  BY <1>1
<1>. QED  BY <1>2, SessionInvariance, PTL DEF Spec, TempDirLast

-----------------------------------------------------------------------------
(* The type invariant *)

NamesInv ==
    /\ now \in 0..Horizon /\ jumps \in 0..MaxJumps
    /\ handler \in {"default", "ctx", "caught"}
    /\ code \in {"none", "0", "1", "2", "124", "130", "child"}
    /\ rc \in {"none", "0", "1", "child"}
    /\ leader \in {"none", "suspended", "running", "dying", "zombie", "reaped"}
    /\ kid \in {"none", "in", "left", "dying", "gone"}
    /\ exit \in {"none", "zero", "nonzero", "killed"}

LEMMA WaitingKeepsNames ==
    ASSUME NamesInv, ClockInv, Waiting, UNCHANGED <<groupVars, sessionVars>>
    PROVE  NamesInv'
<1>. USE TimeAssumption DEF NamesInv, ClockInv, groupVars, sessionVars, choice, clockVars, signals
<1>1. CASE Prepare
  <2>1. CASE MakeTemp
    BY <2>1 DEF MakeTemp, Return
  <2>2. CASE FillTemp
    BY <2>2 DEF FillTemp
  <2>3. CASE UndoTemp \/ NotifyContext
    BY <2>3 DEF UndoTemp, NotifyContext
  <2>. QED  BY <1>1, <2>1, <2>2, <2>3 DEF Prepare
<1>2. CASE CheckContext \/ Wait
  BY <1>2 DEF CheckContext, Wait, Return
<1>3. CASE ReadClock
  BY <1>3 DEF ReadClock
<1>4. CASE Leave
  BY <1>4 DEF Leave, StopNotify, RemoveTemp
<1>5. CASE Tick
  <2>1. now' \in 0..Horizon
    BY <1>5, MinOfTwo DEF Tick
  <2>. QED  BY <1>5, <2>1 DEF Tick
<1>6. CASE Jump
  BY <1>6 DEF Jump
<1>7. CASE Interrupt
  BY <1>7 DEF Interrupt
<1>. QED  BY <1>1, <1>2, <1>3, <1>4, <1>5, <1>6, <1>7 DEF Waiting, AwaitStep

LEMMA WakeKeepsNames ==
    ASSUME NamesInv, WakeRuns, UNCHANGED sessionVars
    PROVE  NamesInv'
<1>. USE DEF NamesInv, groupVars, sessionVars, choice, clockVars, signals, Calm
<1>1. CASE Authorize \/ Finish
  BY <1>1 DEF Authorize, Finish, Begin, Return
<1>2. CASE Start
  BY <1>2 DEF Start
<1>3. CASE Assign
  BY <1>3 DEF Assign, FailStart
<1>4. CASE Resume
  BY <1>4 DEF Resume, FailStart
<1>5. CASE Select \/ Drain
  BY <1>5 DEF Select, ExitCode, Drain
<1>6. CASE Terminate
  BY <1>6 DEF Terminate, EndGroup, KillGroup, KillMembers
<1>7. CASE Poll("terminating", "drain") \/ Poll("releasing", "close")
  BY <1>7 DEF Poll
<1>8. CASE Release
  BY <1>8 DEF Release, EndGroup, KillGroup, KillMembers
<1>9. CASE Close
  BY <1>9 DEF Close, KillMembers
<1>10. CASE Live(LeaderEnds \/ LeaderForks)
  BY <1>10 DEF Live, LeaderEnds, LeaderForks
<1>11. CASE Live(KidLeaves \/ KidEnds \/ KilledDies)
  BY <1>11 DEF Live, KidLeaves, KidEnds, KilledDies
<1>12. CASE WaitGoroutine
  BY <1>12 DEF WaitGoroutine, Reap
<1>13. CASE LimitExpires \/ IDReused
  BY <1>13 DEF LimitExpires, IDReused
<1>14. CASE Killed
  BY <1>14 DEF Killed, KillMembers
<1>. QED  BY <1>1, <1>2, <1>3, <1>4, <1>5, <1>6, <1>7, <1>8, <1>9, <1>10, <1>11, <1>12, <1>13, <1>14
          DEF WakeRuns, WakeStep, Live

LEMMA AgentKeepsNames ==
    ASSUME NamesInv, PlaceInv, SessionInv, AgentRuns, UNCHANGED groupVars
    PROVE  NamesInv'
<1>. USE AgentIsNoWake DEF NamesInv, groupVars, Still, Own, Report, Runs
<1>1. CASE SetInputCP \/ SetOutputCP
  BY <1>1 DEF SetInputCP, SetOutputCP
<1>2. CASE Notify
  BY <1>2 DEF Notify
<1>3. CASE PrepareAgent
  BY <1>3 DEF PrepareAgent
<1>4. CASE StartAgent
  BY <1>4 DEF StartAgent, AgentGets
<1>5. CASE ReportStart
  <2>1. started \in {"ok", "error"}
    BY <1>5 DEF ReportStart, SessionInv, DirInv
  <2>. QED  BY <1>5, <2>1 DEF ReportStart
<1>6. CASE WaitAgent
  BY <1>6 DEF WaitAgent
<1>7. CASE Cleanup
  BY <1>7 DEF Cleanup
<1>8. CASE Restore
  BY <1>8 DEF Restore
<1>9. CASE Launch \/ AgentReturned
  BY <1>9 DEF Launch, AgentReturned, Return, sessionVars
<1>10. CASE OpenConsole
  BY <1>10 DEF OpenConsole, Return
<1>11. CASE WriteRequest
  BY <1>11 DEF WriteRequest, Return
<1>12. CASE ReadAnswer
  BY <1>12 DEF ReadAnswer, Return, sessionVars
<1>13. CASE Child
  BY <1>13 DEF Child, RequestEnds, ChildDecodes, ChildOpens, ChildReturns, Closes
<1>14. CASE KeyPressed
  BY <1>14 DEF KeyPressed, Closes
<1>15. CASE AgentEnds
  BY <1>15 DEF AgentEnds
<1>16. CASE WindowClosed
  BY <1>16 DEF WindowClosed
<1>. QED  BY <1>1, <1>2, <1>3, <1>4, <1>5, <1>6, <1>7, <1>8, <1>9, <1>10, <1>11, <1>12, <1>13, <1>14,
             <1>15, <1>16 DEF AgentRuns, RunAgent, Parent

FlagsInv ==
    /\ ctx \in BOOLEAN /\ tmp \in BOOLEAN /\ attached \in BOOLEAN
    /\ done \in BOOLEAN /\ limit \in BOOLEAN /\ broken \in BOOLEAN /\ ended \in BOOLEAN
    /\ reused \in BOOLEAN /\ struck \in BOOLEAN /\ inJob \in BOOLEAN

LEMMA WaitingKeepsFlags ==
    ASSUME FlagsInv, Waiting, UNCHANGED <<groupVars, sessionVars>>
    PROVE  FlagsInv'
<1>. USE DEF FlagsInv, groupVars, sessionVars, signals
<1>1. CASE Prepare \/ Leave
  BY <1>1 DEF Prepare, MakeTemp, FillTemp, UndoTemp, NotifyContext, Leave, StopNotify, RemoveTemp
<1>2. CASE CheckContext \/ ReadClock \/ Wait
  BY <1>2 DEF CheckContext, ReadClock, Wait
<1>3. CASE Tick \/ Jump
  BY <1>3 DEF Tick, Jump
<1>4. CASE Interrupt
  BY <1>4 DEF Interrupt
<1>. QED  BY <1>1, <1>2, <1>3, <1>4 DEF Waiting, AwaitStep

LEMMA WakeKeepsFlags ==
    ASSUME FlagsInv, WakeRuns, UNCHANGED sessionVars
    PROVE  FlagsInv'
<1>. USE DEF FlagsInv, groupVars, sessionVars, signals, Calm
<1>1. CASE Authorize
  BY <1>1 DEF Authorize, Begin
<1>2. CASE Finish
  BY <1>2 DEF Finish, Begin
<1>3. CASE Start
  BY <1>3 DEF Start
<1>4. CASE Assign \/ Resume
  BY <1>4 DEF Assign, Resume
<1>5. CASE Select \/ Drain
  BY <1>5 DEF Select, Drain
<1>6. CASE Terminate \/ Release
  BY <1>6 DEF Terminate, Release, EndGroup, KillGroup
<1>7. CASE Poll("terminating", "drain") \/ Poll("releasing", "close")
  BY <1>7 DEF Poll
<1>8. CASE Close
  BY <1>8 DEF Close
<1>9. CASE Live(LeaderEnds \/ LeaderForks \/ KidLeaves \/ KidEnds \/ KilledDies)
  BY <1>9 DEF Live
<1>10. CASE WaitGoroutine
  BY <1>10 DEF WaitGoroutine, Reap
<1>11. CASE LimitExpires \/ IDReused
  BY <1>11 DEF LimitExpires, IDReused
<1>12. CASE Killed
  BY <1>12 DEF Killed
<1>. QED  BY <1>1, <1>2, <1>3, <1>4, <1>5, <1>6, <1>7, <1>8, <1>9, <1>10, <1>11, <1>12
          DEF WakeRuns, WakeStep

LEMMA AgentKeepsFlags ==
    ASSUME FlagsInv, AgentRuns, UNCHANGED groupVars
    PROVE  FlagsInv'
<1>. USE DEF FlagsInv, groupVars, Still
<1>1. CASE PrepareAgent
  BY <1>1 DEF PrepareAgent
<1>2. CASE Cleanup
  BY <1>2 DEF Cleanup
<1>3. CASE RunAgent /\ ~PrepareAgent /\ ~Cleanup
  BY <1>3 DEF RunAgent, SetInputCP, SetOutputCP, Notify, StartAgent, ReportStart, WaitAgent, Restore
<1>4. CASE Parent
  <2>1. CASE OpenConsole
    <3>1. attached' \in BOOLEAN
      BY <2>1 DEF OpenConsole
    <3>2. UNCHANGED <<ctx, tmp>>
      BY <2>1 DEF OpenConsole
    <3>. QED  BY <3>1, <3>2
  <2>2. CASE Launch
    BY <2>2 DEF Launch
  <2>3. CASE AgentReturned \/ WriteRequest \/ ReadAnswer
    BY <2>3 DEF AgentReturned, WriteRequest, ReadAnswer, sessionVars
  <2>. QED  BY <1>4, <2>1, <2>2, <2>3 DEF Parent
<1>5. CASE Child \/ KeyPressed
  BY <1>5 DEF Child, RequestEnds, ChildDecodes, ChildOpens, ChildReturns, KeyPressed, Closes
<1>6. CASE AgentEnds \/ WindowClosed
  BY <1>6 DEF AgentEnds, WindowClosed
<1>. QED  BY <1>1, <1>2, <1>3, <1>4, <1>5, <1>6 DEF AgentRuns

\* Who can hold the pipe for the answer.
WritersInv == writers \subseteq {"child", "agent"}

LEMMA WritersStep ==
    ASSUME WritersInv, [Next]_vars PROVE WritersInv'
<1>. USE DEF WritersInv
<1>1. CASE UNCHANGED sessionVars \/ UNCHANGED vars
  BY <1>1 DEF vars, sessionVars
<1>2. CASE RunAgent
  BY <1>2 DEF RunAgent, SetInputCP, SetOutputCP, Notify, PrepareAgent, StartAgent, ReportStart,
              WaitAgent, Cleanup, Restore, Report, AgentGets
<1>3. CASE Parent
  BY <1>3 DEF Parent, Launch, AgentReturned, OpenConsole, WriteRequest, ReadAnswer, sessionVars
<1>4. CASE Child \/ KeyPressed
  BY <1>4 DEF Child, RequestEnds, ChildDecodes, ChildOpens, ChildReturns, KeyPressed, Closes, Report
<1>5. CASE AgentEnds \/ WindowClosed
  BY <1>5 DEF AgentEnds, WindowClosed
<1>. QED  BY <1>1, <1>2, <1>3, <1>4, <1>5 DEF Next, AgentRuns

TypeInv == NamesInv /\ FlagsInv /\ WritersInv

LEMMA TypeInit == ASSUME ForegroundInit PROVE TypeInv
<1>1. NamesInv
  BY TimeAssumption DEF ForegroundInit, Init, WakeInit, SessionInit, NamesInv
<1>2. ctx \in BOOLEAN /\ tmp \in BOOLEAN
  BY DEF ForegroundInit, Init
<1>3. attached \in BOOLEAN /\ writers = {}
  BY DEF ForegroundInit, SessionInit
<1>4. done \in BOOLEAN /\ limit \in BOOLEAN /\ broken \in BOOLEAN /\ ended \in BOOLEAN
  BY DEF ForegroundInit, WakeInit
<1>5. reused \in BOOLEAN /\ struck \in BOOLEAN /\ inJob \in BOOLEAN
  BY DEF ForegroundInit, WakeInit
<1>. QED  BY <1>1, <1>2, <1>3, <1>4, <1>5 DEF TypeInv, FlagsInv, WritersInv

LEMMA TypeStep ==
    ASSUME TypeInv, ClockInv, PlaceInv, SessionInv, [Next]_vars PROVE TypeInv'
<1>1. NamesInv'
  <2>1. CASE UNCHANGED vars
    BY <2>1 DEF TypeInv, NamesInv, vars, awaitVars, choice, clockVars, signals, groupVars, sessionVars
  <2>. QED  BY <2>1, WaitingKeepsNames, WakeKeepsNames, AgentKeepsNames DEF TypeInv, Next
<1>2. FlagsInv'
  <2>1. CASE UNCHANGED vars
    BY <2>1 DEF TypeInv, FlagsInv, vars, awaitVars, choice, clockVars, signals, groupVars, sessionVars
  <2>. QED  BY <2>1, WaitingKeepsFlags, WakeKeepsFlags, AgentKeepsFlags DEF TypeInv, Next
<1>3. WritersInv'
  BY WritersStep DEF TypeInv
<1>. QED  BY <1>1, <1>2, <1>3 DEF TypeInv

\* Every variable of the foreground keeps its type: in particular the wall clock stays
\* within its bound, and the timer never holds more than a second (schedule.go:94-97).
THEOREM TypeCorrect == Spec => []TypeOK
<1>1. ForegroundInit => TypeInv
  BY TypeInit
<1>2. TypeInv /\ ClockInv /\ GroupIndInv /\ SessionInv /\ [Next]_vars => TypeInv'
  BY TypeStep DEF GroupIndInv
<1>3. TypeInv /\ ClockInv /\ SessionInv => TypeOK
  <2>. SUFFICES ASSUME TypeInv, ClockInv, SessionInv PROVE TypeOK
    OBVIOUS
  <2>1. timer \in 0..Second /\ late \in Nat
    BY TimeAssumption DEF ClockInv
  <2>2. {done, limit, broken, ended, reused, struck, inJob, attached} \subseteq BOOLEAN
    BY DEF TypeInv, FlagsInv
  <2>3. result \in {"none", "ok", "error"}
    BY DEF SessionInv, AnswerInv
  <2>4. ctx \in BOOLEAN /\ tmp \in BOOLEAN /\ writers \subseteq {"child", "agent"}
    BY DEF TypeInv, FlagsInv, WritersInv
  <2>. QED  BY <2>1, <2>2, <2>3, <2>4 DEF TypeInv, NamesInv, TypeOK
<1>. QED  BY <1>1, <1>2, <1>3, ClockInvariance, SessionInvariance, PTL DEF Spec

=============================================================================
