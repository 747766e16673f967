-------------------------------- MODULE Await --------------------------------
(***************************************************************************)
(* agent-at in the foreground until it launches, and its way out           *)
(* (main.go:202-244, schedule.go:68-108, wake.go:51-105): one preparation, *)
(* then a loop that reads the wall clock at least once a second of running *)
(* time.  The wall clock may be set, and on Windows a timer does not run   *)
(* while the machine sleeps; Ctrl+C can come at any moment.                *)
(***************************************************************************)
EXTENDS Naturals, FiniteSetsExt

CONSTANTS
    Due,        \* the instant of --at, in ticks
    Second,     \* ticks in a second
    Horizon,    \* bound: the wall clock stops there
    MaxJumps    \* bound: how often the clock is set, or the machine sleeps

ASSUME TimeAssumption ==
    /\ Due \in Nat /\ Horizon \in Nat /\ Due <= Horizon
    /\ Second \in Nat \ {0} /\ MaxJumps \in Nat

VARIABLES
    mode,       \* "wake", or how the agent runs: "headless", "interactive", "console"
    os,
    now, jumps, \* the wall clock
    timer,      \* what the timer of Wait has left; it counts running time
    late,       \* running time since the wall clock reached Due
    ctx,        \* the context is cancelled
    handler,    \* what Ctrl+C does: it kills ("default"), cancels ("ctx"), or "caught"
    cancelledAt,\* where the cancellation met agent-at
    pc,         \* the main goroutine
    code,       \* the exit code
    tmp,        \* the temporary directory
    leader      \* the process it launches

clockVars == <<now, jumps, timer, late>>
signals   == <<ctx, handler, cancelledAt>>
choice    == <<mode, os>>
awaitVars == <<choice, clockVars, signals, pc, code, tmp, leader>>

Stopped == pc \in {"exited", "interrupted", "killed"}

Init ==
    /\ mode \in {"wake", "headless", "interactive", "console"}
    /\ os \in {"linux", "darwin", "windows"}
    /\ now \in 0..Due /\ jumps = 0 /\ timer = 0 /\ late = 0
    /\ ctx = FALSE /\ handler = "default" /\ cancelledAt = "none"
    /\ pc = "prepare" /\ code = "none" /\ tmp = FALSE /\ leader = "none"

Return(c) == pc' = "leave" /\ code' = c

\* A wake gets a temporary directory, a long prompt another; or there is none to be had.
MakeTemp ==
    /\ pc = "prepare"
    /\ \/ Return("2") /\ UNCHANGED tmp
       \/ /\ pc' = "fill" /\ UNCHANGED code
          /\ tmp' \in BOOLEAN /\ (mode = "wake" => tmp') /\ (mode = "headless" => ~tmp')
    /\ UNCHANGED <<choice, clockVars, signals, leader>>

\* The file in it, and the command.  An error takes the directory back, and so does an
\* agent, whose preparation was a trial.
FillTemp ==
    /\ pc = "fill"
    /\ \/ pc' = "undo" /\ code' = "2"
       \/ pc' = (IF mode = "wake" THEN "notify" ELSE "undo") /\ UNCHANGED code
    /\ UNCHANGED <<choice, clockVars, signals, tmp, leader>>

UndoTemp ==
    /\ pc = "undo" /\ tmp' = FALSE
    /\ pc' = IF code = "2" THEN "leave" ELSE "notify"
    /\ UNCHANGED <<choice, clockVars, signals, code, leader>>

NotifyContext ==
    /\ pc = "notify" /\ pc' = "check" /\ handler' = "ctx"
    /\ UNCHANGED <<choice, clockVars, ctx, cancelledAt, code, tmp, leader>>

Prepare == MakeTemp \/ FillTemp \/ UndoTemp \/ NotifyContext

-----------------------------------------------------------------------------
(* await *)

\* Mutant: the context is looked at only while waiting.
CheckClockOnly == /\ pc = "check" /\ pc' = "clock"
                  /\ UNCHANGED <<choice, clockVars, signals, code, tmp, leader>>

CheckContext ==
    /\ pc = "check"
    /\ IF ctx THEN Return("130") ELSE pc' = "clock" /\ UNCHANGED code
    /\ UNCHANGED <<choice, clockVars, signals, tmp, leader>>

\* Mutant: it waits as long as is left.
WholeWait(left) == left

WaitFor(left) == Min({left, Second})

ReadClock ==
    /\ pc = "clock"
    /\ IF now >= Due THEN pc' = "launch" /\ timer' = 0
                     ELSE pc' = "wait" /\ timer' = WaitFor(Due - now)
    /\ UNCHANGED <<choice, now, jumps, late, signals, code, tmp, leader>>

\* When both are ready, select takes either.
Wait ==
    /\ pc = "wait"
    /\ \/ ctx /\ Return("130")
       \/ timer = 0 /\ pc' = "check" /\ UNCHANGED code
    /\ UNCHANGED <<choice, clockVars, signals, tmp, leader>>

\* The deferred calls, the last one first: stop, and then what a wake prepared.
StopNotify ==
    /\ pc = "leave" /\ pc' = "remove" /\ handler' = "default"
    /\ UNCHANGED <<choice, clockVars, ctx, cancelledAt, code, tmp, leader>>

RemoveTemp ==
    /\ pc = "remove" /\ pc' = "exited" /\ tmp' = (tmp /\ mode # "wake")
    /\ UNCHANGED <<choice, clockVars, signals, code, leader>>

Leave == StopNotify \/ RemoveTemp

\* Ctrl+C cancels the context, or takes agent-at away; a caught one is the agent's.
Interrupt ==
    /\ ~Stopped
    /\ \/ /\ handler = "ctx" /\ ~ctx /\ ctx' = TRUE /\ cancelledAt' = pc
          /\ UNCHANGED pc
       \/ handler = "default" /\ pc' = "interrupted" /\ UNCHANGED <<ctx, cancelledAt>>
    /\ UNCHANGED <<choice, clockVars, handler, code, tmp, leader>>

AwaitStep == Prepare \/ CheckContext \/ ReadClock \/ Wait \/ Leave

-----------------------------------------------------------------------------
(* The clock.  agent-at's own steps take no time beside a tick. *)

Tick ==
    /\ pc = "wait" /\ timer > 0
    /\ now' = Min({now + 1, Horizon}) /\ timer' = timer - 1
    /\ late' = IF now >= Due THEN late + 1 ELSE 0
    /\ UNCHANGED <<choice, jumps, signals, pc, code, tmp, leader>>

Jump ==
    /\ pc \in {"check", "clock", "wait", "launch"} /\ jumps < MaxJumps /\ jumps' = jumps + 1
    /\ now' \in 0..Horizon /\ late' = IF now' >= Due THEN late ELSE 0
    /\ UNCHANGED <<choice, timer, signals, pc, code, tmp, leader>>

=============================================================================
