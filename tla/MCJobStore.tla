----------------------------- MODULE MCJobStore -----------------------------
(* Which processes may be killed in the runs of JobStore.                  *)
EXTENDS JobStore

\* A killed --list changes nothing for anybody.
AnyWriter     == {Registrar} \cup Executors \cup Removers
\* The started child survives, so that it can be asked to make progress.
AllButTimedRun == AnyWriter \ {TimedRun}
OnlyRemovers  == Removers
Nobody        == {}

=============================================================================
