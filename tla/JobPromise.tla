----------------------------- MODULE JobPromise -----------------------------
(***************************************************************************)
(* What agent-at promises its user about one persistent job (README.md,    *)
(* "persist"; docs/VERIFICATION.md:117-131): the agent runs at most once,  *)
(* a start whose outcome is unknown is never repeated, a cancelled job and *)
(* a job whose registration was reported as failed never run.              *)
(***************************************************************************)
EXTENDS Naturals

VARIABLES
    life,   \* the job's stage
    told    \* what the user was told about its registration

pvars == <<life, told>>

Lives == {"new", "reserved", "claimed", "running", "ended", "cancelled", "removed"}
Told  == {"none", "registered", "retained", "failed"}

Init == life = "new" /\ told = "none"

Advance(from, to) == life \in from /\ life' = to /\ UNCHANGED told

Reserve == Advance({"new"}, "reserved")
Claim   == told # "failed" /\ Advance({"reserved"}, "claimed")
Launch  == Advance({"claimed"}, "running")
End     == Advance({"running"}, "ended")
\* The start record may be all there ever is: nothing runs it again.
Forfeit == Advance({"reserved", "claimed"}, "ended")
Cancel  == Advance({"reserved", "ended"}, "cancelled")
Remove  == Advance({"cancelled"}, "removed")
Discard == told = "none" /\ Advance({"new", "reserved"}, "removed")

\* Success, or that the job is kept because its state is in doubt, is only said
\* of a job that is there.
Confirm == /\ told = "none" /\ life = "reserved"
           /\ told' \in {"registered", "retained"}
           /\ UNCHANGED life
Refuse  == /\ told = "none"
           /\ told' = "failed"
           /\ \/ life \in {"reserved", "removed"} /\ UNCHANGED life
              \/ life = "new" /\ life' = "removed"

Next == \/ Reserve \/ Claim \/ Launch \/ End \/ Forfeit \/ Cancel \/ Remove
        \/ Discard \/ Confirm \/ Refuse

Spec == Init /\ [][Next]_pvars

-----------------------------------------------------------------------------

\* A job goes through these stages in this order and never goes back: what was launched is
\* not launched again, what was cancelled is not reserved again (persist.go:317-331, 422-436).
Stage == [new |-> 0, reserved |-> 1, claimed |-> 2, running |-> 3, ended |-> 4,
          cancelled |-> 5, removed |-> 6]
Onward == Stage[life] < Stage[life'] \/ (life' = life /\ told = "none" /\ told' # "none")
LifeIsOneWay == [][Onward]_pvars

=============================================================================
