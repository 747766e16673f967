----------------------------- MODULE MCRequests -----------------------------
(* Small zones for the run of Requests.                                    *)
EXTENDS Requests

\* Two changes of the offset, two ticks apart: gaps, folds, and both at once; some put
\* the clocks back by a whole day.
SmallZones == {Zone(<<a, b, c>>, <<4, 6>>) : a, b, c \in {0, 1, 2, 4}}
MomentsAround == 2..6
ReadingsAround == 0..10

=============================================================================
