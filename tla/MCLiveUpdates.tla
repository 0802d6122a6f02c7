--------------------------- MODULE MCLiveUpdates ---------------------------
(* Instances of LiveUpdates.                                               *)
EXTENDS LiveUpdates

TwoRuns == <<"w1", "w1">>

\* Two states that the fingerprints tell apart: the first run goes on to the second
\* state, the other run has still to begin.
TwoStates == <<1, 2>>
Ends == <<2, 1>>

=============================================================================
