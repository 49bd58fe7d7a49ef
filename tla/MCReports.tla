----------------------------- MODULE MCReports -------------------------------
(* Instance of Reports for TLC: the constants a cfg cannot write. *)
EXTENDS Reports

\* A clock that is set back gives a negative time.
MCTimes == {-3, 2}
MCSyncTimes == {<<4, 0, 5>>, <<1, 1, 7>>}
=============================================================================
