----------------------------- MODULE MCDashboard -----------------------------
(***************************************************************************)
(* Small instances of the dashboard.                                       *)
(***************************************************************************)
EXTENDS DashboardCorrectness, TLC

CONSTANTS s1, s2, d1, d2

OneSession == {s1}
TwoSessions == {s1, s2}
TwoDates == {d1, d2}
TwoStatuses == <<-1, 0>>
Symmetry == Permutations(TwoSessions)
=============================================================================
