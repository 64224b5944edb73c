---------------------------- MODULE MCOverlayHub ----------------------------
(***************************************************************************)
(* Small instances of OverlayHub: one or two documents and two events.     *)
(***************************************************************************)
EXTENDS OverlayHub, TLC

CONSTANTS s1, s2

OneEvent    == {1}
TwoEvents   == {1, 2}
OneSession  == {s1}
TwoSessions == {s1, s2}

Symmetry == Permutations(TwoSessions)

=============================================================================
