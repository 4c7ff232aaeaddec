-------------------------- MODULE MCInPlaceRestart --------------------------
(* Instances of InPlaceRestart for TLC. *)
EXTENDS InPlaceRestart

CONSTANTS p1, p2

TwoPods == {p1, p2}

=============================================================================
