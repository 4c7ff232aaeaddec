------------------------- MODULE MCTTLAfterFinished -------------------------
(* The instance of TTLAfterFinished for TLC. *)
EXTENDS TTLAfterFinished

UnsetOrUpToTwo == {Nil, 0, 2}

=============================================================================
