--------------------------- MODULE MCEventStream ---------------------------
(* Model checking of EventStream.                                           *)
EXTENDS EventStream

TwoMine == {1, 3}
OneOther == {2}
=============================================================================
