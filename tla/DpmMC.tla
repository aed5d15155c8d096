------------------------------- MODULE DpmMC -------------------------------
(* An instance of DpmHost for TLC: two candidates cheaper than the         *)
(* baseline.                                                               *)
EXTENDS DpmHost

SomeOrder == <<"a", "b", "base">>
SomeCosts == [a |-> 1, b |-> 2, base |-> 3]
SomeChunks == [a |-> 1, b |-> 1, base |-> 1]
=============================================================================
