---------------------------- MODULE MCRoundPage ----------------------------
(* A round in state st0 ends in stEnd, or takes the transition to st1.      *)
EXTENDS RoundPage

CONSTANTS st0, st1, stEnd

MCStates == {st0, st1, stEnd}
MCPath == [s \in MCStates |-> {st0, s}]
MCFinal == {stEnd}
=============================================================================
