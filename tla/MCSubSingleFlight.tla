-------------------------- MODULE MCSubSingleFlight --------------------------
(* Requests for one key.                                                    *)
EXTENDS SubSingleFlight

CONSTANT k

OneKey == [r \in Requests |-> k]
==============================================================================
