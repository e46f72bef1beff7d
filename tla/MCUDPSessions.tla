--------------------------- MODULE MCUDPSessions ----------------------------
(***************************************************************************)
(* Instances of UDPSessions for TLC.                                       *)
(***************************************************************************)
EXTENDS UDPSessions, TLC

CONSTANTS a1, a2

Clients == {a1, a2}
TwiceNever == (a1 :> 2) @@ (a2 :> 0)
TwiceOnce == (a1 :> 2) @@ (a2 :> 1)
OneClient == {a1}
TwiceAlone == [a \in OneClient |-> 2]
Once == [a \in OneClient |-> 1]

\* Session objects are interchangeable; used for safety only.
SessionSymmetry == Permutations(Sessions)
=============================================================================
