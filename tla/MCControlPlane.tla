---------------------------- MODULE MCControlPlane ----------------------------
(* Small instances of ControlPlane for TLC.                                 *)
EXTENDS ControlPlane, TLC

CONSTANTS b1, b2, wA, wB, p1, p2, workflow, engine, other

MCFlat == [n \in Names |-> {}]
MCNested == [n \in Names |-> IF n = engine THEN {other} ELSE {}]
MCHandMade == {<<b1, engine>>, <<b1, other>>}
MCEngineByHand == {<<b1, engine>>}
Symmetry == Permutations(Processes)
=============================================================================
