------------------------------ MODULE MCSubarray ------------------------------
(* Instances of Subarray for TLC.                                           *)
EXTENDS Subarray, TLC

CONSTANTS b1, b2, b3

(* b1 and b2 are real-time blocks, b3 is a batch block.                     *)
RealTimeBlocks == {b1, b2}

SmallConfigurations ==
    { [blocks |-> <<b1, b2>>, given |-> {b1, b2}, receiver |-> b1],
      [blocks |-> <<b3, b2>>, given |-> {}, receiver |-> b2] }

SmallUpdates == { <<b1, b2>>, <<b3, b2>> }

Symmetry == Permutations(Devices) \union Permutations(Scans)
=============================================================================
