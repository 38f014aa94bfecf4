---------------------------- MODULE MCRootfsCache ----------------------------
(* Instances of RootfsCache for TLC.  All processes ask for one key: p1    *)
(* with limits the archive just meets, p2 with more room, and p3 with      *)
(* limits that the archive exceeds.                                        *)
EXTENDS RootfsCache, TLC

CONSTANTS p1, p2, p3, k1

MCKeyOf == [p \in Procs |-> k1]
MCSize == [k \in Keys |-> 2]
MCLimit == [p \in Procs |-> IF p = p1 THEN 2 ELSE IF p = p2 THEN 3 ELSE 1]
=============================================================================
