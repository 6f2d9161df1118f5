-------------------------- MODULE MCThrottleBuckets --------------------------
(* Small instances of ThrottleBuckets. *)
EXTENDS ThrottleBuckets, TLC

CONSTANTS t1, t2, k1, k2, k3, long

MCThreads == {t1, t2}
MCKeys    == {k1, k2, k3, long}

\* One key is over the length limit; its prefix is the value k1.
MCShort(k) == IF k = long THEN k1 ELSE k

Symmetry == Permutations(MCThreads) \cup Permutations({k2, k3})
=============================================================================
