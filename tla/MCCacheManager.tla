--------------------------- MODULE MCCacheManager ---------------------------
(***************************************************************************)
(* CacheManager for TLC.  Two callers are what every race here takes: one  *)
(* acts between two steps of the other.  Two keys let a clear be half done *)
(* and let it remove one key while the other is being added.               *)
(***************************************************************************)
EXTENDS CacheManager, TLC

CONSTANTS t1, t2, k1, k2

MCThreads == {t1, t2}
MCKeys    == {k1, k2}

\* For the safety runs only: threads are interchangeable, and so are keys.
MCSymmetry == Permutations(MCThreads) \cup Permutations(MCKeys)
=============================================================================
