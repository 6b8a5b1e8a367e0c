------------------------------ MODULE MCCaches ------------------------------
EXTENDS Caches

CONSTANTS u1, u2, k1, k2

MCUsers == {u1, u2}
MCKeys == {k1, k2}

(* One caller on two keys, two callers on one key: the second finds what   *)
(* interleavings do, the first what the keys of one remove and a purge of  *)
(* several rows do.                                                        *)
MCSetups ==
  {[kind |-> k, crew |-> {u1}, keys |-> MCKeys, calls |-> 2, old |-> {}] : k \in Kinds}
  \cup {[kind |-> k, crew |-> {u1}, keys |-> MCKeys, calls |-> 3, old |-> MCKeys] : k \in Kinds}
  \cup {[kind |-> k, crew |-> MCUsers, keys |-> {k1}, calls |-> 3, old |-> {k1}] : k \in Kinds}
MCTimeouts == {-1, 0, 1}

=============================================================================
