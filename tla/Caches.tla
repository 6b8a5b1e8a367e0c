------------------------------- MODULE Caches -------------------------------
(***************************************************************************)
(* The cache adapters, one at a time, with their callers and the clock;    *)
(* what they have in common, and that each implements ExpiringCache for a  *)
(* single caller.                                                          *)
(***************************************************************************)
EXTENDS MemoryCache, SqliteCache, ServerCache

Serve(u) == MemoryStep(u) \/ AsyncMemoryStep(u) \/ SqliteStep(u) \/ ServerStep(u)

Next ==
  \/ Tick
  \/ \E u \in Users : AskSome(u) \/ Refuse(u) \/ Compute(u) \/ Serve(u)

Spec == Init /\ [][Next]_vars

(***************************************************************************)
(* Properties                                                              *)
(***************************************************************************)
(* With one caller, and for the tasks of one loop on AsyncMemoryCache,     *)
(* every adapter is an expiring map: each call takes effect at once, and   *)
(* its only errors are a refused timeout and the function's own.  The      *)
(* statements each adapter makes of a call (look up, judge, delete, look   *)
(* again, write) are its stuttering.                                       *)
Atomic == Cardinality(setup.crew) = 1 \/ setup.kind = "async_memory"

ImplementsExpiringCache ==
  Abs!Init /\ [][Atomic => Abs!Next]_(Abs!vars)

(* With several callers too, an entry that is not due goes only because    *)
(* somebody removes the key, or because a get of a local adapter has seen  *)
(* an earlier entry of the key expire and deletes what the key holds by    *)
(* then.  No set, purge or server ever loses it.                           *)
SawExpire(u, k) ==
  /\ setup.kind \in {"memory", "sqlite", "async_sqlite"}
  /\ pc[u] \in {"drop", "delete"}
  /\ Key(u) = k

FreshLostOnlyToRemovers ==
  [][\A k \in Keys :
       store[k] # Nothing /\ ~Abs!Due(store[k]) /\ store'[k] = Nothing
         => \E u \in Users :
              SawExpire(u, k) \/ (pc[u] # "idle" /\ Op(u) = "remove")]_vars

=============================================================================
