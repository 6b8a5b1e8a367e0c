---------------------------- MODULE ServerCache ----------------------------
(***************************************************************************)
(* RedisCache, AsyncRedisCache, MemcachedCache and AsyncMemcachedCache: a  *)
(* server that expires its entries by itself.  Each command is one step;   *)
(* remove is GET then DELETE, update_timeout is GET then SET.              *)
(***************************************************************************)
EXTENDS CacheCalls

(* An entry is gone from the moment it is due. *)
Serves(k) ==
  store[k] # Nothing /\ (store[k].until = Never \/ now < store[k].until)

(* The deadline each adapter asks the server for, and the timeouts the     *)
(* server or the client library refuses.                                   *)
RedisSet(t) ==          \* SET ... EX 0 is an error of the server
  [refused |-> t = 0, until |-> IF t = Unset THEN Never ELSE now + t]

AsyncRedisSet(t) ==     \* SETEX, or SET when there is no timeout
  [refused |-> FALSE, until |-> IF t \in {Unset, 0} THEN Never ELSE now + t]

MemcachedSet(t) ==      \* pylibmc wants a number; 0 is for ever
  [refused |-> t = Unset, until |-> IF t = 0 THEN Never ELSE now + t]

AsyncMemcachedSet(t) == \* so does aiomcache
  [refused |-> t = Unset, until |-> IF t = 0 THEN Never ELSE now + t]

Setting(t) ==
  CASE setup.kind = "redis"           -> RedisSet(t)
    [] setup.kind = "async_redis"     -> AsyncRedisSet(t)
    [] setup.kind = "memcached"       -> MemcachedSet(t)
    [] setup.kind = "async_memcached" -> AsyncMemcachedSet(t)

VStart(u) ==
  /\ pc[u] = "start"
  /\ Goto(u, IF Op(u) = "set" THEN "set" ELSE "find")
  /\ UNCHANGED <<store, held, plan>>

(* GET *)
VGet(u) ==
  LET e == store[Key(u)]
  IN  /\ pc[u] = "find"
      /\ CASE Serves(Key(u)) /\ Op(u) = "remove"   -> Goto(u, "delete")
           [] ~Serves(Key(u)) /\ Op(u) = "remove"  -> NextKey(u, FALSE)
           [] Serves(Key(u)) /\ Op(u) # "remove"   -> Hit(u, e.value)
           [] ~Serves(Key(u)) /\ Op(u) # "remove"  -> Miss(u)
      /\ held' = [held EXCEPT ![u] = IF pc'[u] = "set" THEN e ELSE Nothing]
      /\ UNCHANGED <<store, plan>>

(* DELETE: counted as removed even if the key has gone since the GET. *)
VDelete(u) ==
  /\ pc[u] = "delete"
  /\ store' = [store EXCEPT ![Key(u)] = Nothing]
  /\ NextKey(u, TRUE)
  /\ UNCHANGED <<held, plan>>

(* SET, whatever the key holds by now. *)
VSet(u) ==
  LET s == Setting(call[u].timeout)
  IN  /\ pc[u] = "set"
      /\ IF s.refused
         THEN Raise(u) /\ UNCHANGED store
         ELSE /\ store' = [store EXCEPT ![Key(u)] = [value |-> NewValue(u), until |-> s.until]]
              /\ Wrote(u)
              /\ Forgets(u)

ServerStep(u) ==
  /\ setup.kind \in {"redis", "async_redis", "memcached", "async_memcached"}
  /\ VStart(u) \/ VGet(u) \/ VDelete(u) \/ VSet(u)
  /\ UNCHANGED <<setup, now, purged, asks>>

=============================================================================
