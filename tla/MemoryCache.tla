---------------------------- MODULE MemoryCache ----------------------------
(***************************************************************************)
(* MemoryCache: one dictionary, an attribute of the class, used by every   *)
(* instance and every thread without a lock.  A thread may be preempted    *)
(* between any two look-ups, so each look-up is a step.                    *)
(*                                                                         *)
(* AsyncMemoryCache has the same methods as coroutines that never suspend, *)
(* so that each runs as one step between the tasks of a loop.              *)
(***************************************************************************)
EXTENDS CacheCalls

Expired(e) == e.until # Never /\ e.until < now

(* A thread that indexes a key another thread has deleted: KeyError. *)
KeyError(u) == store[Key(u)] = Nothing /\ Raise(u) /\ UNCHANGED store

MStart(u) ==
  /\ pc[u] = "start"
  /\ Goto(u, IF Op(u) = "set" THEN "set" ELSE "find")
  /\ UNCHANGED <<store, held, plan>>

(* `key in c`: in get, and in remove. *)
MFind(u) ==
  /\ pc[u] = "find"
  /\ UNCHANGED <<store, held, plan>>
  /\ CASE store[Key(u)] # Nothing                      -> Goto(u, IF Op(u) = "remove" THEN "pop" ELSE "fetch")
       [] store[Key(u)] = Nothing /\ Op(u) = "remove"  -> NextKey(u, FALSE)
       [] store[Key(u)] = Nothing /\ Op(u) # "remove"  -> Miss(u)

(* `vc = c[key]` *)
MFetch(u) ==
  /\ pc[u] = "fetch"
  /\ \/ KeyError(u)
     \/ /\ store[Key(u)] # Nothing
        /\ held' = [held EXCEPT ![u] = store[Key(u)]]
        /\ Goto(u, "judge")
        /\ UNCHANGED <<store, plan>>

(* The timeout of the entry it has read against the time. *)
MJudge(u) ==
  /\ pc[u] = "judge"
  /\ IF Expired(held[u])
     THEN Goto(u, "drop") /\ UNCHANGED held
     ELSE /\ Hit(u, held[u].value)
          /\ held' = [held EXCEPT ![u] = IF pc'[u] = "set" THEN @ ELSE Nothing]
  /\ UNCHANGED <<store, plan>>

(* `del c[key]`, whatever the key holds by now. *)
MDrop(u) ==
  /\ pc[u] = "drop"
  /\ \/ KeyError(u)
     \/ /\ store[Key(u)] # Nothing
        /\ store' = [store EXCEPT ![Key(u)] = Nothing]
        /\ Miss(u)
        /\ Forgets(u)

MPop(u) ==
  /\ pc[u] = "pop"
  /\ \/ KeyError(u)
     \/ /\ store[Key(u)] # Nothing
        /\ store' = [store EXCEPT ![Key(u)] = Nothing]
        /\ NextKey(u, TRUE)
        /\ UNCHANGED <<held, plan>>

(* set stores a new entry, then returns c[key]; int(timeout) raises in the *)
(* set of a memoised call that has no timeout.                             *)
MSet(u) ==
  /\ pc[u] = "set"
  /\ Op(u) # "update_timeout"
  /\ IF call[u].timeout = Unset
     THEN Raise(u) /\ UNCHANGED store
     ELSE /\ store' = [store EXCEPT ![Key(u)] = [value |-> NewValue(u), until |-> now + call[u].timeout]]
          /\ Goto(u, "echo")
          /\ UNCHANGED <<held, plan>>

MEcho(u) ==
  /\ pc[u] = "echo"
  /\ \/ KeyError(u)
     \/ /\ store[Key(u)] # Nothing
        /\ Wrote(u)
        /\ Forgets(u)
        /\ UNCHANGED store

(* update_timeout changes the timeout inside the entry that is stored now: *)
(* every thread that holds the entry sees it change.                       *)
MRetime(u) ==
  LET k == Key(u)
      e == [store[k] EXCEPT !.until = now + call[u].timeout]
  IN  /\ pc[u] = "set"
      /\ Op(u) = "update_timeout"
      /\ \/ KeyError(u)
         \/ /\ store[k] # Nothing
            /\ store' = [store EXCEPT ![k] = e]
            /\ held' = [w \in Users |-> IF w = u THEN Nothing
                                        ELSE IF held[w] = store[k] THEN e ELSE held[w]]
            /\ Wrote(u)
            /\ UNCHANGED plan

MemoryStep(u) ==
  /\ setup.kind = "memory"
  /\ \/ MStart(u) \/ MFind(u) \/ MFetch(u) \/ MJudge(u) \/ MDrop(u) \/ MPop(u)
     \/ MSet(u) \/ MEcho(u) \/ MRetime(u)
  /\ UNCHANGED <<setup, now, purged, asks>>

(***************************************************************************)
(* AsyncMemoryCache                                                        *)
(***************************************************************************)
Kept(k) == IF store[k] # Nothing /\ Expired(store[k]) THEN Nothing ELSE store[k]

(* get, and update_timeout that gets and then sets the timeout. *)
AGet(u) ==
  /\ pc[u] = "start"
  /\ Op(u) \notin {"set", "remove"}
  /\ LET k == Key(u)
         e == Kept(k)
     IN  CASE e = Nothing ->
                store' = [store EXCEPT ![k] = Nothing] /\ Miss(u)
           [] e # Nothing /\ Op(u) = "update_timeout" ->
                /\ store' = [store EXCEPT ![k].until = now + call[u].timeout]
                /\ Answer(u, Abs!Found(e.value))
           [] e # Nothing /\ Op(u) # "update_timeout" ->
                Hit(u, e.value) /\ UNCHANGED store
  /\ UNCHANGED <<held, plan>>

ASet(u) ==
  /\ pc[u] = "set" \/ (pc[u] = "start" /\ Op(u) = "set")
  /\ IF call[u].timeout = Unset
     THEN Raise(u) /\ UNCHANGED store
     ELSE /\ store' = [store EXCEPT ![Key(u)] = [value |-> NewValue(u), until |-> now + call[u].timeout]]
          /\ Wrote(u)
          /\ Forgets(u)

(* No task runs between the keys. *)
ARemove(u) ==
  LET ks == {call[u].keys[i] : i \in DOMAIN call[u].keys}
  IN  /\ pc[u] = "start"
      /\ Op(u) = "remove"
      /\ store' = [k \in Keys |-> IF k \in ks THEN Nothing ELSE store[k]]
      /\ Answer(u, Abs!Removed(\A k \in ks : store[k] # Nothing))
      /\ UNCHANGED <<held, plan>>

AsyncMemoryStep(u) ==
  /\ setup.kind = "async_memory"
  /\ AGet(u) \/ ASet(u) \/ ARemove(u)
  /\ UNCHANGED <<setup, now, purged, asks>>

=============================================================================
