---------------------------- MODULE CacheManager ----------------------------
(***************************************************************************)
(* CacheManagerMixin (cache/extras.py): the "cache key log" of a class,    *)
(* kept as a value of the cache it describes, and the values themselves.   *)
(* Threads of one process call cache_set, cache_get, cache_get_or_set,     *)
(* clear_cache_keys and clear_all_cache_keys.  The log is read, changed    *)
(* and written back under cls.cache_key_lock, which the first caller       *)
(* creates; two reads in clear_all_cache_keys take no lock.                *)
(*                                                                         *)
(* One action is one access to state the threads share: a read or write of *)
(* cls.cache_key_lock, a lock operation, one call of the cache adapter.    *)
(* Values come back from the adapter as copies, which is what the pickling *)
(* adapters do (RedisCache, MemcachedCache, SqliteCache).                  *)
(***************************************************************************)
EXTENDS Naturals, FiniteSets

CONSTANTS
    Threads,   \* the callers, threads of one process
    Keys,      \* the (already prefixed) cache keys they use
    None,      \* cls.cache_key_lock before anybody created a lock
    MaxFail    \* bound: how many adapter calls may raise

ASSUME CacheManagerAssumption == None \notin Threads /\ MaxFail \in Nat

VARIABLES
    lockRef,   \* cls.cache_key_lock; a Lock is named by the thread that made it
    held,      \* the Lock objects that are acquired
    logExists, \* whether the log's cache entry exists
    log,       \* the keys in that entry ({} when there is none)
    store,     \* the keys that have a value in the cache
    pc, op,    \* where each caller is, and in which operation
    key,       \* the key of cache_set / cache_get / cache_get_or_set
    todo,      \* the keys a clear was asked to remove
    rest,      \* those of todo not yet removed from the cache
    mine,      \* the Lock object the caller fetched
    view,      \* the caller's copy of the log
    fails      \* adapter calls that raised

\* History variables: no guard reads them.
VARIABLES
    made,      \* the Lock objects ever created
    must,      \* keys logged, and since then neither deleted, expired nor wiped
    due        \* keys a clear in progress still owes (see Owes and Excuse)

shared == <<lockRef, held, logExists, log, store, fails>>
locals == <<pc, op, key, todo, rest, mine, view>>
ghosts == <<made, must, due>>
vars   == <<shared, locals, ghosts>>

Ops     == {"none", "set", "get", "getorset", "clear", "probe", "list"}
Adders  == {"set", "get", "getorset"}
InBody  == {"read", "init", "write", "remove", "release"}
Probing == {"probe", "list"}
Labels  == {"idle", "check", "make", "fetch", "acquire", "lookup", "store"} \cup InBody

\* Callers that took the lock: clear_all_cache_keys reads the log before it does.
Locked(t) == pc[t] \in InBody /\ op[t] \notin Probing

Init ==
    /\ lockRef = None /\ held = {} /\ logExists = FALSE /\ log = {} /\ store = {}
    /\ fails = 0
    /\ pc = [t \in Threads |-> "idle"] /\ op = [t \in Threads |-> "none"]
    /\ key = [t \in Threads |-> None]
    /\ todo = [t \in Threads |-> {}] /\ rest = [t \in Threads |-> {}]
    /\ mine = [t \in Threads |-> None] /\ view = [t \in Threads |-> {}]
    /\ made = {} /\ must = {} /\ due = [t \in Threads |-> {}]

Goto(t, label) == pc' = [pc EXCEPT ![t] = label]

\* The call returns or raises: the caller's local variables die with it.
End(t) ==
    /\ pc' = [pc EXCEPT ![t] = "idle"] /\ op' = [op EXCEPT ![t] = "none"]
    /\ key' = [key EXCEPT ![t] = None]
    /\ todo' = [todo EXCEPT ![t] = {}] /\ rest' = [rest EXCEPT ![t] = {}]
    /\ mine' = [mine EXCEPT ![t] = None] /\ view' = [view EXCEPT ![t] = {}]

\* A clear that begins owes ks; keys ks are no longer in the log, which excuses
\* the clear_all_cache_keys calls that have not read it yet.
Owes(t, ks) == due' = [due EXCEPT ![t] = ks]
Excuse(ks)  == due' = [u \in Threads |-> IF op[u] \in Probing THEN due[u] \ ks ELSE due[u]]

-----------------------------------------------------------------------------
(* The calls *)

\* cache_set, cache_get and cache_get_or_set (as a z_cache method does) first
\* prefix the key, and prefixing logs it.
BeginAdd(t, o, k) ==
    /\ pc[t] = "idle"
    /\ op' = [op EXCEPT ![t] = o] /\ key' = [key EXCEPT ![t] = k]
    /\ Goto(t, "check")
    /\ UNCHANGED <<shared, todo, rest, mine, view, ghosts>>

CacheSet(t, k)      == BeginAdd(t, "set", k)
CacheGet(t, k)      == BeginAdd(t, "get", k)
CacheGetOrSet(t, k) == BeginAdd(t, "getorset", k)

ClearCacheKeys(t, k) ==
    /\ pc[t] = "idle"
    /\ op' = [op EXCEPT ![t] = "clear"]
    /\ todo' = [todo EXCEPT ![t] = {k}] /\ rest' = [rest EXCEPT ![t] = {k}]
    /\ Owes(t, {k} \cap store)
    /\ Goto(t, "check")
    /\ UNCHANGED <<shared, key, mine, view, made, must>>

\* clear_all_cache_keys reads the log ("probe"), reads it again ("list"), and
\* clears what the second read returned.
ClearAllCacheKeys(t) ==
    /\ pc[t] = "idle"
    /\ op' = [op EXCEPT ![t] = "probe"]
    /\ Owes(t, store \cap must)
    /\ Goto(t, "read")
    /\ UNCHANGED <<shared, key, todo, rest, mine, view, made, must>>

-----------------------------------------------------------------------------
(* _get_lock and lock_acquire_timeout(lock, timeout=30, fail=True) *)

\* Mutant of CheckLock: the lock nobody created yet is not noticed.
CheckNothing(t) ==
    /\ pc[t] = "check"
    /\ Goto(t, "fetch")
    /\ UNCHANGED <<shared, op, key, todo, rest, mine, view, ghosts>>

CheckLock(t) ==
    /\ pc[t] = "check"
    /\ Goto(t, IF lockRef = None THEN "make" ELSE "fetch")
    /\ UNCHANGED <<shared, op, key, todo, rest, mine, view, ghosts>>

MakeLock(t) ==
    /\ pc[t] = "make"
    /\ lockRef' = t /\ made' = made \cup {t}
    /\ Goto(t, "fetch")
    /\ UNCHANGED <<held, logExists, log, store, fails, op, key, todo, rest, mine, view,
                   must, due>>

FetchLock(t) ==
    /\ pc[t] = "fetch"
    /\ mine' = [mine EXCEPT ![t] = lockRef]
    /\ Goto(t, "acquire")
    /\ UNCHANGED <<shared, op, key, todo, rest, view, ghosts>>

\* Mutant of Acquire: a lock somebody holds is acquired all the same.
AcquireIgnoringHolder(t) ==
    /\ pc[t] = "acquire"
    /\ held' = held \cup {mine[t]}
    /\ Goto(t, IF op[t] = "clear" THEN "remove" ELSE "read")
    /\ UNCHANGED <<lockRef, logExists, log, store, fails, op, key, todo, rest, mine, view,
                   ghosts>>

Acquire(t) ==
    /\ pc[t] = "acquire" /\ mine[t] \notin held
    /\ held' = held \cup {mine[t]}
    /\ Goto(t, IF op[t] = "clear" THEN "remove" ELSE "read")
    /\ UNCHANGED <<lockRef, logExists, log, store, fails, op, key, todo, rest, mine, view,
                   ghosts>>

\* Mutant of AcquireTimeout: the caller asks for the lock again, and again.
AcquireAgain(t) ==
    /\ pc[t] = "acquire" /\ mine[t] \in held
    /\ Goto(t, "check")
    /\ UNCHANGED <<shared, op, key, todo, rest, mine, view, ghosts>>

\* The timeout passed while somebody else held the lock: LockWaitTimeout.
AcquireTimeout(t) ==
    /\ pc[t] = "acquire" /\ mine[t] \in held
    /\ End(t) /\ Owes(t, {})
    /\ UNCHANGED <<shared, made, must>>

\* The body of the with statement ended: the generator resumes and releases.
Release(t) ==
    /\ pc[t] = "release"
    /\ held' = held \ {mine[t]}
    /\ CASE op[t] = "set"      -> Goto(t, "store") /\ UNCHANGED <<op, key, todo, rest, mine, view>>
         [] op[t] = "getorset" -> Goto(t, "lookup") /\ UNCHANGED <<op, key, todo, rest, mine, view>>
         [] OTHER              -> End(t)
    /\ IF op[t] = "clear" THEN Owes(t, {}) ELSE UNCHANGED due
    /\ UNCHANGED <<lockRef, logExists, log, store, fails, made, must>>

-----------------------------------------------------------------------------
(* get_all_cache_keys: cached.get_or_set(log, set()), a get and, on a miss, a set *)

\* What the caller does with the keys ks it got from the log.  The first read of
\* clear_all_cache_keys only asks whether there are any ("NO_CACHE_KEYS").
Got(t, ks) ==
    CASE op[t] = "probe" /\ ks = {} -> End(t)
      [] op[t] = "probe" /\ ks # {} ->
            /\ op' = [op EXCEPT ![t] = "list"]
            /\ Goto(t, "read")
            /\ UNCHANGED <<key, todo, rest, mine, view>>
      [] op[t] = "list" ->
            /\ op' = [op EXCEPT ![t] = "clear"]
            /\ todo' = [todo EXCEPT ![t] = ks] /\ rest' = [rest EXCEPT ![t] = ks]
            /\ Goto(t, "check")
            /\ UNCHANGED <<key, mine, view>>
      [] OTHER ->
            /\ view' = [view EXCEPT ![t] = ks]
            /\ Goto(t, "write")
            /\ UNCHANGED <<op, key, todo, rest, mine>>

ReadLog(t) ==
    /\ pc[t] = "read"
    /\ IF logExists
         THEN /\ Got(t, log)
              /\ IF op[t] = "probe" /\ log = {} THEN Owes(t, {}) ELSE UNCHANGED due
         ELSE Goto(t, "init") /\ UNCHANGED <<op, key, todo, rest, mine, view, due>>
    /\ UNCHANGED <<shared, made, must>>

\* The set of get_or_set replaces whatever the entry holds by now.  Without the
\* lock it can wipe keys that were logged after the miss.
InitLog(t) ==
    /\ pc[t] = "init"
    /\ logExists' = TRUE /\ log' = {}
    /\ Got(t, {})
    /\ must' = IF Locked(t) THEN must ELSE {}
    /\ Excuse(Keys)
    /\ UNCHANGED <<lockRef, held, store, fails, made>>

-----------------------------------------------------------------------------
(* log_cache_key, log_delete_cache_keys and clear_cache_keys *)

WriteLog(t) ==
    /\ pc[t] = "write"
    /\ logExists' = TRUE
    /\ IF op[t] = "clear"
         THEN log' = view[t] \ todo[t] /\ must' = must \ todo[t] /\ Excuse(todo[t])
         ELSE log' = view[t] \cup {key[t]} /\ must' = must \cup {key[t]} /\ UNCHANGED due
    /\ Goto(t, "release")
    /\ UNCHANGED <<lockRef, held, store, fails, op, key, todo, rest, mine, view, made>>

\* Mutant of RemoveValue: the first key without a value ends the loop.
RemoveUntilMissing(t) ==
    /\ pc[t] = "remove"
    /\ \/ \E k \in rest[t] : /\ store' = store \ {k}
                             /\ rest' = [rest EXCEPT ![t] = IF k \in store THEN @ \ {k} ELSE {}]
                             /\ UNCHANGED pc
       \/ rest[t] = {} /\ Goto(t, "read") /\ UNCHANGED <<store, rest>>
    /\ UNCHANGED <<lockRef, held, logExists, log, fails, op, key, todo, mine, view, ghosts>>

\* cached.remove(*pk) deletes key by key, before the log entry is updated.
RemoveValue(t) ==
    /\ pc[t] = "remove"
    /\ \/ \E k \in rest[t] : /\ store' = store \ {k}
                             /\ rest' = [rest EXCEPT ![t] = @ \ {k}]
                             /\ UNCHANGED pc
       \/ rest[t] = {} /\ Goto(t, "read") /\ UNCHANGED <<store, rest>>
    /\ UNCHANGED <<lockRef, held, logExists, log, fails, op, key, todo, mine, view, ghosts>>

\* cache_get_or_set: the value is there, or it is computed and stored.
Lookup(t) ==
    /\ pc[t] = "lookup"
    /\ IF key[t] \in store
         THEN End(t)
         ELSE Goto(t, "store") /\ UNCHANGED <<op, key, todo, rest, mine, view>>
    /\ UNCHANGED <<shared, ghosts>>

StoreValue(t) ==
    /\ pc[t] = "store"
    /\ store' = store \cup {key[t]}
    /\ due' = [u \in Threads |-> due[u] \ {key[t]}]
    /\ End(t)
    /\ UNCHANGED <<lockRef, held, logExists, log, fails, made, must>>

\* The adapter raises (connection lost, database locked) and the exception leaves
\* the call.  Inside a with body it passes through lock_acquire_timeout's yield,
\* and the release after the yield does not run: the lock stays acquired.
AdapterRaises(t) ==
    /\ pc[t] \in {"read", "init", "write", "remove", "lookup", "store"}
    /\ fails < MaxFail /\ fails' = fails + 1
    /\ End(t) /\ Owes(t, {})
    /\ UNCHANGED <<lockRef, held, logExists, log, store, made, must>>

-----------------------------------------------------------------------------
(* The cache's clock: an entry's timeout passes *)

ExpireLog ==
    /\ logExists
    /\ logExists' = FALSE /\ log' = {}
    /\ must' = {} /\ Excuse(Keys)
    /\ UNCHANGED <<lockRef, held, store, fails, locals, made>>

ExpireValue(k) ==
    /\ k \in store
    /\ store' = store \ {k}
    /\ UNCHANGED <<lockRef, held, logExists, log, fails, locals, ghosts>>

-----------------------------------------------------------------------------

\* What a caller does once it is inside a call.
Step(t) ==
    \/ CheckLock(t) \/ MakeLock(t) \/ FetchLock(t) \/ Acquire(t) \/ AcquireTimeout(t)
    \/ Release(t) \/ ReadLog(t) \/ InitLog(t) \/ WriteLog(t) \/ RemoveValue(t)
    \/ Lookup(t) \/ StoreValue(t)

Call(t) ==
    \/ \E k \in Keys : \/ CacheSet(t, k) \/ CacheGet(t, k) \/ CacheGetOrSet(t, k)
                       \/ ClearCacheKeys(t, k)
    \/ ClearAllCacheKeys(t)

Next ==
    \/ \E t \in Threads : Call(t) \/ Step(t) \/ AdapterRaises(t)
    \/ ExpireLog
    \/ \E k \in Keys : ExpireValue(k)

Spec     == Init /\ [][Next]_vars

\* The interpreter keeps scheduling every thread; nothing obliges anybody to make
\* a call, an adapter to raise or an entry to expire.
FairSpec == Spec /\ \A t \in Threads : WF_vars(Step(t))

-----------------------------------------------------------------------------
(* Properties *)

\* Types; lock references are to Lock objects that were created, and whoever waits
\* for or works under a lock has fetched one.
TypeOK ==
    /\ made \subseteq Threads /\ lockRef \in made \cup {None} /\ held \subseteq made
    /\ logExists \in BOOLEAN /\ log \subseteq Keys /\ store \subseteq Keys
    /\ fails \in 0..MaxFail
    /\ pc \in [Threads -> Labels] /\ op \in [Threads -> Ops] /\ key \in [Threads -> Keys \cup {None}]
    /\ todo \in [Threads -> SUBSET Keys] /\ rest \in [Threads -> SUBSET Keys]
    /\ mine \in [Threads -> made \cup {None}] /\ view \in [Threads -> SUBSET Keys]
    /\ \A t \in Threads : pc[t] = "acquire" \/ Locked(t) => mine[t] # None
    /\ must \subseteq Keys /\ due \in [Threads -> SUBSET Keys]

\* The class ended up with a single Lock object: no two first callers raced
\* through _get_lock.
OneLock == \A a, b \in made : a = b

\* A key that was logged is in the log until a clear deletes it, the entry
\* expires, or an unlocked get_all_cache_keys that had found no entry writes an
\* empty one: no read-modify-write of the log undoes another one.
LoggedKeyStays == OneLock => must \subseteq log

\* When clear_cache_keys or clear_all_cache_keys returns, every key it owed has no
\* value: the keys it was given, or that were cached and logged when it began,
\* except those stored again meanwhile and those that left the log (another clear,
\* or its expiry) before clear_all_cache_keys read it.
ClearRemoves ==
    [][OneLock => \A t \in Threads :
           /\ op[t] \in {"clear", "probe"} /\ op'[t] = "none"
           /\ pc[t] \in {"release", "init"} \/ (pc[t] = "read" /\ op[t] = "probe" /\ fails' = fails)
           => due[t] \cap store = {}]_vars

\* Every call returns or raises, even when an adapter error left the lock acquired
\* for good: waiting for the lock is bounded by its timeout, and no caller waits
\* for a lock it holds itself.
CallsEnd == \A t \in Threads : pc[t] # "idle" ~> pc[t] = "idle"

\* What the comment on cache_key_lock says it is for (cache/extras.py:364): no
\* addition to the log is overwritten by another one.
AdditionsNotOverwritten == must \subseteq log

=============================================================================
