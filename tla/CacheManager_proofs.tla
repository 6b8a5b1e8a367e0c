------------------------ MODULE CacheManager_proofs ------------------------
(***************************************************************************)
(* TypeOK, LoggedKeyStays and ClearRemoves for any number of threads and   *)
(* keys.  The argument: a Lock object has one holder among those who work  *)
(* under it, so that with a single Lock object the log is read, changed    *)
(* and written back by one thread at a time, and what a thread writes back *)
(* is based on all the keys that had to be in the log when it read it.     *)
(* What a clear owes is among the keys the log has to have until the clear *)
(* reads the log, and among those it has still to remove from then on.     *)
(***************************************************************************)
EXTENDS CacheManager, TLAPS

\* Where a caller can be in each operation; who works under a lock, or is about to ask
\* for one, knows one, and the lock is acquired while somebody works under it.
CallerOK(t) ==
    /\ op[t] = "none" => pc[t] = "idle"
    /\ op[t] \in Probing => pc[t] \in {"read", "init"}
    /\ op[t] \in Adders => key[t] \in Keys
    /\ pc[t] \in {"lookup", "store"} => op[t] \in Adders
    /\ pc[t] = "fetch" => lockRef # None
    /\ Locked(t) => mine[t] \in held

\* A Lock object has at most one thread working under it.
Exclusive == \A t, u \in Threads : Locked(t) /\ Locked(u) /\ mine[t] = mine[u] => t = u

LockInv == TypeOK /\ (\A t \in Threads : CallerOK(t)) /\ Exclusive

\* The keys that must be in the log are, and are in what is about to be written back.
LogInv ==
    /\ ~logExists => must = {}
    /\ OneLock =>
         /\ must \subseteq log
         /\ \A t \in Threads : /\ pc[t] = "write" => must \subseteq view[t]
                               /\ pc[t] = "init" /\ Locked(t) => must = {}

IInv == LockInv /\ LogInv

\* What a clear owes.  Until clear_all_cache_keys has read the log, that is keys the log
\* must have, and nothing once it found no log; from then on, what has a value is still
\* to be removed, and nothing is once the loop over the keys has ended.
DueOK(t) ==
    /\ op[t] \in Probing => due[t] \subseteq must
    /\ op[t] \in Probing /\ pc[t] = "init" => due[t] = {}
    /\ op[t] = "clear" => due[t] \cap store \subseteq rest[t]
    /\ op[t] = "clear" /\ pc[t] \in {"read", "init", "write", "release"} => rest[t] = {}

DueInv == OneLock => \A t \in Threads : DueOK(t)

-----------------------------------------------------------------------------

\* Every step keeps the types.
LEMMA TypeStep ==
    ASSUME LockInv, [Next]_vars
    PROVE  TypeOK'
<1> USE CacheManagerAssumption DEF TypeOK, LockInv, CallerOK, Labels, InBody, Ops, Probing, Locked,
        Goto, End, Owes, Excuse, shared, locals, ghosts
<1>1. ASSUME NEW t \in Threads, Call(t) PROVE TypeOK'
  <2>1. ASSUME NEW k \in Keys, NEW o \in Adders, BeginAdd(t, o, k) PROVE TypeOK'
    BY <2>1 DEF BeginAdd, Adders
  <2>2. ASSUME NEW k \in Keys, ClearCacheKeys(t, k) PROVE TypeOK'
    BY <2>2 DEF ClearCacheKeys
  <2>3. CASE ClearAllCacheKeys(t)
    BY <2>3 DEF ClearAllCacheKeys
  <2> QED BY <1>1, <2>1, <2>2, <2>3 DEF Call, CacheSet, CacheGet, CacheGetOrSet, Adders
<1>2. ASSUME NEW t \in Threads, CheckLock(t) PROVE TypeOK'
  BY <1>2 DEF CheckLock
<1>3. ASSUME NEW t \in Threads, MakeLock(t) PROVE TypeOK'
  BY <1>3 DEF MakeLock
<1>4. ASSUME NEW t \in Threads, FetchLock(t) PROVE TypeOK'
  BY <1>4 DEF FetchLock
<1>5. ASSUME NEW t \in Threads, Acquire(t) PROVE TypeOK'
  BY <1>5 DEF Acquire
<1>6. ASSUME NEW t \in Threads, AcquireTimeout(t) PROVE TypeOK'
  BY <1>6 DEF AcquireTimeout
<1>7. ASSUME NEW t \in Threads, Release(t) PROVE TypeOK'
  <2>1. /\ \/ /\ pc' = [pc EXCEPT ![t] = "store"] \/ pc' = [pc EXCEPT ![t] = "lookup"]
              /\ UNCHANGED <<op, key, todo, rest, mine, view>>
           \/ End(t)
        /\ held' \subseteq held
        /\ due' = due \/ Owes(t, {})
        /\ UNCHANGED <<lockRef, logExists, log, store, fails, made, must>>
    BY <1>7 DEF Release
  <2>2. due' \in [Threads -> SUBSET Keys]
    BY <2>1
  <2> QED BY <2>1, <2>2
<1>8. ASSUME NEW t \in Threads, ReadLog(t) PROVE TypeOK'
  BY <1>8 DEF ReadLog, Got
<1>9. ASSUME NEW t \in Threads, InitLog(t) PROVE TypeOK'
  <2>1. logExists' \in BOOLEAN
    BY <1>9, Zenon DEF InitLog
  <2>2. /\ lockRef' = lockRef /\ held' = held /\ store' = store /\ fails' = fails /\ made' = made
        /\ log' = {} /\ must' \subseteq must
        /\ due' = [u \in Threads |-> IF op[u] \in Probing THEN due[u] \ Keys ELSE due[u]]
        /\ pc[t] = "init" /\ Got(t, {})
    BY <1>9 DEF InitLog
  <2>3. /\ pc' \in [Threads -> Labels] /\ op' \in [Threads -> Ops]
        /\ key' \in [Threads -> Keys \cup {None}]
        /\ todo' \in [Threads -> SUBSET Keys] /\ rest' \in [Threads -> SUBSET Keys]
        /\ mine' \in [Threads -> made \cup {None}] /\ view' \in [Threads -> SUBSET Keys]
    BY <2>2 DEF Got
  <2>4. \A u \in Threads :
           (pc[u] = "acquire" \/ Locked(u) => mine[u] # None)'
    BY <2>2 DEF Got
  <2> QED BY <2>1, <2>2, <2>3, <2>4
<1>10. ASSUME NEW t \in Threads, WriteLog(t) PROVE TypeOK'
  <2>1. logExists' \in BOOLEAN
    BY <1>10, Zenon DEF WriteLog
  <2>2. /\ lockRef' = lockRef /\ held' = held /\ store' = store /\ fails' = fails /\ made' = made
        /\ op' = op /\ key' = key /\ todo' = todo /\ rest' = rest /\ mine' = mine /\ view' = view
        /\ pc[t] = "write" /\ pc' = [pc EXCEPT ![t] = "release"]
    BY <1>10 DEF WriteLog
  <2>3. log' \subseteq Keys /\ must' \subseteq Keys
    <3>1. op[t] = "clear" \/ key[t] \in Keys
      BY <2>2 DEF Adders
    <3> QED BY <1>10, <3>1 DEF WriteLog
  <2>4. due' \in [Threads -> SUBSET Keys]
    BY <1>10 DEF WriteLog
  <2>5. \A u \in Threads : (pc[u] = "acquire" \/ Locked(u) => mine[u] # None)'
    BY <2>2
  <2>6. pc' \in [Threads -> Labels]
    BY <2>2
  <2> HIDE DEF LockInv, CallerOK, Locked, Labels, Ops, InBody, Goto, End, Owes, Excuse
  <2> QED BY <2>1, <2>2, <2>3, <2>4, <2>5, <2>6 DEF LockInv
<1>11. ASSUME NEW t \in Threads, RemoveValue(t) PROVE TypeOK'
  BY <1>11 DEF RemoveValue
<1>12. ASSUME NEW t \in Threads, Lookup(t) PROVE TypeOK'
  BY <1>12 DEF Lookup
<1>13. ASSUME NEW t \in Threads, StoreValue(t) PROVE TypeOK'
  BY <1>13 DEF StoreValue, Adders
<1>14. ASSUME NEW t \in Threads, AdapterRaises(t) PROVE TypeOK'
  BY <1>14 DEF AdapterRaises
<1>15. CASE ExpireLog
  BY <1>15 DEF ExpireLog
<1>16. ASSUME NEW k \in Keys, ExpireValue(k) PROVE TypeOK'
  BY <1>16 DEF ExpireValue
<1>17. CASE UNCHANGED vars
  BY <1>17 DEF vars
<1> QED
  BY <1>1, <1>2, <1>3, <1>4, <1>5, <1>6, <1>7, <1>8, <1>9, <1>10, <1>11, <1>12, <1>13, <1>14, <1>15, <1>16, <1>17 DEF Next, Step

\* What the step of one caller must show for the others to stay as they are: only the
\* lock it worked under may be released.
Alone(t) ==
    /\ \A u \in Threads \ {t} :
         /\ pc'[u] = pc[u] /\ op'[u] = op[u] /\ key'[u] = key[u] /\ mine'[u] = mine[u]
         /\ Locked(u) => mine[u] \in held'
    /\ lockRef # None => lockRef' # None

\* The lock invariant after a step of t, from what it shows for t alone.
LEMMA LockFrame ==
    ASSUME LockInv, NEW t \in Threads, Alone(t), CallerOK(t)',
           Locked(t)' => (Locked(t) /\ mine'[t] = mine[t]) \/ mine'[t] \notin held
    PROVE  (\A u \in Threads : CallerOK(u)') /\ Exclusive'
<1>1. ASSUME NEW u \in Threads, u # t
      PROVE  CallerOK(u)' /\ (Locked(u)' <=> Locked(u)) /\ mine'[u] = mine[u]
  <2>1. pc'[u] = pc[u] /\ op'[u] = op[u] /\ key'[u] = key[u] /\ mine'[u] = mine[u]
    <3>1. u \in Threads \ {t}
      BY <1>1
    <3> QED BY <3>1 DEF Alone
  <2>2. Locked(u)' <=> Locked(u)
    BY <2>1 DEF Locked
  <2>3. CallerOK(u)
    BY DEF LockInv
  <2>4. pc[u] = "fetch" => lockRef' # None
    BY <2>3 DEF CallerOK, Alone
  <2> QED BY <1>1, <2>1, <2>2, <2>3, <2>4 DEF CallerOK, Alone
<1>2. ASSUME NEW u \in Threads, u # t, Locked(t)', Locked(u)' PROVE mine'[u] # mine'[t]
  <2>1. Locked(u) /\ mine'[u] = mine[u] /\ mine[u] \in held
    BY <1>1, <1>2 DEF LockInv, CallerOK
  <2> QED BY <1>2, <2>1 DEF LockInv, Exclusive
<1>3. Exclusive'
  <2> SUFFICES ASSUME NEW u \in Threads, NEW v \in Threads,
                      Locked(u)', Locked(v)', mine'[u] = mine'[v]
               PROVE  u = v
    BY DEF Exclusive
  <2>1. CASE u = t \/ v = t
    BY <1>2, <2>1
  <2>2. CASE u # t /\ v # t
    BY <1>1, <2>2 DEF LockInv, Exclusive
  <2> QED BY <2>1, <2>2
<1> QED BY <1>1, <1>3

\* Every step keeps the lock invariant.
LEMMA LockStep ==
    ASSUME LockInv, [Next]_vars
    PROVE  LockInv'
<1>1. TypeOK'
  BY TypeStep
<1> DEFINE Goal == (\A u \in Threads : CallerOK(u)') /\ Exclusive'
           Kept(t) == Locked(t)' => (Locked(t) /\ mine'[t] = mine[t]) \/ mine'[t] \notin held
<1> USE CacheManagerAssumption DEF TypeOK, CallerOK, Alone, Locked, InBody, Adders, Probing,
        Goto, End, shared, locals, ghosts
<1>2. ASSUME NEW t \in Threads, Call(t) PROVE Goal
  <2>1. ASSUME NEW k \in Keys, NEW o \in Adders, BeginAdd(t, o, k)
        PROVE  Alone(t) /\ CallerOK(t)' /\ Kept(t)
    BY <2>1 DEF LockInv, BeginAdd
  <2>2. ASSUME NEW k \in Keys, ClearCacheKeys(t, k)
        PROVE  Alone(t) /\ CallerOK(t)' /\ Kept(t)
    BY <2>2 DEF LockInv, ClearCacheKeys
  <2>3. ASSUME ClearAllCacheKeys(t)
        PROVE  Alone(t) /\ CallerOK(t)' /\ Kept(t)
    BY <2>3 DEF LockInv, ClearAllCacheKeys
  <2> HIDE DEF CallerOK, Alone, Kept
  <2>4. Alone(t) /\ CallerOK(t)' /\ Kept(t)
    BY <1>2, <2>1, <2>2, <2>3 DEF Call, CacheSet, CacheGet, CacheGetOrSet
  <2> QED BY <2>4, LockFrame DEF Kept
<1>3. ASSUME NEW t \in Threads, CheckLock(t) PROVE Goal
  <2>1. Alone(t)
    BY <1>3 DEF LockInv, CheckLock
  <2>2. CallerOK(t)'
    BY <1>3 DEF LockInv, CheckLock
  <2>3. Kept(t)
    BY <1>3 DEF LockInv, CheckLock
  <2> QED BY <2>1, <2>2, <2>3, LockFrame
<1>4. ASSUME NEW t \in Threads, MakeLock(t) PROVE Goal
  <2>1. Alone(t)
    BY <1>4 DEF LockInv, MakeLock
  <2>2. CallerOK(t)'
    BY <1>4 DEF LockInv, MakeLock
  <2>3. Kept(t)
    BY <1>4 DEF LockInv, MakeLock
  <2> QED BY <2>1, <2>2, <2>3, LockFrame
<1>5. ASSUME NEW t \in Threads, FetchLock(t) PROVE Goal
  <2>1. Alone(t)
    BY <1>5 DEF LockInv, FetchLock
  <2>2. CallerOK(t)'
    BY <1>5 DEF LockInv, FetchLock
  <2>3. Kept(t)
    BY <1>5 DEF LockInv, FetchLock
  <2> QED BY <2>1, <2>2, <2>3, LockFrame
<1>6. ASSUME NEW t \in Threads, Acquire(t) PROVE Goal
  <2>1. Alone(t)
    BY <1>6 DEF LockInv, Acquire
  <2>2. CallerOK(t)'
    BY <1>6 DEF LockInv, Acquire
  <2>3. Kept(t)
    BY <1>6 DEF LockInv, Acquire
  <2> QED BY <2>1, <2>2, <2>3, LockFrame
<1>7. ASSUME NEW t \in Threads, AcquireTimeout(t) PROVE Goal
  <2>1. Alone(t)
    BY <1>7 DEF LockInv, AcquireTimeout
  <2>2. CallerOK(t)'
    BY <1>7 DEF LockInv, AcquireTimeout
  <2>3. Kept(t)
    BY <1>7 DEF LockInv, AcquireTimeout
  <2> QED BY <2>1, <2>2, <2>3, LockFrame
<1>8. ASSUME NEW t \in Threads, Release(t) PROVE Goal
  <2>1. Alone(t)
    BY <1>8 DEF LockInv, Exclusive, Release
  <2>2. CallerOK(t)'
    BY <1>8 DEF LockInv, Release
  <2>3. Kept(t)
    BY <1>8 DEF LockInv, Release
  <2> QED BY <2>1, <2>2, <2>3, LockFrame
<1>9. ASSUME NEW t \in Threads, ReadLog(t) PROVE Goal
  <2>1. Alone(t)
    BY <1>9 DEF LockInv, ReadLog, Got
  <2>2. CallerOK(t)'
    BY <1>9 DEF LockInv, ReadLog, Got
  <2>3. Kept(t)
    BY <1>9 DEF LockInv, ReadLog, Got
  <2> QED BY <2>1, <2>2, <2>3, LockFrame
<1>10. ASSUME NEW t \in Threads, InitLog(t) PROVE Goal
  <2>1. Alone(t)
    BY <1>10 DEF LockInv, InitLog, Got
  <2>2. CallerOK(t)'
    BY <1>10 DEF LockInv, InitLog, Got
  <2>3. Kept(t)
    BY <1>10 DEF LockInv, InitLog, Got
  <2> QED BY <2>1, <2>2, <2>3, LockFrame
<1>11. ASSUME NEW t \in Threads, WriteLog(t) PROVE Goal
  <2>1. Alone(t)
    BY <1>11 DEF LockInv, WriteLog
  <2>2. CallerOK(t)'
    BY <1>11 DEF LockInv, WriteLog
  <2>3. Kept(t)
    BY <1>11 DEF LockInv, WriteLog
  <2> QED BY <2>1, <2>2, <2>3, LockFrame
<1>12. ASSUME NEW t \in Threads, RemoveValue(t) PROVE Goal
  <2>1. Alone(t)
    BY <1>12 DEF LockInv, RemoveValue
  <2>2. CallerOK(t)'
    BY <1>12 DEF LockInv, RemoveValue
  <2>3. Kept(t)
    BY <1>12 DEF LockInv, RemoveValue
  <2> QED BY <2>1, <2>2, <2>3, LockFrame
<1>13. ASSUME NEW t \in Threads, Lookup(t) PROVE Goal
  <2>1. Alone(t)
    BY <1>13 DEF LockInv, Lookup
  <2>2. CallerOK(t)'
    BY <1>13 DEF LockInv, Lookup
  <2>3. Kept(t)
    BY <1>13 DEF LockInv, Lookup
  <2> QED BY <2>1, <2>2, <2>3, LockFrame
<1>14. ASSUME NEW t \in Threads, StoreValue(t) PROVE Goal
  <2>1. Alone(t)
    BY <1>14 DEF LockInv, StoreValue
  <2>2. CallerOK(t)'
    BY <1>14 DEF LockInv, StoreValue
  <2>3. Kept(t)
    BY <1>14 DEF LockInv, StoreValue
  <2> QED BY <2>1, <2>2, <2>3, LockFrame
<1>15. ASSUME NEW t \in Threads, AdapterRaises(t) PROVE Goal
  <2>1. Alone(t)
    BY <1>15 DEF LockInv, AdapterRaises
  <2>2. CallerOK(t)'
    BY <1>15 DEF LockInv, AdapterRaises
  <2>3. Kept(t)
    BY <1>15 DEF LockInv, AdapterRaises
  <2> QED BY <2>1, <2>2, <2>3, LockFrame
<1>16. ASSUME ExpireLog PROVE Goal
  BY <1>16 DEF LockInv, Exclusive, ExpireLog
<1>17. ASSUME NEW k \in Keys, ExpireValue(k) PROVE Goal
  BY <1>17 DEF LockInv, Exclusive, ExpireValue
<1>18. ASSUME UNCHANGED vars PROVE Goal
  BY <1>18 DEF LockInv, Exclusive, vars
<1> HIDE DEF TypeOK, CallerOK, Alone, Locked, Goto, End, Goal, Kept
<1>19. Goal
  BY <1>2, <1>3, <1>4, <1>5, <1>6, <1>7, <1>8, <1>9, <1>10, <1>11, <1>12, <1>13, <1>14, <1>15, <1>16, <1>17, <1>18 DEF Next, Step
<1> QED
  BY <1>1, <1>19 DEF LockInv, Goal

-----------------------------------------------------------------------------

\* With a single Lock object, one thread at a time works under the lock.
LEMMA OneHolder ==
    ASSUME LockInv, OneLock, NEW t \in Threads, NEW u \in Threads, Locked(t), Locked(u)
    PROVE  t = u
<1>1. mine[t] \in made /\ mine[u] \in made
  BY DEF LockInv, TypeOK
<1>2. mine[t] = mine[u]
  BY <1>1 DEF OneLock
<1> QED
  BY <1>2 DEF LockInv, Exclusive

\* A step that leaves the log alone and brings nobody to the point of writing it.
Quiet ==
    /\ logExists' = logExists /\ log' = log /\ must' = must /\ made \subseteq made'
    /\ \A u \in Threads :
         /\ pc'[u] = "write" => pc[u] = "write" /\ view'[u] = view[u]
         /\ pc'[u] = "init" => pc[u] = "init" /\ (Locked(u)' <=> Locked(u))

LEMMA QuietStep ==
    ASSUME LogInv, Quiet
    PROVE  LogInv'
<1>1. OneLock' => OneLock
  BY DEF Quiet, OneLock
<1>2. ~logExists' => must' = {}
  BY DEF Quiet, LogInv
<1>3. OneLock' => must' \subseteq log'
  BY <1>1 DEF Quiet, LogInv
<1>4. OneLock' => \A u \in Threads : /\ pc'[u] = "write" => must' \subseteq view'[u]
                                     /\ pc'[u] = "init" /\ Locked(u)' => must' = {}
  BY <1>1 DEF Quiet, LogInv
<1> QED
  BY <1>2, <1>3, <1>4 DEF LogInv

\* Every step keeps the log invariant.
LEMMA LogStep ==
    ASSUME LockInv, LogInv, [Next]_vars
    PROVE  LogInv'
<1> USE DEF TypeOK, LockInv, Locked, InBody, Adders, Probing, Goto, End, shared, locals, ghosts
<1>1. ASSUME NEW t \in Threads, Call(t) PROVE Quiet
  <2>1. ASSUME NEW k \in Keys, NEW o \in Adders, BeginAdd(t, o, k) PROVE Quiet
    BY <2>1 DEF BeginAdd, Quiet
  <2>2. ASSUME NEW k \in Keys, ClearCacheKeys(t, k) PROVE Quiet
    BY <2>2 DEF ClearCacheKeys, Quiet
  <2>3. ASSUME ClearAllCacheKeys(t) PROVE Quiet
    BY <2>3 DEF ClearAllCacheKeys, Quiet
  <2> QED BY <1>1, <2>1, <2>2, <2>3 DEF Call, CacheSet, CacheGet, CacheGetOrSet
<1>2. ASSUME NEW t \in Threads, CheckLock(t) PROVE Quiet
  BY <1>2 DEF CheckLock, Quiet
<1>3. ASSUME NEW t \in Threads, MakeLock(t) PROVE Quiet
  BY <1>3 DEF MakeLock, Quiet
<1>4. ASSUME NEW t \in Threads, FetchLock(t) PROVE Quiet
  BY <1>4 DEF FetchLock, Quiet
<1>5. ASSUME NEW t \in Threads, Acquire(t) PROVE Quiet
  BY <1>5 DEF Acquire, Quiet
<1>6. ASSUME NEW t \in Threads, AcquireTimeout(t) PROVE Quiet
  BY <1>6 DEF AcquireTimeout, Quiet
<1>7. ASSUME NEW t \in Threads, Release(t) PROVE Quiet
  BY <1>7 DEF Release, Quiet
<1>8. ASSUME NEW t \in Threads, RemoveValue(t) PROVE Quiet
  BY <1>8 DEF RemoveValue, Quiet
<1>9. ASSUME NEW t \in Threads, Lookup(t) PROVE Quiet
  BY <1>9 DEF Lookup, Quiet
<1>10. ASSUME NEW t \in Threads, StoreValue(t) PROVE Quiet
  BY <1>10 DEF StoreValue, Quiet
<1>11. ASSUME NEW t \in Threads, AdapterRaises(t) PROVE Quiet
  BY <1>11 DEF AdapterRaises, Quiet
<1>12. ASSUME NEW k \in Keys, ExpireValue(k) PROVE Quiet
  BY <1>12 DEF ExpireValue, Quiet
<1>13. ASSUME UNCHANGED vars PROVE Quiet
  BY <1>13 DEF vars, Quiet
<1>14. ASSUME NEW t \in Threads, ReadLog(t) PROVE LogInv'
  BY <1>14 DEF ReadLog, Got, LogInv, OneLock
<1>15. ASSUME NEW t \in Threads, InitLog(t) PROVE LogInv'
  BY <1>15, OneHolder DEF InitLog, Got, LogInv, OneLock
<1>16. ASSUME NEW t \in Threads, WriteLog(t) PROVE LogInv'
  <2>1. Locked(t) /\ pc'[t] = "release" /\ (OneLock' => OneLock)
    <3>1. pc[t] = "write" /\ op[t] \notin Probing
      BY <1>16 DEF WriteLog, CallerOK
    <3> QED BY <1>16, <3>1 DEF WriteLog, OneLock
  <2>2. logExists'
    BY <1>16 DEF WriteLog
  <2>3. OneLock' => must' \subseteq log'
    BY <1>16, <2>1 DEF WriteLog, LogInv
  <2>4. ASSUME OneLock, NEW u \in Threads PROVE ~(pc'[u] = "write") /\ ~(pc'[u] = "init" /\ Locked(u)')
    <3>1. u = t \/ (pc'[u] = pc[u] /\ op'[u] = op[u])
      BY <1>16 DEF WriteLog
    <3>2. pc[u] = "write" => Locked(u)
      BY DEF CallerOK
    <3>3. Locked(u) => u = t
      BY <2>1, <2>4, OneHolder
    <3> QED BY <2>1, <3>1, <3>2, <3>3
  <2> QED BY <2>1, <2>2, <2>3, <2>4 DEF LogInv
<1>17. ASSUME ExpireLog PROVE LogInv'
  BY <1>17 DEF ExpireLog, LogInv, OneLock
<1> HIDE DEF TypeOK, LockInv, Locked, Goto, End, shared, locals, ghosts
<1>18. ASSUME NEW t \in Threads, Call(t) \/ Step(t) \/ AdapterRaises(t)
       PROVE  Quiet \/ LogInv'
  BY <1>1, <1>2, <1>3, <1>4, <1>5, <1>6, <1>7, <1>8, <1>9, <1>10, <1>11, <1>14, <1>15, <1>16,
     <1>18 DEF Step
<1>19. Quiet \/ LogInv'
  BY <1>12, <1>13, <1>17, <1>18 DEF Next
<1> QED
  BY <1>19, QuietStep

-----------------------------------------------------------------------------

\* With a single Lock object, every step keeps what the clears in progress owe.
LEMMA DueStep ==
    ASSUME LockInv, LogInv, DueInv, [Next]_vars
    PROVE  DueInv'
<1> SUFFICES ASSUME OneLock', NEW u \in Threads PROVE DueOK(u)'
  BY DEF DueInv
<1>0. OneLock
  <2>1. made \subseteq made'
    BY DEF Next, Call, Step, CacheSet, CacheGet, CacheGetOrSet, BeginAdd, ClearCacheKeys,
           ClearAllCacheKeys, CheckLock, MakeLock, FetchLock, Acquire, AcquireTimeout, Release,
           ReadLog, InitLog, WriteLog, RemoveValue, Lookup, StoreValue, AdapterRaises, ExpireLog,
           ExpireValue, vars, shared, ghosts
  <2> QED BY <2>1 DEF OneLock
<1>00. DueOK(u) /\ TypeOK /\ CallerOK(u) /\ must \subseteq log /\ (~logExists => must = {})
  BY <1>0 DEF DueInv, LockInv, LogInv
<1> USE <1>00 DEF TypeOK, CallerOK, Locked, InBody, Adders, Probing, Goto, End, Owes, Excuse,
        shared, locals, ghosts
<1>1. ASSUME NEW t \in Threads, Call(t) PROVE DueOK(u)'
  <2>1. ASSUME NEW k \in Keys, NEW o \in Adders, BeginAdd(t, o, k) PROVE DueOK(u)'
    BY <2>1 DEF BeginAdd, DueOK
  <2>2. ASSUME NEW k \in Keys, ClearCacheKeys(t, k) PROVE DueOK(u)'
    BY <2>2 DEF ClearCacheKeys, DueOK
  <2>3. CASE ClearAllCacheKeys(t)
    BY <2>3 DEF ClearAllCacheKeys, DueOK
  <2> QED BY <1>1, <2>1, <2>2, <2>3 DEF Call, CacheSet, CacheGet, CacheGetOrSet
<1>2. ASSUME NEW t \in Threads, CheckLock(t) PROVE DueOK(u)'
  BY <1>2 DEF CheckLock, DueOK
<1>3. ASSUME NEW t \in Threads, MakeLock(t) PROVE DueOK(u)'
  BY <1>3 DEF MakeLock, DueOK
<1>4. ASSUME NEW t \in Threads, FetchLock(t) PROVE DueOK(u)'
  BY <1>4 DEF FetchLock, DueOK
<1>5. ASSUME NEW t \in Threads, Acquire(t) PROVE DueOK(u)'
  BY <1>5 DEF Acquire, DueOK
<1>6. ASSUME NEW t \in Threads, AcquireTimeout(t) PROVE DueOK(u)'
  BY <1>6 DEF AcquireTimeout, DueOK
<1>7. ASSUME NEW t \in Threads, Release(t) PROVE DueOK(u)'
  BY <1>7 DEF Release, DueOK
<1>8. ASSUME NEW t \in Threads, ReadLog(t) PROVE DueOK(u)'
  BY <1>8 DEF ReadLog, Got, DueOK
<1>9. ASSUME NEW t \in Threads, InitLog(t) PROVE DueOK(u)'
  BY <1>9 DEF InitLog, Got, DueOK
<1>10. ASSUME NEW t \in Threads, WriteLog(t) PROVE DueOK(u)'
  BY <1>10 DEF WriteLog, DueOK
<1>11. ASSUME NEW t \in Threads, RemoveValue(t) PROVE DueOK(u)'
  BY <1>11 DEF RemoveValue, DueOK
<1>12. ASSUME NEW t \in Threads, Lookup(t) PROVE DueOK(u)'
  BY <1>12 DEF Lookup, DueOK
<1>13. ASSUME NEW t \in Threads, StoreValue(t) PROVE DueOK(u)'
  BY <1>13 DEF StoreValue, DueOK
<1>14. ASSUME NEW t \in Threads, AdapterRaises(t) PROVE DueOK(u)'
  BY <1>14 DEF AdapterRaises, DueOK
<1>15. CASE ExpireLog
  BY <1>15 DEF ExpireLog, DueOK
<1>16. ASSUME NEW k \in Keys, ExpireValue(k) PROVE DueOK(u)'
  BY <1>16 DEF ExpireValue, DueOK
<1>17. CASE UNCHANGED vars
  BY <1>17 DEF vars, DueOK
<1> QED
  BY <1>1, <1>2, <1>3, <1>4, <1>5, <1>6, <1>7, <1>8, <1>9, <1>10, <1>11, <1>12, <1>13, <1>14,
     <1>15, <1>16, <1>17 DEF Next, Step

-----------------------------------------------------------------------------

LEMMA Invariance == Spec => []IInv
<1>1. Init => IInv
  <2> SUFFICES ASSUME Init PROVE IInv
    OBVIOUS
  <2>1. TypeOK
    <3>1. logExists \in BOOLEAN
      BY Zenon DEF Init
    <3>2. \A t \in Threads : ~(pc[t] = "acquire" \/ Locked(t))
      BY DEF Init, Locked, InBody
    <3> QED BY <3>1, <3>2, CacheManagerAssumption DEF Init, TypeOK, Labels, Ops
  <2>2. (\A t \in Threads : CallerOK(t)) /\ Exclusive
    BY DEF Init, CallerOK, Exclusive, Locked, InBody, Probing, Adders
  <2>3. LogInv
    BY DEF Init, LogInv
  <2> QED BY <2>1, <2>2, <2>3 DEF IInv, LockInv
<1>2. IInv /\ [Next]_vars => IInv'
  BY LockStep, LogStep DEF IInv
<1> QED
  BY <1>1, <1>2, PTL DEF Spec

\* The type invariant, with the references to locks that exist, holds for any threads
\* and keys and any number of failing adapter calls.
THEOREM TypeCorrect == Spec => []TypeOK
<1>1. IInv => TypeOK
  BY DEF IInv, LockInv
<1> QED
  BY Invariance, <1>1, PTL

\* LoggedKeyStays for any threads and keys, with adapter errors, lock timeouts and the
\* unlocked reads of clear_all_cache_keys: as long as the class has one Lock object, no
\* read-modify-write of the cache key log undoes another one.
THEOREM KeysStayLogged == Spec => []LoggedKeyStays
<1>1. IInv => LoggedKeyStays
  BY DEF IInv, LogInv, LoggedKeyStays
<1> QED
  BY Invariance, <1>1, PTL

\* The clears in progress owe what DueInv says, for any threads and keys.
LEMMA DueInvariance == Spec => [](LockInv /\ LogInv /\ DueInv)
<1>1. Init => DueInv
  BY DEF Init, DueInv, DueOK, Probing
<1>2. IInv /\ DueInv /\ [Next]_vars => DueInv'
  BY DueStep DEF IInv
<1>3. Spec => []IInv
  BY Invariance
<1>4. IInv => LockInv /\ LogInv
  BY DEF IInv
<1> QED
  BY <1>1, <1>2, <1>3, <1>4, PTL DEF Spec

\* ClearRemoves for any threads and keys: as long as the class has one Lock object, a
\* clear_cache_keys or clear_all_cache_keys that returns leaves no value under a key it
\* owed, whatever the others add, clear or expire while it runs, and whatever adapter
\* calls raise in other threads.
THEOREM ClearsRemove == Spec => ClearRemoves
<1> DEFINE Removed == OneLock => \A t \in Threads :
             /\ op[t] \in {"clear", "probe"} /\ op'[t] = "none"
             /\ pc[t] \in {"release", "init"} \/ (pc[t] = "read" /\ op[t] = "probe" /\ fails' = fails)
             => due[t] \cap store = {}
<1>1. ASSUME LockInv, LogInv, DueInv, [Next]_vars PROVE Removed
  <2> SUFFICES ASSUME OneLock, NEW t \in Threads, op[t] \in {"clear", "probe"}, op'[t] = "none",
                      pc[t] \in {"release", "init"}
                        \/ (pc[t] = "read" /\ op[t] = "probe" /\ fails' = fails)
               PROVE  due[t] \cap store = {}
    OBVIOUS
  <2>1. DueOK(t) /\ CallerOK(t) /\ TypeOK /\ must \subseteq log
    BY <1>1 DEF DueInv, LockInv, LogInv
  <2>2. CASE op[t] = "clear"
    BY <2>1, <2>2 DEF DueOK
  <2>3. CASE op[t] = "probe" /\ pc[t] # "read"
    BY <2>1, <2>3 DEF DueOK, CallerOK, Probing
  <2>4. CASE op[t] = "probe" /\ pc[t] = "read"
    <3>1. ReadLog(t)
      <4>1. ASSUME NEW u \in Threads, Call(u) PROVE FALSE
        BY <1>1, <2>1, <2>4, <4>1 DEF Call, CacheSet, CacheGet, CacheGetOrSet, BeginAdd,
           ClearCacheKeys, ClearAllCacheKeys, TypeOK, Goto
      <4>2. ASSUME NEW u \in Threads, AdapterRaises(u) PROVE FALSE
        BY <2>1, <2>4, <4>2 DEF AdapterRaises, TypeOK
      <4>3. ~ExpireLog /\ ~(UNCHANGED vars) /\ (\A k \in Keys : ~ExpireValue(k))
        BY <2>4 DEF ExpireLog, ExpireValue, vars, locals
      <4>4. ASSUME NEW u \in Threads, Step(u) PROVE ReadLog(t)
        <5> USE <2>1, <2>4 DEF TypeOK
        <5>1. ~CheckLock(u) /\ ~MakeLock(u) /\ ~FetchLock(u) /\ ~Acquire(u)
          BY DEF CheckLock, MakeLock, FetchLock, Acquire
        <5>2. ~AcquireTimeout(u)
          BY DEF AcquireTimeout, End
        <5>3. ~Release(u)
          BY DEF Release, End
        <5>4. ~InitLog(u)
          BY DEF InitLog, Got, End
        <5>5. ~WriteLog(u) /\ ~RemoveValue(u)
          BY DEF WriteLog, RemoveValue
        <5>6. ~Lookup(u) /\ ~StoreValue(u)
          BY DEF Lookup, StoreValue, End
        <5>7. ReadLog(u) => u = t
          BY DEF ReadLog, Got, End
        <5> QED BY <4>4, <5>1, <5>2, <5>3, <5>4, <5>5, <5>6, <5>7 DEF Step
      <4> QED BY <1>1, <4>1, <4>2, <4>3, <4>4 DEF Next
    <3>2. log = {}
      BY <2>1, <2>4, <3>1 DEF ReadLog, Got, TypeOK
    <3> QED BY <2>1, <2>4, <3>2 DEF DueOK, Probing
  <2> QED BY <2>2, <2>3, <2>4
<1> HIDE DEF Removed
<1>2. LockInv /\ LogInv /\ DueInv /\ [Next]_vars => [Removed]_vars
  BY <1>1
<1>3. [][Removed]_vars => ClearRemoves
  BY DEF Removed, ClearRemoves
<1> QED
  BY <1>2, <1>3, DueInvariance, PTL DEF Spec

=============================================================================
