---------------------------- MODULE CacheContexts ----------------------------
(***************************************************************************)
(* The connections of the cache adapters on Redis and Memcached, over the  *)
(* store of plugin.py: connecting at the first use, close, reconnect, the  *)
(* adapters as contexts, CacheWrapper (cached, async_cached) with its      *)
(* LayeredContext, and the module's own adapter.                           *)
(*                                                                         *)
(* Adapters are numbered as they are made.                                 *)
(***************************************************************************)
EXTENDS ConnectionStore, LayeredContext

CONSTANTS MaxAdapters, MaxLayers

VARIABLES
  adapters,   \* number of adapters made
  attr,       \* each adapter's connection: _redis or _mcache
  pool,       \* AsyncRedisCache._redis_conn
  instance,   \* CacheWrapper.cache_instance
  shared,     \* __STORE['adapter']
  tracker,    \* the LayeredContext around each adapter
  tracked,    \* the adapter of CacheWrapper._ctx_tracker
  depth,      \* the `with cached` blocks each user is in
  disturbed      \* number of blocks not entered or left undisturbed

ctxVars == <<adapters, attr, pool, instance, shared, tracker, tracked, depth, disturbed>>
allVars == <<vars, ctxVars>>

Adapters == 1..MaxAdapters
Wrapped == {"redis", "memcached", "aioredis", "aiomemcached"}

ContextsAssumption == MaxAdapters \in Nat \ {0} /\ MaxLayers \in Nat
ASSUME ContextsAssumption

CtxOps == {"use", "close_adapter", "reconnect", "memo", "call", "enter", "exit",
           "set_adapter", "reset_adapter", "adapter_set", "module_call"}

CtxInit ==
  /\ \E a \in {1, Nothing} : instance = a /\ shared = a
  /\ instance = Nothing => setup.ops \cap CtxOps # {}
  /\ adapters = IF instance = Nothing THEN 0 ELSE 1
  /\ tracked = instance
  /\ attr = [a \in Adapters |-> Nothing]
  /\ pool = [a \in Adapters |-> Nothing]
  /\ tracker = [a \in Adapters |-> NoLayers]
  /\ depth = [u \in Users |-> 0]
  /\ disturbed = 0

(***************************************************************************)
(* The programs of the adapters                                            *)
(***************************************************************************)
RedisConnect == <<"have_attr">> \o get_redis \o <<"keep_attr">>
MemcachedConnect == <<"have_attr", "connect", "keep_attr">>     \* new_connection=True
AsyncMemcachedConnect == <<"have_attr", "connect", "keep_attr">>
AsyncRedisConnect ==
  <<"have_pool">> \o get_redis_async \o <<"keep_pool", "have_attr", "await_pool", "keep_attr">>

connect ==
  CASE setup.kind = "redis"        -> RedisConnect
    [] setup.kind = "memcached"    -> MemcachedConnect
    [] setup.kind = "aiomemcached" -> AsyncMemcachedConnect
    [] setup.kind = "aioredis"     -> AsyncRedisConnect

RedisClose == <<"shut_attr", "clear_attr">> \o close_redis
MemcachedClose == <<"shut_attr", "clear_attr">> \o close_memcached
AsyncMemcachedClose == <<"shut_attr", "clear_attr">> \o close_memcached_async
AsyncRedisClose == <<"shut_attr", "clear_attr", "clear_pool">> \o close_redis_async

close ==
  CASE setup.kind = "redis"        -> RedisClose
    [] setup.kind = "memcached"    -> MemcachedClose
    [] setup.kind = "aiomemcached" -> AsyncMemcachedClose
    [] setup.kind = "aioredis"     -> AsyncRedisClose

reconnect == close \o connect

(* `with adapter` closes at its end, `async with adapter` reconnects.      *)
adapter_enter == reconnect
adapter_aenter == reconnect
reconnect_at_exit == reconnect
adapter_exit == close
adapter_aexit == reconnect
Enter == IF setup.kind \in Sync THEN adapter_enter ELSE adapter_aenter
Exit == IF setup.kind \in Sync THEN adapter_exit ELSE adapter_aexit

(* A get or a set: connect, and a command on what it returned. *)
Use == connect \o <<"command">>

(* RedisCache takes a connection when it is made. *)
Construct == <<"make">> \o (IF setup.kind = "redis" THEN get_redis \o <<"keep_attr">> ELSE <<>>)

get_adapter == <<"get_adapter">> \o Construct \o <<"install">>

(***************************************************************************)
(* The calls.  An adapter's own: a command, close, a context, a function   *)
(* memoised by r_cache or r_cache_async (the context around the get, the   *)
(* function and the set).  The wrapper's: a method (`with` the adapter     *)
(* around the method), `with cached`, set_adapter, reset_adapter.  The     *)
(* module's: adapter_set, adapter_get, and a function such as get.         *)
(***************************************************************************)
r_cache == Use \o Use
r_cache_async == adapter_aenter \o Use \o Use \o adapter_aexit

wrapper_call == get_adapter \o Enter \o Use \o Exit
wrapper_enter == get_adapter \o <<"virt_enter">> \o Enter \o <<"entered">>
wrapper_exit == <<"virt_exit">> \o Exit \o <<"exited">>
set_adapter == Construct \o <<"install">>
reset_adapter == get_adapter \o Construct \o <<"unset">>

adapter_set == Construct \o <<"share", "install">>
async_adapter_set == Construct \o <<"share", "install">>
adapter_get == <<"shared">> \o Construct \o <<"share">>
async_adapter_get == <<"shared">> \o Construct \o <<"share", "install">>
module_call == (IF setup.kind \in Sync THEN adapter_get ELSE async_adapter_get) \o Use

CtxPrograms ==
  [use |-> Use, close_adapter |-> close, reconnect |-> reconnect,
   memo |-> IF setup.kind \in Sync THEN r_cache ELSE r_cache_async,
   call |-> wrapper_call, enter |-> wrapper_enter, exit |-> wrapper_exit,
   set_adapter |-> set_adapter, reset_adapter |-> reset_adapter,
   adapter_set |-> IF setup.kind \in Sync THEN adapter_set ELSE async_adapter_set,
   module_call |-> module_call]

(* A caller of an adapter uses the wrapper's; a block is left only by a    *)
(* user who is in one.                                                     *)
CtxAsk(u, op) ==
  /\ u \in DOMAIN setup.home
  /\ todo[u] = <<>>
  /\ loop = Nothing
  /\ asked < setup.calls \/ (op = "exit" /\ depth[u] > 0)
  /\ op = "exit" => depth[u] > 0
  /\ op \in {"use", "close_adapter", "reconnect", "memo"} => instance # Nothing
  /\ asked' = IF op = "exit" THEN asked ELSE asked + 1
  /\ job' = [job EXCEPT ![u] = [op |-> op, tid |-> setup.home[u],
                                on |-> IF op = "exit" THEN tracked ELSE instance]]
  /\ todo' = [todo EXCEPT ![u] = CtxPrograms[op]]
  /\ rd' = [rd EXCEPT ![u] = Nothing]
  /\ answer' = [answer EXCEPT ![u] = NoAnswer]
  /\ depth' = IF op = "exit" THEN [depth EXCEPT ![u] = @ - 1] ELSE depth
  /\ UNCHANGED <<setup, storeVars, faults, walk, loop,
                 adapters, attr, pool, instance, shared, tracker, tracked, disturbed>>

(***************************************************************************)
(* The steps of an adapter: job[u].on.                                     *)
(***************************************************************************)
On(u) == job[u].on

(* connect: `if not self._redis` *)
HaveAttr(u) ==
  /\ At(u, "have_attr")
  /\ Holds(u, attr[On(u)])
  /\ IF attr[On(u)] = Nothing THEN Go(u)
     ELSE Skip(u, CASE setup.kind = "redis" -> 4 [] OTHER -> 2)
  /\ UNCHANGED <<attr, pool>>

HavePool(u) ==
  /\ At(u, "have_pool")
  /\ Holds(u, pool[On(u)])
  /\ IF pool[On(u)] = Nothing THEN Go(u) ELSE Skip(u, 4)
  /\ UNCHANGED <<attr, pool>>

KeepPool(u) ==
  /\ At(u, "keep_pool")
  /\ UNCHANGED <<rd, attr>>
  /\ pool' = [pool EXCEPT ![On(u)] = rd[u]]
  /\ Go(u)

(* `self._redis = await self._redis_conn` *)
AwaitPool(u) ==
  /\ At(u, "await_pool")
  /\ Holds(u, pool[On(u)])
  /\ Go(u)
  /\ UNCHANGED <<attr, pool>>

KeepAttr(u) ==
  /\ At(u, "keep_attr")
  /\ UNCHANGED <<rd, pool>>
  /\ attr' = [attr EXCEPT ![On(u)] = rd[u]]
  /\ Go(u)

ClearAttr(u) ==
  /\ At(u, "clear_attr")
  /\ UNCHANGED <<rd, pool>>
  /\ attr' = [attr EXCEPT ![On(u)] = Nothing]
  /\ Go(u)

ClearPool(u) ==
  /\ At(u, "clear_pool")
  /\ UNCHANGED <<rd, attr>>
  /\ pool' = [pool EXCEPT ![On(u)] = Nothing]
  /\ Go(u)

Command(u) ==
  /\ At(u, "command")
  /\ UNCHANGED <<rd, attr, pool>>
  /\ Go(u)

(* close: `if self._redis is not None` *)
ShutAttr(u) ==
  /\ At(u, "shut_attr")
  /\ UNCHANGED rd
  /\ open' = open \ {attr[On(u)]}
  /\ IF attr[On(u)] = Nothing
     THEN Proceed(u, Drop(todo[u], 2), FALSE)
     ELSE Go(u)
  /\ UNCHANGED <<setup, order, conns, made, given, asked, faults, job, walk, ctxVars>>

AdapterStep(u) ==
  \/ /\ \/ HaveAttr(u) \/ HavePool(u) \/ KeepPool(u) \/ AwaitPool(u) \/ KeepAttr(u)
        \/ ClearAttr(u) \/ ClearPool(u) \/ Command(u)
     /\ UNCHANGED <<setup, storeVars, asked, faults, job, walk, adapters, instance, shared,
                    tracker, tracked, depth, disturbed>>
  \/ ShutAttr(u)

(***************************************************************************)
(* The steps of the wrapper and of the module.                             *)
(***************************************************************************)
SetOn(u, a) == job' = [job EXCEPT ![u].on = a]

(* get_adapter: there is one already, or the default adapter is made. *)
GetAdapter(u) ==
  /\ At(u, "get_adapter")
  /\ IF instance = Nothing
     THEN Go(u) /\ UNCHANGED job
     ELSE SetOn(u, instance) /\ Skip(u, Len(Construct) + 1)
  /\ UNCHANGED <<setup, storeVars, asked, faults, rd, walk, ctxVars>>

SharedAdapter(u) ==
  /\ At(u, "shared")
  /\ IF shared = Nothing
     THEN Go(u) /\ UNCHANGED job
     ELSE /\ SetOn(u, shared)
          /\ Skip(u, Len(Construct) + (IF setup.kind \in Sync THEN 1 ELSE 2))
  /\ UNCHANGED <<setup, storeVars, asked, faults, rd, walk, ctxVars>>

Make(u) ==
  /\ At(u, "make")
  /\ adapters < MaxAdapters
  /\ adapters' = adapters + 1
  /\ SetOn(u, adapters + 1)
  /\ UNCHANGED <<setup, storeVars, asked, faults, rd, walk, attr, pool, instance, shared,
                 tracker, tracked, depth, disturbed>>
  /\ Go(u)

(* set_adapter: the adapter, and a new LayeredContext around it. *)
Install(u) ==
  /\ At(u, "install")
  /\ instance' = On(u)
  /\ tracked' = On(u)
  /\ tracker' = [tracker EXCEPT ![On(u)] = NoLayers]
  /\ UNCHANGED <<setup, storeVars, asked, faults, job, rd, walk, adapters, attr, pool, shared,
                 depth, disturbed>>
  /\ Go(u)

(* adapter_set: __STORE['adapter'] and the wrapper's. *)
Share(u) ==
  /\ At(u, "share")
  /\ shared' = On(u)
  /\ UNCHANGED <<setup, storeVars, asked, faults, job, rd, walk, adapters, attr, pool, instance,
                 tracker, tracked, depth, disturbed>>
  /\ Go(u)

(* reset_adapter stores what __init__ returned: None. *)
Unset(u) ==
  /\ At(u, "unset")
  /\ instance' = Nothing
  /\ UNCHANGED <<setup, storeVars, asked, faults, job, rd, walk, adapters, attr, pool, shared,
                 tracker, tracked, depth, disturbed>>
  /\ Go(u)

(* A task that is entering or leaving the object itself. *)
Crossing(w) == \E i \in DOMAIN todo[w] : todo[w][i] \in {"entered", "exited"}

VirtEnterStep(u) ==
  LET l == VirtEnter(tracker[tracked])
  IN  /\ At(u, "virt_enter")
      /\ tracker' = [tracker EXCEPT ![tracked] = l]
      /\ SetOn(u, tracked)
      /\ disturbed' = IF \E w \in Users \ {u} : Crossing(w) THEN disturbed + 1 ELSE disturbed
      /\ UNCHANGED <<setup, storeVars, asked, faults, rd, walk, adapters, attr, pool, instance,
                     shared, tracked>>
      /\ IF EntersObject(l, MaxLayers)
         THEN Go(u) /\ UNCHANGED depth
         ELSE Skip(u, Len(Enter) + 1) /\ depth' = [depth EXCEPT ![u] = @ + 1]

EnteredStep(u) ==
  /\ At(u, "entered")
  /\ tracker' = [tracker EXCEPT ![On(u)] = Entered(@)]
  /\ depth' = [depth EXCEPT ![u] = @ + 1]
  /\ UNCHANGED <<setup, storeVars, asked, faults, job, rd, walk, adapters, attr, pool, instance,
                 shared, tracked, disturbed>>
  /\ Go(u)

VirtExitStep(u) ==
  LET l == tracker[On(u)]
  IN  /\ At(u, "virt_exit")
      /\ tracker' = [tracker EXCEPT ![On(u)] = VirtExit(l)]
      /\ UNCHANGED <<setup, storeVars, asked, faults, job, rd, walk, adapters, attr, pool,
                     instance, shared, tracked, depth, disturbed>>
      /\ IF LeavesObject(l) THEN Go(u) ELSE Skip(u, Len(Exit) + 1)

(* The list of contexts is popped at the new layer: IndexError when two    *)
(* tasks leave what only one of them has entered.                          *)
ExitedStep(u) ==
  LET l == Exited(tracker[On(u)])
  IN  /\ At(u, "exited")
      /\ tracker' = [tracker EXCEPT ![On(u)] = l]
      /\ UNCHANGED <<setup, storeVars, asked, faults, job, rd, adapters, attr, pool, instance,
                     shared, tracked, depth, disturbed>>
      /\ IF PopFails(tracker[On(u)]) THEN Raise(u) ELSE UNCHANGED walk /\ Go(u)

WrapperStep(u) ==
  \/ GetAdapter(u) \/ SharedAdapter(u) \/ Make(u) \/ Install(u) \/ Share(u) \/ Unset(u)
  \/ VirtEnterStep(u) \/ EnteredStep(u) \/ VirtExitStep(u) \/ ExitedStep(u)

(* A step of the store; whatever fails, a block that was counted stays so. *)
StoreStepHere(u) ==
  /\ StoreStep(u)
  /\ disturbed' = IF job[u].op \in {"enter", "exit"} /\ answer'[u] = Raised THEN disturbed + 1 ELSE disturbed
  /\ UNCHANGED <<adapters, attr, pool, instance, shared, tracker, tracked, depth>>

CtxNext ==
  \E u \in Users :
    \/ AskSome(u) /\ UNCHANGED ctxVars
    \/ setup.kind \in Wrapped /\ \E op \in setup.ops \cap CtxOps : CtxAsk(u, op)
    \/ StoreStepHere(u) \/ AdapterStep(u) \/ WrapperStep(u)

Init == StoreInit /\ CtxInit
Spec == Init /\ [][CtxNext]_allVars

(***************************************************************************)
(* Properties                                                              *)
(***************************************************************************)
Crew == DOMAIN setup.home
Lone == \E u \in Crew : Crew = {u}
AtRest == \A u \in Users : todo[u] = <<>>
Does(ops) == setup.ops \cap ops # {}
Cleans == {"clean", "clean_thread", "clean_all", "clean_everything"}
Swaps == {"set_adapter", "reset_adapter", "adapter_set", "module_call"}

(* Each caller has a thread to itself, and no call reaches other threads.  *)
Separate ==
  /\ \A u, w \in Crew : setup.home[u] = setup.home[w] => u = w
  /\ ~setup.foreign
  /\ ~Does(Cleans \cup {"close_all"} \cup CtxOps)

Resets == setup.kind \in {"aioredis", "aiomemcached"} /\ Does({"reset", "configure"})

\* Types; a thread store holds only connections that were made, of known threads.
TypeOK ==
  /\ setup \in Setups
  /\ \A t \in Threads : conns[t] \in 1..made \cup {Nothing, Coroutine}
  /\ \A t \in Threads : conns[t] # Nothing => t \in Keys
  /\ open \subseteq 1..made
  /\ adapters \in 0..MaxAdapters
  /\ \A a \in Adapters : /\ {attr[a], pool[a]} \subseteq 1..made \cup {Nothing, Coroutine}
                          /\ tracker[a].layer \in Int /\ tracker[a].virtual \in Nat
  /\ loop # Nothing => todo[loop] # <<>>
  /\ (instance # Nothing) => (instance <= adapters)

(* A connection that is open can still be reached, and so be closed: it is *)
(* stored, in use, kept by an adapter, or the caller's own.  That much is  *)
(* true of one caller, and of threads that keep to their own stores; tasks *)
(* of one thread lose connections, and so does whoever cleans the store.   *)
Reachable ==
  {conns[t] : t \in Threads} \cup {rd[u] : u \in {w \in Users : todo[w] # <<>>}} \cup given
    \cup {attr[a] : a \in Adapters} \cup {pool[a] : a \in Adapters}

NothingLost ==
  (Lone \/ Separate) /\ ~Does(Cleans) => open \subseteq Reachable

(* A connection that was closed does not stay in the store, whoever calls  *)
(* what at the same time: a call that is under way deletes the entry of    *)
(* that thread, or close_all deletes them all.  Three cases are excepted:  *)
(* close_all stops half-way when a thread appears, an SQLite manager that  *)
(* is given another thread's id closes its own thread's connection, and    *)
(* the close of an adapter that two threads share deletes the entry of the *)
(* thread that calls it, whoever of them has the connection.               *)
StoredIsOpen ==
  /\ Does({"close_all"}) => Lone
  /\ setup.kind \in Managers => ~setup.foreign
  /\ Does(CtxOps) => \A u, w \in Crew : setup.home[u] = setup.home[w]
  => \A t \in Threads :
       conns[t] \in 1..made \ open =>
         \E u \in Users : \E i \in DOMAIN todo[u] :
           \/ todo[u][i] = "delete" /\ job[u].tid = t
           \/ todo[u][i] = "sweep" /\ job[u].op = "close_all"

(* The connection a thread has got or reset is the one in its store, and   *)
(* open, until the thread calls again, whatever other threads do.          *)
KeepsItsOwn ==
  Separate /\ ~Resets =>
    \A u \in Crew :
      todo[u] = <<>> /\ job[u].op \in {"get", "reset", "configure"} /\ answer[u] # Raised =>
        conns[setup.home[u]] = answer[u].conn /\ answer[u].conn \in open

(* A call that has the store to itself raises only when it cannot connect, *)
(* when it cleans everything, or when it finds the coroutine an earlier    *)
(* reset has left.                                                         *)
LoneNeverFails ==
  Lone /\ faults = 0 /\ ~Resets =>
    \A u \in Crew : answer[u] = Raised => job[u].op = "clean_everything"

(* The layers that so many blocks open: all of them, or max_layers.        *)
LayersOf(blocks) == IF MaxLayers = 0 \/ blocks < MaxLayers THEN blocks ELSE MaxLayers

(* Once every caller is at rest the layers of `with cached` fit the blocks *)
(* they are in: the blocks are counted, and as many layers are open as     *)
(* there are blocks, max_layers at most.  The callers are one, or tasks;   *)
(* for tasks the layers are promised with max_layers 1, the default: of    *)
(* more, one that leaves while another enters leaves a layer behind.       *)
(* disturbed exempts blocks that could not be entered or left, and tasks   *)
(* of which one enters while another is entering or leaving the object.    *)
LayersFitBlocks ==
  AtRest /\ disturbed = 0 /\ ~Does(Swaps) /\ tracked # Nothing /\ (Lone \/ setup.kind \in Async) =>
    LET l == tracker[tracked]
        blocks == Cardinality(UNION {{u} \X (1..depth[u]) : u \in Users})
    IN  /\ l.virtual = blocks
        /\ Lone \/ MaxLayers = 1 => l.layer = LayersOf(blocks)

(* A lone caller of a synchronous adapter that only uses the wrapper holds *)
(* no connection once it has left its blocks, though every method called   *)
(* in a block closes the block's connection.                               *)
LeftBlocksHoldNothing ==
  Lone /\ setup.kind \in Sync /\ setup.ops \subseteq {"enter", "exit", "call"} =>
    (AtRest /\ disturbed = 0 /\ depth = [u \in Users |-> 0] => open = {})

=============================================================================
