# Models and proofs for privex-helpers

TLA+ modules, TLC configurations and TLAPS proofs for the parts of
`privex-helpers` in which several threads, tasks or calls share state. The
modules are written from the code under `src/privex/helpers/`; paths below are
relative to that directory.

## 1. Inventory

The library is a collection of helpers. Most are functions without state. The
parts that keep state, or that depend on an order of events:

| component | state | operations | used by / uses |
|---|---|---|---|
| cache key log (`cache/extras.py`, `CacheManagerMixin`) | `cache_key_lock` of the class; the log, a set of keys kept as a value of the cache; the values | `cache_set`, `cache_get`, `cache_get_or_set`, `clear_cache_keys`, `clear_all_cache_keys`, `log_cache_key`, `log_delete_cache_keys`, `z_cache` | the lock helper, the global cache |
| lock with timeout (`thread.py`, `lock_acquire_timeout`) | the lock | acquire, release around a `with` body | cache key log |
| `BetterEvent` (`thread.py`) | flag, Condition with its list of waiters | `set`, `clear`, `wait_set`, `wait_clear`, `wait` | `event_multi_wait`, the threads |
| `event_multi_wait` (`thread.py`) | local | scan the events, wait a slice on each, scan again | `BetterEvent` |
| `StopperThread`, `SafeLoopThread` (`thread.py`) | stop and pause events | `emit_*`, `should_*`, `run` | `BetterEvent` |
| coroutine threads (`asyncx.py`) | `_coro_thread_queue`, a queue per asynchronous call | `run_coro_thread`, `run_coro_thread_async`, `coro_thread_func` | |
| retry decorators (`decorators.py`) | two counters passed in the keyword arguments | `retry_on_err`, `async_retry` | |
| `r_cache`, `r_cache_async` (`decorators.py`) | the cache | look up, call, store | global cache |
| cache adapters (`cache/`) | a dict (memory), a table (SQLite), a server (Redis, Memcached) | `get`, `set`, `get_or_set`, `remove`, `update_timeout`, `purge_expired`, `close`, `reconnect` | connection store |
| cache wrappers (`cache/__init__.py`) | the global adapter, its LayeredContext | `adapter_get`, `adapter_set`, `reset_adapter`, every adapter call | adapters |
| connection store (`plugin.py`) | connections per thread and name | `get_*`, `close_*`, `reset_*`, `clean_threadstore` | adapters |
| `LayeredContext` (`common.py`) | layer and virtual layer counters | `enter`, `exit`, `aenter`, `aexit` | cache wrappers, SocketTracker |
| socket wrappers (`net/socket.py`) | sockets, `connected`, layer context | `connect`, `reconnect`, `disconnect`, every socket call with its retry | LayeredContext |
| DNS, reverse DNS, ping (`net/dns.py`, `net/util.py`, `net/base.py`, `net/common.py`) | none | `resolve_ip*`, `resolve_ips_multi*`, `get_rdns*`, `ip_to_rdns`, `asn_to_name`, `ping` | generators over several addresses |
| network checks (`net/common.py`) | the cached verdicts | `check_host*`, `test_hosts*`, `check_v4*`, `check_v6*` | DNS, the cache, `r_cache` |
| GeoIP (`geoip.py`) | the readers that are open | `geolocate_ip`, `geolocate_ips`, `geoip_manager`, `cleanup` | connection store |
| collections (`collections.py`) | a dict, a tuple or fields, `raw_data` | attribute and item access of `DictObject`, `Mocker`, `dictable_namedtuple`, `Dictable`, `DictDataClass`; `copy_class`, `copy_class_simple` | |
| the rest: conversions, text and number helpers, keys and encryption, git, packaging, Django, stack inspection | none worth a model, or only I/O | | |

What is hard in each of them is listed, at its line, under `hazards` in
`PROJECT.json`. In short: creation of a lock on first use; read-modify-write
through a cache; locks that an exception leaves acquired; a queue shared by
independent calls; waits that do not look again after they were notified;
decisions made from several flags that are read one by one; time limits that
race with answers; counters and connections that an error leaves half updated.

What makes each component correct:

- key log: no update of the log undoes another, a clear removes what it owes,
  no call waits for ever;
- events: a wait returns only for something that happened, none is missed;
  `event_multi_wait` decides from one scan, and ends;
- loop thread: a stop or pause takes effect within one `loop()`, a stop ends it;
- coroutine threads: each call reports its own coroutine, exactly once, and ends;
- caches: one caller cannot tell an adapter from a map whose entries expire;
  several callers lose no entry that is not due, except to one who removes it;
- connection store: what was opened can be closed, what was closed is not handed
  out, and a thread keeps its own;
- layers: the wrapped context is entered and left once per outermost block;
- sockets: none is lost, blocks leave none connected unless the peer resets one while
  it is connected, a request is sent a bounded
  number of times, every call ends;
- look-ups: answers fit the addresses asked, whatever fails in between; checks: a
  verdict is true of a recent test;
- collections: what was written is read back, whichever way; copies are apart;
- retries: a bounded number of calls.

## 2. Modules

| module | models | proofs |
|---|---|---|
| `CacheManager` | the key log, its lock, and the lock helper, over an external adapter | `CacheManager_proofs` |
| `CoroThread` | coroutine threads | `CoroThread_proofs` |
| `BetterEvent` | events and the list of waiters; it has no `Next` of its own | |
| `EventMultiWait` | extends `BetterEvent`: `event_multi_wait` composed with direct use of the same events | `EventMultiWait_proofs` |
| `SafeLoop` | StopperThread and SafeLoopThread | `Helpers_proofs` |
| `Retry` | `retry_on_err` and `async_retry` | `Helpers_proofs` |
| `ExpiringCache` | what a cache promises: the abstract specification | |
| `CacheCalls` | callers of the adapters, `get_or_set`, `r_cache` and their asyncio forms; extended by the three that follow | |
| `MemoryCache`, `SqliteCache`, `ServerCache` | the adapters' own methods | |
| `Caches` | composes them; `ImplementsExpiringCache` | `Caches_proofs` |
| `ConnectionStore` | the store of connections of `plugin.py`, and the connections of the SQLite managers | |
| `LayeredContext` | the counters, as operators on a record | |
| `CacheContexts` | extends both: adapters that connect, the wrapper, the module's adapter | `Connections_proofs`, `CacheContexts_proofs` |
| `Sockets` | socket trackers, wrappers and their decorators, over `LayeredContext` | `Sockets_proofs` |
| `Addresses` | conversions of addresses and host names: operators | |
| `Lookups`, `HostChecks` | DNS and GeoIP look-ups; checks of hosts and of IP versions | `Helpers_proofs` |
| `Records`, `ClassCopies` | collections | `Helpers_proofs` |

`MC<module>` gives the constants their values for TLC. Definitions called
`...Nothing`, `...Forever`, `...Again` and so on, marked "Mutant of", are
plausible bugs of the definition that follows them; each property is violated
when one of them replaces it, and nothing else refers to them.

### CacheManager

One action is one access to what threads share: a read or a write of
`cls.cache_key_lock`, a lock operation, or one call of the cache adapter.

| code | action |
|---|---|
| `cache_set`, `cache_get`, `cache_get_or_set`, through `_pfx_key` and `log_cache_key` | `CacheSet`, `CacheGet`, `CacheGetOrSet` |
| `_get_lock`: test, create, fetch | `CheckLock`, `MakeLock`, `FetchLock` |
| `lock_acquire_timeout` | `Acquire`, `AcquireTimeout`, `Release` |
| `get_all_cache_keys`: `get_or_set` of the log | `ReadLog`, on a miss `InitLog` |
| `cached.set(lk, keys)` of both log functions | `WriteLog` |
| `cached.remove(*pk)` | `RemoveValue`, once per key |
| the value: look up, store | `Lookup`, `StoreValue` |
| the adapter raises anywhere | `AdapterRaises` |
| expiry | `ExpireLog`, `ExpireValue` (external) |

`clear_all_cache_keys` is two reads of the log without the lock (`probe`,
`list`) and then a clear. `cache_get`'s own reads change nothing and are left
out. A `z_cache` method is a `cache_get_or_set` whose callable is the method.
Adapters are taken to return copies, as the pickling ones do; MemoryCache hands
out the very set object it stores, which hides some lost updates from its users
and creates others. Keys are already
prefixed. Locks handed in by the caller, `auto_prefix=False` and
`remove_log=False` are not modelled.

Three history variables say what is owed: `made` (the Lock objects), `must`
(keys that have to be in the log) and `due` (what a clear in progress has to
have removed when it returns).

### CoroThread

`Calls` are calls of `run_coro_thread` or `run_coro_thread_async`, each made at
most once, from any thread, at any time. `Finish` and `Escape` are the thread's
side, `Join`, `Get`, `GetTimeout` the synchronous caller's, `PollEmpty`,
`PollResult`, `PollTimeout`, `JoinAsync` the asynchronous caller's. A coroutine
returns, raises an Exception, raises `queue.Empty` (which the asynchronous
version mistakes for an empty queue), raises another BaseException, or hangs.
Asynchronous callers are tasks of one loop, so that a poll is one action, and
none happens while a task is in `t_co.join(5)`. `Polls` counts sleeps.

### BetterEvent and EventMultiWait

`Condition.wait` is modelled as the standard library implements it, because the
code's waits rely on its details: a notification takes a waiter off the list; a
waiter whose timeout passed stays on it until it has the lock again, and returns
False even if it was notified meanwhile (`Expire`, `GiveUp`). Everything the
methods do under the lock is one action. `event_multi_wait` runs without a lock:
each flag read by a scan, each wait, and each flag read for the result is an
action. `invert` and `invert_indexes` come down to the flag value that counts
for each event, the constant `Signalled`. The list that a call with trigger `any`
returns is read flag by flag after the decision (`thread.py:601`): it may lack
the event that ended the wait, or be empty, while the docstring
(`thread.py:540`) speaks of the events which were set.

### SafeLoop

`run`, with `should_stop` and `should_pause` read flag by flag (`ReadFlag`),
`Nap` for the sleep of a paused thread, `Loop` and `Rest`. Setting and clearing
of the events by others are actions that can happen between any two of them.
`late` counts the `loop()` calls since an event was set. `StartAgain` is a second
`start()`: the docstring (`thread.py:449`) says that it starts a stopped thread
again, and `threading.Thread` raises RuntimeError.

### Retry

`CallFunction` is the call of the decorated function, with what it raises sorted by
`fail_on` and `ignore`; `Again` is the decision of the except clause in the
order of the code (`fail_on`, then `max_ignore`, then `max_retries`); `RunAgain`
is the sleep and the wrapper's call of itself with both counters, `GiveUp` the
end, `Interrupt` an exception in the sleep. `failures` and `callsMade` are counted
independently of the counters of the code. Sorting by exact type and by
`instance_match` come down to the same outcomes. `Retriers` share the decorated
function and nothing else, since the counters live in the keyword arguments.

The docstrings say two things of `max_ignore`: "more than this many exceptions
have been ignored" (`decorators.py:90`), which is what `ignore_count >
max_ignore` does, and "after 100 retries where an exception was ignored"
(`decorators.py:73`), which is one less. Either way an ignored exception is
retried only while `retries < max_retries`, so that `max_ignore` is of no use to
a function that has used up its retries.

### ExpiringCache, CacheCalls, MemoryCache, SqliteCache, ServerCache, Caches

`setup` chooses the adapter, its callers and keys. A call (`Ask`) is a record with
its operation, keys and timeout; the adapter takes it through its steps, and
`CacheCalls` decides after each of them how it goes on: `get_or_set` computes and
sets on a miss, a memoised function looks up, is called, and stores.

| adapter | one step is |
|---|---|
| `MemoryCache` | one look-up in the class's dictionary: `key in c`, `c[key]`, the comparison, `del c[key]` |
| `AsyncMemoryCache` | one method: its coroutines never suspend |
| `SqliteCache`, `AsyncSqliteCache` | one SQL statement; get and set purge first when a purge is due |
| `RedisCache`, `MemcachedCache` and the asyncio ones | one command; the server expires by itself |

Time is a counter. At the very instant an entry is due either answer is allowed,
because the adapters compare with `<` and with `<=`. `Abs`
is the INSTANCE of `ExpiringCache` under the refinement mapping of `CacheCalls`, in
which the steps an adapter makes before the one that takes effect are stuttering,
and `ImplementsExpiringCache` holds for one caller of each
adapter and for tasks on `AsyncMemoryCache` (`Atomic`). With other callers in
between no adapter promises that much, and `FreshLostOnlyToRemovers` says what
remains.

Three things the code does that its documentation does not say:
`get_or_set_async` calls a coroutine function twice and stores and returns the
second coroutine without awaiting it (`cache/CacheAdapter.py:196-201`; the
docstring at 168-175 says it is awaited). `timeout=None`, documented as "never
expires" (`cache/CacheAdapter.py:77-78`, 153), raises TypeError in `get_or_set`,
`update_timeout` and `MemoryCache.set`. `MemoryCache.update_timeout` raises for a
key that has expired, and deletes it (`cache/CacheAdapter.py:105-106` says that it extends expired keys).

### ConnectionStore, LayeredContext, CacheContexts

A call runs a program, a sequence of steps that is kept in `todo`; each step is
one use of the store of threads or of a client library. Threads may change places
at any step, tasks only where the code awaits (`Awaits`, `loop`). `rd` is what a
caller holds in its local variable, `walk` how far an iteration over the stores
has come. `CacheContexts` adds the steps of the adapters (`attr` and `pool`, the
connection an adapter keeps), of the wrapper and of the module. A layer is
counted with the operators of `LayeredContext`, which `Sockets` uses as well.

What the runs do not promise, because the code does not do it:

- Two tasks share the layers across awaits. One that leaves while another enters
  leaves the object under an open block; two that leave can pop the empty list
  (`common.py:1810`, IndexError, layer -1 from then on); two that enter exceed
  `max_layers`. With a `max_layers` above 1, one that leaves while another enters
  can also leave a layer behind for good, so for tasks the number of layers is
  promised with 1 only, the default. An enter that fails stays counted as a virtual layer
  (`common.py:1773`), so that the object is never left. `disturbed` counts both.
- Two tasks of one thread that both connect lose one connection
  (`plugin.py:323`), and `async with` on one AsyncMemcachedCache by two tasks
  loses an open client.
- `close_all` stops with RuntimeError when a thread creates its store meanwhile,
  and the connections it has closed stay stored. `clean_threadstore(clean_all=True)`
  without a name deletes from the dict it iterates over and raises as soon as any
  store holds anything (`plugin.py:192`; documented at 171 as clearing every store).
- `close(thread_id)` of an SQLite manager closes its own thread's connection and
  deletes the other's entry (`cache/post_deps.py:156-163`); `SqliteCache.close`
  does not touch the store's connection. An adapter that threads share closes the
  connection of the thread that connected and deletes the entry of the one that closes.
  `reset_*_async` stores the coroutine it never awaited (`plugin.py:362`).
- `reset_adapter` stores what `__init__` returned, None (`cache/__init__.py:501`);
  `adapter_get` with a default does not tell the wrapper; a method called inside
  `with cached` closes the block's connection; `set_adapter` inside a block
  replaces the tracker, and the old adapter is never left; `__aexit__` reconnects
  (`cache/CacheAdapter.py:252`).

### Sockets

`stack[u]` is the stack of calls of user `u`, each frame with the operation, where
it stands (`pc`), its tries and the socket it was given; `err` is the exception
on its way up. `net` holds the sockets, the trackers (`main`, and `dup` for
`new_sock`) and the address family the connection has fallen back to. `Unwind`
is the decorators' handling of an exception, `SockUp` and `SockFails` the end of
one attempt to connect, `Perform` an operation on the operating system's socket,
which may find the connection broken at any time.

A setup (`SetupOK`) says which wrapper it is, who may call which operations how often,
how the wrapper was made, what the host resolves to, and whether `send_chunks` is given a
generator or a list. `query_new` and `query_raw`
are calls of `query` with `new_sock=True` and with `sock=` of the caller's own: only
the synchronous decorator has the former, and only it closes the socket it was given.
`NewSock` is a closed socket that no frame knows of any more; with more than two
for each user and one for the tracker there always is one (`EnoughSocks`). The asyncio
wrapper makes none of the calls in `SyncOnly`: it has no such option, or inherits the
operation with the synchronous decorator, which would block its loop.

A socket is `fresh`, `up`, `down` (broken), `gone` (its peer reset it before
`post_connect` asked for the peer) or `closed`. An attempt to connect ends with
`post_connect`, which may find it gone and raise, `connected` being set already; in
asyncio only once the task is `Woken`, and perhaps over another socket by then.

Observed, and allowed for in the properties:

- The decorators nest, so that their tries multiply: `query` sends up to 9 times,
  `http_request` up to 27 (10 in the asyncio version). After a reconnect
  `read_eof` reads from a connection on which nothing was sent.
- `post_connect` is called after `connected` is set and outside of the `try`
  (`net/socket.py:385`, `424`). When the peer resets the connection before
  `getpeername` (`338`), its OSError leaves an open socket and `connected` set. If
  this was the connect of `http_request`'s decorator, of the reconnect before a
  retry, or of a tracker's `__enter__`, no block is left that would disconnect it:
  `LeftBlocksClosed` says "closed, or reset while it was connected" (`reset`).
- `send_chunks` sends each chunk by a `send` that is tried again, and is tried again
  itself: a list from its first chunk, up to 9 sends for each chunk; a generator goes on
  after the chunk it gave last, so that the chunk whose sends were given up is lost,
  and the call returns the results of the others.
- An asyncio `query` hands its socket on; after a reconnect that socket is closed,
  and the send that is tried again fails.
- The synchronous operations close the socket they were given as `sock=` after the
  first of them, so that `query(sock=...)` always fails.
- `reconnect()` of the synchronous tracker stores the host and port it was not
  given (`net/socket.py:906`): from then on it raises TypeError.
- With two tasks on one wrapper `connected` may be left set over a fresh socket
  (`net/socket.py:422`).
- `send_data` calls itself with the same arguments (`net/socket.py:1676`) until
  the recursion limit, and with an iterable calls a method sockets do not have.
- `bind`, `listen` and `on_connect` threads raise AttributeError or TypeError as
  they stand; only the last is modelled.

### Addresses, Lookups, HostChecks

An address is a model value in `V4`, `V6` or `Mapped` (IPv4 in IPv6), a name is in
`Names`; what the resolver, a server or a database answers is chosen at each step.
`Lookups` runs one request, address by address as the generators do; `readers` and
`block` are the GeoIP readers and the `geoip_manager` block. In `HostChecks` users
test versions of IP at the same time, one host per step (`CheckOne`), over the
cache of verdicts, whose entries expire as `clock` advances.

Observed: after `geolocate_ips` has yielded None for an address it reads
`country` of None (`geoip.py:248`) and the rest is never answered. The cleanup of
`geoip_manager` is not in a `finally`, and closes the readers of every kind.
`max_hosts=None` raises TypeError (`net/common.py:300`, 448). The setting
NET_CHECK_HOST_COUNT_TRY is read from the environment variable of
NET_CHECK_HOST_COUNT (`settings.py:231`). The key of the cached verdict leaves out
the hosts and is shared by `check_v4` and `check_v4_async`; a failed test is
cached like any other, and a slow one overwrites a newer verdict. A name that does
not resolve raises in `check_host`. A host that raises counts in `test_hosts` neither
as working nor as broken, in `test_hosts_async` as broken.

### Records, ClassCopies

An object (`objs`) has a class and fields; `items` and `mods` are dicts, which two
objects may share. `GetAttr`, `GetItem`, `AttrPlace` and `ItemPlace` say, class by
class, what is read and where a write goes; `last` is what was written last.
`ClassCopies` follows which classes share which attribute objects (`classes`,
`objects`) while classes are copied, copies are copied, and attributes appended to.

Observed: a declared field of a dictable_namedtuple cannot be written
(`collections.py:1349` says fields can be updated), and an extra one is found by index only
after a second write; a field of a DictDataClass that is also in `raw_data` keeps its
attribute when the item is written, and one declared after
`raw_data` loses the value it was given. A Mocker's attribute is hidden by a module of
its name. In `copy_class_simple` a missing comma joins two names of the
list of special methods (`collections.py:413-414`), and `allow_attrs +=` extends the
list the caller passed. `Hidden` and the exceptions in `CopiesApart` name these.

## 3. Runs

| run | shows |
|---|---|
| `cache_manager` | `TypeOK`, `LoggedKeyStays`, `ClearRemoves` with two threads, two keys and one adapter error, symmetric in both; about 2.9 million states |
| `cache_manager_ends` | `CallsEnd` under fairness, with one key |
| `cache_manager_first_use` | violation: two first callers, two Lock objects, a lost addition |
| `coro_thread` | who is told which outcome, and that calls end: three calls, two sleeps, one interrupt |
| `coro_thread_shared` | violation: overlapping `run_coro_thread` calls swap results |
| `event_multi_wait` | the waits of two events and a call of `event_multi_wait` over them |
| `retry` | the bounds on calls and retries when both limits are in play, and that calls end |
| `safe_loop` | stops and pauses of a loop thread with two events of each kind |
| `caches` | `ImplementsExpiringCache`, `FreshLostOnlyToRemovers`, for each of the eight adapters; about 2.4 million states |
| `connections` | what is lost, what stays stored closed, whose connection is whose, and whether layers fit blocks; about 700 000 states |
| `sockets` | sockets lost or left connected, how often a request is sent, and that calls end; about 250 000 states |
| `helpers` | `AnswersFit`, `VerdictJustified`, `ReadsLastWrite`, `CopiesApart`, each on the group of helpers it is about; about 400 000 states |

Bounds, and why they are enough:

- CacheManager: a lost update, a wiped log or a clear that misses a value takes
  two threads, one acting between two steps of the other, and two keys, so that
  one is touched while the other is at stake. `MaxFail = 1`: one error leaves the
  lock acquired for ever, and a second one would meet the same situation. The
  liveness run has one key, because waiting does not depend on keys. Type
  correctness and `LoggedKeyStays` are proved for any number.
- CoroThread: two calls swap results, and the third is the bystander that
  inherits what they leave. Two sleeps distinguish the first poll, a later one
  and the limit. One interrupt leaves one result behind.
- EventMultiWait: a waiter of each kind, a direct one and the multi-wait; a plain
  event and one that is inverted, returns on any change and does not notify of a
  clear, so that both wake-ups that come and wake-ups that do not are there.
- SafeLoop: two events of each kind, so that a reading can be torn. `late` stops
  at 2, one more than any property allows. Both are proved for any lists.
- Retry: two retries and one ignored exception allowed, so that either limit can
  be the first to be reached, and both at once; two callers, so that counters of
  one could affect the other. `CallCap` caps the history counters one above what
  `CallBound` allows. The safety properties are proved for any limits, those with
  `max_ignore=False` (`Unlimited`) included, which TLC could only count for ever.
- Caches: one caller with two keys and two or three calls, with an empty store and
  with one that earlier callers have filled: a remove of several keys, a purge
  of several rows and every pair of calls on one key. Two callers with one key
  and three calls: one acts between two steps of the other, and the third call
  meets what they leave. Timeouts -1, 0 and 1 with a clock that stops at 3:
  entries that were never fresh, without a deadline for some adapters, and due
  while they are looked at. A purge every 1.
- Connections: two threads or two tasks, three or four calls, one connection that
  cannot be made, a wrapper with one layer and blocks two deep, so that inner and
  outer ones differ. `MaxAdapters = 6` is more adapters than so few calls make.
- Sockets: one user with up to three calls, and two tasks that make the same
  connections; six sockets, so that one is always free to be opened. For one user
  any operation may fail; for two, one may, and no failure is needed for their
  connects to break each other. `Chunks = 2` for `send_chunks`, with a list and with a
  generator: a chunk that is sent again because a later one failed, and one that is
  lost. `MaxChunks = 2` for `read_eof`: it reads on, or gives up after the first.
  `MaxRecursion = 3` stands for the interpreter's limit. The four safety properties
  are proved for any users, sockets, setups, numbers of chunks and limits.
- Helpers: up to two addresses, each with up to two answers: an address that fails
  before or after another, and an answer of the wrong version before a right one.
  The boundaries are those between labels, one that cuts a label, the ends, and one beyond. Two
  users test up to three times while a verdict lives for one tick. One field, one
  late field, one further key, one name the class has and one number: the ways a key
  can be taken. Three classes: a copy, and a copy of the copy or of the original.

No run constrains the state space. `CHECK_DEADLOCK FALSE` stands in the CoroThread,
Caches, Connections and Helpers configurations, where every call can be done.

What the violations say is in `findings` of `PROJECT.json`. One more
disagreement, without a run because it is a plain type error: `asyncx.py:90`
offers `_output_queue="default"`, and `coro_thread_func` calls `put` on it.

### Fairness

- CacheManager: weak fairness of each thread's `Step`. The interpreter schedules
  every thread; acquiring ends by success or by its 30 seconds. Nothing obliges a
  caller to call, an adapter to raise, or an entry to expire.
- CoroThread: weak fairness of each caller's steps. The thread of a coroutine has
  none: a coroutine may hang. `CallsEnd` therefore promises the end of a
  synchronous call only once its thread is dead.
- EventMultiWait: weak fairness of each caller's steps, which includes that a
  slice of `event_sleep` passes. Nobody has to set or clear an event.
- SafeLoop: weak fairness of `run`'s steps; `loop()` returns.
- Retry: weak fairness of each caller's `Step`: the function returns or raises
  each time it is called, and the sleep passes.
- Sockets: weak fairness of each user's steps, those in which an attempt to connect
  comes to its end included: every wait of the wrappers has a time limit. The
  network need never work.

The safety runs of the caches, connections and helpers state no fairness, since
nothing in them waits for another.

## 4. Proofs

| theorem | statement |
|---|---|
| `CacheManager_proofs!TypeCorrect` | `Spec => []TypeOK` |
| `CacheManager_proofs!KeysStayLogged` | `Spec => []LoggedKeyStays` |
| `CacheManager_proofs!ClearsRemove` | `Spec => ClearRemoves` |
| `CoroThread_proofs!NothingPilesUp` | `Spec => []NoLeftovers` |
| `CoroThread_proofs!EachResultOnce` | `Spec => []DeliveredOnce` |
| `CoroThread_proofs!AsyncReportsItsOwn` | `Spec => []AsyncOwnResult` |
| `CoroThread_proofs!SequentialReportsItsOwn` | `Spec => []SequentialOwnResult` |
| `EventMultiWait_proofs!WakesAreJustified` | `Spec => []WokenHasSeen` |
| `EventMultiWait_proofs!NoWakeupLost` | `Spec => []NoLostWakeup` |
| `EventMultiWait_proofs!DecidesFromOneScan` | `Spec => []MetInOneScan` |
| `Caches_proofs!TypeCorrect` | `Spec => []TypeOK` |
| `Caches_proofs!FreshEntriesStay` | `Spec => FreshLostOnlyToRemovers` |
| `Caches_proofs!ExpiringCacheImplemented` | `Spec => ImplementsExpiringCache` |
| `Connections_proofs!ThreadsKeepTheirOwn` | `Spec => []KeepsItsOwn` |
| `Connections_proofs!ContextsTypeCorrect` | `Spec => []TypeOK` |
| `Connections_proofs!CallersAloneNeverFail` | `Spec => []LoneNeverFails` |
| `Connections_proofs!ConnectionsStayInReach` | `Spec => []NothingLost` |
| `CacheContexts_proofs!BlocksLeaveNothing` | `Spec => []LeftBlocksHoldNothing` |
| `CacheContexts_proofs!LayersFit` | `Spec => []LayersFitBlocks` |
| `CacheContexts_proofs!ClosedAreDeleted` | `Spec => []StoredIsOpen` |
| `Helpers_proofs!CopiesStayApart` | `CopiesSpec => []CopiesApart` |
| `Helpers_proofs!WritesAreReadBack` | `RecordsSpec => []ReadsLastWrite` |
| `Helpers_proofs!VerdictsAreJustified` | `HostsSpec => []VerdictJustified` |
| `Helpers_proofs!AnswersFitAddresses` | `LookupSpec => []AnswersFit` |
| `Helpers_proofs!TypeCorrect` | `Spec => []TypeOK`, of `SafeLoop` |
| `Helpers_proofs!AtMostOneLateLoop` | `Spec => []LateLoops`, of `SafeLoop` |
| `Helpers_proofs!RetryTypeCorrect` | `RetrySpec => []RetryTypeOK` |
| `Helpers_proofs!CallsBounded` | `RetrySpec => []CallBound` |
| `Helpers_proofs!RetriesExact` | `RetrySpec => []ExactRetries` |
| `Sockets_proofs!SocketTypes` | `Spec => []TypeOK` |
| `Sockets_proofs!NoSocketIsLost` | `Spec => []NoSocketLost` |
| `Sockets_proofs!LeftBlocksAreClosed` | `Spec => []LeftBlocksClosed` |
| `Sockets_proofs!SendsAreBounded` | `Spec => []SendsBounded` |

Each holds for all threads, users, keys, events, calls, values and setups there may
be, and for every bound of section 3, under the assumptions that the modules name:

- `None` is no thread and no event; `MaxFail`, `Polls`, `MaxInterrupts` and `MaxRetries`
  are natural numbers, `MaxIgnore` is one or `Unlimited`;
- `Order` and the event lists are sequences and not empty, those of stop and pause
  events disjoint; the threads are the callers of `event_multi_wait` and the others;
- caches: a setup has finitely many callers, and keys and limits of the right kind;
  timeouts are natural numbers or `Unset`; `Nothing` is neither a call nor an entry;
- connections: every caller has a known thread as its home; `Nothing` is no number,
  no thread, no caller and no iteration over the stores (`WalkAssumption`);
- collections: fields and attributes are finitely many, and the kinds of names are
  apart;
- network: IPv4, native and mapped IPv6 addresses and host names are apart, and `Nothing`
  is none of them nor a list of addresses; V4_TEST_HOSTS and V6_TEST_HOSTS are finite;
  the limits and settings are natural numbers, `max_hosts` one or `NoLimit`, and the
  boundaries of `ip_to_rdns` integers;
- sockets: the setups are of the right kind (`SetupOK`), with any operations, users and
  limits; there are finitely many users, and infinitely many sockets or more than two for
  each user and one; `Nothing`, sockets and trackers are apart; `Chunks` is
  a natural number, `MaxChunks` and `MaxRecursion` are positive.

`LoggedKeyStays` is not inductive: it says nothing of a thread about to write
back. The invariant is `IInv == LockInv /\ LogInv`. `LockInv` has the types,
where a caller can be in each operation (`CallerOK`), and `Exclusive`: of the
threads that work under a lock, no two hold the same Lock object. With a single
object that leaves one thread between reading the log and writing it back, which
is what `LogInv` needs: whoever is about to write has all of `must` in its copy,
and whoever is about to write an empty log under the lock has nothing to lose. A
caller whose adapter call raised leaves its Lock in `held` without working under
it, which `Exclusive` allows. The steps that leave the log and the copies alone
are dealt with in one lemma (`QuietStep`).

`LateLoops` is not inductive either: it does not say where the thread is when it
has already used up its one late `loop()`. `IInv` says, for an event that is set:
either a late call is still to spare, or the thread has caught up, that is, it
will read the event's flag before it can begin another `loop()`, or it has read
it and will hold or end. `ReadAhead` and `ReadStep` follow one reading of a list
of flags.

`CallBound` follows from an invariant that relates the history counters to the
counters of the code: `callsMade` is `retries + ignored`, and one more once the call
that follows has been made, and the sum is at most `MaxRetries + MaxIgnore`
because a retry begins only with `retries < MaxRetries` and `ignored <=
MaxIgnore`. The bound is one less than the two limits added up naively, since
`ignored` itself reaches `MaxIgnore + 1`. `ExactRetries` needs the same for
`failures`.

`ClearRemoves` is an action property: of what a clear returns. `DueInv` says, for a
class with one Lock object, that what a clear in progress still owes is in what it has
left to remove; it holds because others excuse the keys they store meanwhile, and it
needs `LogInv`, since a clear of all keys owes what its reading of the log showed.

The waits on events: `EventInv` ties a waiter to the list it is on. Who waits and has
not seen the flag in the state it waits for finds it in the other one (`WaiterInv`), and
who has seen it and still waits was not to be notified of that change (`LostInv`); a
waiter off its list was notified. For `event_multi_wait`, `MultiInv` keeps what one scan
has found, and the list that is made after it, within the events that were signalled at
some time since the scan began.

The coroutine threads: every outcome is in at most one place, a queue or the hands of
one caller (`OnePlace`), which is `DeliveredOnce`; an asynchronous call only ever finds
its own (`AsyncInv`). That nothing piles up is counting (`CountInv`): items on the queue
and threads still running are together no more than the callers that wait and those an
interrupt has ended. A caller that gives up has seen the queue empty and its own thread
dead, which is what `NobodyForgotten` says. `SequentialInv` adds that calls made one
after the other find the queue empty.

The caches: `ControlInv` says which operation can be where in which adapter, and what its
caller holds. `SoloInv` is the argument of the refinement: what a lone caller has found
out about the store since it began is still so, because the clock alone moves, and it
only makes entries due. With it every step of an adapter is a step of `ExpiringCache` or
a stuttering one. `AsyncMemoryCache` takes one step from the look-up to the answer, so
that any number of tasks refines it.

The connections: where each caller has a thread to itself and none reaches into another's,
no two callers have the same connection stored or about to be stored (`Apart`), so that
closing one's own closes nobody else's; what is stored is open, except between the
closing and the deletion of one call.

The other theorems of the connections need to know what `todo` can hold, since a step
that finds what it looks for skips what is behind it. `Follows` says which step may
follow which, and `Fits` what is behind a step that may skip: a look-up has a connect and
a store behind it, a fetch of the wrapper's adapter the making of one. Every program is
of that shape (`CtxProgramBlocks`, `StorePrograms`: programs are put together from blocks
that fit each other), and what is left of one keeps it. With that `CtxInv` types every
variable, and says of every call where its adapter comes from (`Under`), which is
`ContextsTypeCorrect`. `LoneInv` is `CtxInv` and what holds where one caller is alone: its
iteration over the stores stands between two of its own steps, so that their number is
what it was when it began, and the object it leaves is one it has entered, so that the
list of contexts is not empty when it pops it.

`NothingLost` follows from where a connection is between two steps. `LostInv`: each open
connection is in a store, kept by an adapter, the caller's own, or in the hands of a call
whose next step puts it into one of these (`Carried`). What can lose one is a step that
overwrites or clears a place, and `Tended` says of each such step, from what the call has
still to do, why it does not: the entry it replaces or deletes was closed or was not there
when the call looked (`ThreadTended`); the adapter had no connection when the call asked
for one, and has closed what it clears (`AdapterTended`); the stores an iteration has
passed hold nothing open (`IterTended`). All this may be said only because nobody else
touches the same entries in between: there is one caller, or each keeps to its own thread
(`OthersTended`). `PoolStored` is what makes up for AsyncRedisCache's second attribute,
which `close` forgets without closing it, and `HomesOnly` for the SQLite managers, whose
close takes the connection of the caller's thread.

`LeftBlocksHoldNothing` rests on all of these. `LeftInv` says of the one caller, at each
place of what it has still to do, which adapter may have a connection (`AdapterLeft`: the
wrapper's own, or the one it is about to set), what the steps that close have left
(`PlaceLeft`), and that the layers are those of its blocks, one less or one more while one
is entered or left (`LayersLeft`). That tells at the exit whether the block is the
outermost, whose exit closes; and with nothing in the store and no adapter connected,
nothing is open, because what is open is within reach. The programs it goes through end
where a block is entered or left and set the adapter once (`Tidy`), which is shown block
by block as in `CtxProgramBlocks`.

`LayersFitBlocks` is about tasks as well, whose awaits fall between the two counters of
the context. `FitInv` counts the blocks (`Insides`): those callers are in, with the one
somebody is entering and not those somebody has counted out. The virtual layers are always
as many (`Counted`). The layers are as many, up to `max_layers`, except while somebody
enters or leaves the object itself: then there is one such caller, and one layer less or
more (`Layered`). For several tasks that holds with one layer only: whoever leaves the
object is in the last block, so nobody else is in one (`NobodyCrosses`, by counting), and
whoever enters while another is at it is `disturbed`. All the blocks are those of one
adapter's context, because no task awaits between finding that there is no adapter and
installing one (`PendingFit`). The blocks are counted as a set of pairs, so that entering
and leaving adds or takes one element (`PilesCount`) and the number of callers does not
matter; it may even be infinite.

`StoredIsOpen` is about any callers. It is not inductive, since it does not say that
whoever closes a connection closes one of the thread whose entry it then deletes.
`StoredInv` adds that a connection is stored in one thread only (`Unique`), that calls on
that thread alone have it in their hands (`HoldStored`), and adapters that have it are of
that thread (`AttrStored`); and it says of the place a call is at that a deletion comes
behind it (`Tends`), or that `close_all` is still to go over all the stores, and that those
it has passed are empty (`Sweeping`). A step of any other call treats the rest of the
state as `Mild` says, and leaves what is closed to whoever deletes it (`Onward`). Three
exceptions are in the property because the code has them: `close_all` beside other
threads, which stops half-way; managers given another thread's id; and adapters that two
threads share, whose `close` closes the connection of whoever connected and deletes the
entry of the thread it is called in.

The collections: an attribute that has to be apart has an object that no other attribute
of any class refers to (`Unshared`); numbering the new objects of a copy keeps that.
`ReadsLastWrite` is not inductive, because a write may move a key from one place to
another: `RecordsInv` says class by class that the place looked into first holds the
value last written, of keys that nobody has read yet as well, and that only Mockers share
a dict. For a dictable_namedtuple this needs that what its dict and its items hold, apart
from methods, is among its fields; for a dataclass with `raw_data` that its dict has
exactly the declared fields.

The checks of hosts: a caller may be told the outcome of a test that another made, some
seconds ago, from the cache. `HostsInv` therefore says the same of everything a verdict
passes through: a job has counted as working exactly the hosts that were met over its
version, and those met and those left are at most `max_hosts`; a cached verdict is the
outcome of such a job and dates from no later than now. That a check says TRUE exactly if
a server was met over the version is `ChecksShown`, for each of the functions that check
a host; it is where the version of a literal address, the filter of resolved addresses
and the address that is connected to come together.

The look-ups: `LookupInv` says that the answers are those of the addresses before `pos`,
in their order (`InPlace`), each of them right by itself, and where a `geoip_manager`
block stands (`BlockInv`). `KthIs` finds the k-th place that a filter keeps, by the least
number at which the count is reached, so that what it keeps are addresses that were heard
and passed it; `SuffixOf` shows that a zone of the reverse DNS ends the full name.

The sockets: every property is about what a whole stack of calls has done, so `StacksInv`
describes stacks frame by frame: at which line each operation can be (`FrameOK`), which
may stand on which (`CallOK`), and how deep (`Rank`). An action does one of three things to a
stack, its top frame goes on, makes a call, or is left (`Moves`), and the lemmas about the
three serve every action. `SocksInv` says whose each open socket is: a tracker's or one the
caller passed in (`Raw`), never both, and one that an asynchronous `query` has handed on
(`HandedOK`) is either the wrapper's still or closed, so that the call it was handed to
cannot open another behind it. `BlocksInv` counts: the virtual layers of a tracker
are the blocks of frames and users that are inside (`Blocks`), and those of `main` are of
calls that were made (`Claims`); the number of layers alone says nothing of who will leave
them. `SendsInv` compares the sends of a call with the tries its frames have used up, each
worth the sends one try of it can make (`Share`), and for `send_chunks` with the chunks it
has taken as well: of a list those of this try, of a generator all (`TakenBounds`). `LeaveInv` is for the lone user: in no
block, the tracker has no socket, an unused one or a reset one, except between the connecting and
the entering of one call.

TLC finds every one of these invariants to hold on the instances of section 3; of
`CopiesInv` the part without the types, whose sets it cannot enumerate.

Only model-checked:

- all liveness: fairness, and with it ENABLED, is out of TLAPS's reach here.

## 5. Plan

All the modules of the plan are written, and all the safety properties the passing runs
check are proved.

## 6. Not modelled

- Conversions, and the text, number and inspection helpers of `common.py`: pure
  functions whose whole content is the wording of what they return.
- `caller_name` and its relatives, which walk the interpreter's stack; `loop_run`,
  `awaitable` and `aobject`, which choose an event loop and hand the coroutine to it.
- Keys and encryption, git and packaging: calls of a library or a program, and files.
- What Redis, Memcached, SQLite, resolvers, web servers and GeoIP databases do: outside
  the repository. They answer as the code expects, or fail.
- In components that are modelled: locks handed in by the caller, `auto_prefix=False`
  and `remove_log=False` of the cache manager; the texts of cache keys (`_format_key`,
  which formats the decorator's own key even when `r_cache_key` overrides it); pickling;
  the choice of an adapter by its name; wrappers used by several threads; TLS, `bind`,
  `listen` and termbin of the sockets; the values of their timeouts; HTTP requests and
  the parsing of host texts in the network checks; `make_mock_module`, `copy_func`,
  `is_namedtuple` and DictConfig's lists of keys.
- Two hazards of the cache manager that its properties leave out: `cache_set` stores its
  value after it has released the lock (`cache/extras.py:497`), so that a clear in between
  misses it, which `due` allows for; and the log may expire before the values it
  lists (`cache/extras.py:419`), after which a clear of all keys finds nothing.
