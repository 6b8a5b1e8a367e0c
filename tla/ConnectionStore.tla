--------------------------- MODULE ConnectionStore ---------------------------
(***************************************************************************)
(* The connections plugin.py keeps for each thread under one name: Redis,  *)
(* Memcached and GeoIP connections, their asyncio versions, and those of   *)
(* the SQLite cache managers.  Callers are threads, or tasks of one thread *)
(* that change places only where a call awaits something.                  *)
(*                                                                         *)
(* A call runs a program: a sequence of the steps below, each one use of   *)
(* the store or of the client library.  todo[u] is what u has still to do. *)
(***************************************************************************)
EXTENDS Integers, Sequences, FiniteSets

CONSTANTS
  Users, Threads, Nothing,
  Setups,       \* [kind, home, ops, calls, foreign]: a kind of connection, the thread
                \* of each user, the calls they make and how many, and whether they
                \* name the thread_id of other threads too
  MaxFaults     \* bound of the connections that cannot be made

Sync == {"redis", "memcached", "geoip", "sqlite"}
Async == {"aioredis", "aiomemcached", "aiosqlite"}
Managers == {"sqlite", "aiosqlite"}

VARIABLES
  setup,    \* the chosen setup: it never changes
  order,    \* the keys of __STORE['threads'] in their order; Nothing where one was deleted
  conns,    \* the connection in each thread's store, or Nothing
  made,     \* number of connections made: they are 1..made
  open,     \* those not closed
  given,    \* those handed to a caller to keep
  asked,    \* number of calls so far
  faults,   \* number of connections that could not be made
  job,      \* the call each user is in: [op, tid, on]
  todo,     \* the steps it has left
  rd,       \* the connection it holds
  walk,     \* its iteration over the stores: [at, size], or Nothing
  loop,     \* the task that runs, or Nothing while all of them wait
  answer    \* how each user's last call ended

storeVars == <<order, conns, made, open, given>>
vars == <<setup, order, conns, made, open, given, asked, faults, job, todo, rd, walk, loop, answer>>

Coroutine == -1     \* a coroutine where a connection should be

StoreAssumption ==
  /\ \A s \in Setups : /\ s.kind \in Sync \cup Async
                       /\ DOMAIN s.home \subseteq Users
                       /\ \A u \in DOMAIN s.home : s.home[u] \in Threads
                       /\ s.calls \in Nat
                       /\ s.foreign \in BOOLEAN
  /\ MaxFaults \in Nat
  /\ Nothing \notin Int \cup Threads \cup Users
ASSUME StoreAssumption

\* An iteration is told from none.
WalkAssumption == Nothing \notin [at : Nat, size : Nat]
ASSUME WalkAssumption

NoAnswer == [how |-> "none", conn |-> Nothing]
Returned(c) == [how |-> "returned", conn |-> c]
Raised == [how |-> "raised", conn |-> Nothing]
NoJob == [op |-> "none", tid |-> Nothing, on |-> Nothing]

StoreInit ==
  /\ setup \in Setups
  /\ order = <<>>
  /\ conns = [t \in Threads |-> Nothing]
  /\ made = 0 /\ open = {} /\ given = {} /\ asked = 0 /\ faults = 0
  /\ job = [u \in Users |-> NoJob]
  /\ todo = [u \in Users |-> <<>>]
  /\ rd = [u \in Users |-> Nothing]
  /\ walk = [u \in Users |-> Nothing]
  /\ loop = Nothing
  /\ answer = [u \in Users |-> NoAnswer]

(***************************************************************************)
(* The programs                                                            *)
(***************************************************************************)
get_redis == <<"lookup", "connect", "store">>
get_redis_async == <<"lookup", "connect", "store">>
get_memcached == <<"lookup", "connect", "store">>
get_memcached_async == <<"lookup", "connect", "store">>
get_geoip == <<"lookup", "connect", "store">>
sqlite_conn == <<"lookup", "connect", "store">>
sqlite_conn_async == <<"lookup", "connect", "store">>

close_redis == <<"seek", "shut", "delete">>
close_redis_async == <<"seek", "shut", "delete">>
close_memcached == <<"seek", "shut", "delete">>
close_memcached_async == <<"seek", "shut", "delete">>
close_geoip == <<"seek", "shut", "delete">>

(* The managers close the connection of their own thread, and then delete  *)
(* the entry of the thread they were given.                                *)
sqlite_close == <<"own", "shut", "delete">>
sqlite_close_async == <<"own", "shut", "delete">>

(* The asyncio versions store the coroutine that makes the connection, and *)
(* await it then.                                                          *)
reset_without_close == <<"connect", "store">>
reset_redis == close_redis \o <<"connect", "store">>
reset_redis_async == close_redis_async \o <<"promise", "connect">>
reset_memcached == close_memcached \o <<"connect", "store">>
reset_memcached_async == close_memcached_async \o <<"promise", "connect">>
reset_geoip == close_geoip \o get_geoip

(* configure_... changes the settings and resets. *)
configure_redis == reset_redis
configure_redis_async == reset_redis_async
configure_memcached == reset_memcached
configure_memcached_async == reset_memcached_async

Programs ==
  [redis        |-> [get |-> get_redis, close |-> close_redis,
                     reset |-> reset_redis, configure |-> configure_redis],
   memcached    |-> [get |-> get_memcached, close |-> close_memcached,
                     reset |-> reset_memcached, configure |-> configure_memcached],
   geoip        |-> [get |-> get_geoip, close |-> close_geoip, reset |-> reset_geoip],
   aioredis     |-> [get |-> get_redis_async, close |-> close_redis_async,
                     reset |-> reset_redis_async, configure |-> configure_redis_async],
   aiomemcached |-> [get |-> get_memcached_async, close |-> close_memcached_async,
                     reset |-> reset_memcached_async, configure |-> configure_memcached_async],
   sqlite       |-> [get |-> sqlite_conn, close |-> sqlite_close],
   aiosqlite    |-> [get |-> sqlite_conn_async, close |-> sqlite_close_async]]

(* The calls that any kind has: a new connection, close_all, and the forms *)
(* of clean_threadstore (a name in a thread, a whole thread, a name in all *)
(* threads, everything).                                                   *)
Common ==
  [new |-> <<"connect">>,
   close_all |-> IF setup.kind \in Managers
                 THEN <<"own", "shut", "sweep">> ELSE <<"walk", "sweep">>,
   clean |-> <<"delete">>, clean_thread |-> <<"drop">>,
   clean_all |-> <<"sweep">>, clean_everything |-> <<"purge">>]

Kind == Programs[setup.kind]
Program(op) == IF op \in DOMAIN Kind THEN Kind[op] ELSE Common[op]

(* What a call awaits: connecting and closing, where that takes time. *)
Awaits(step) ==
  \/ setup.kind \in {"aioredis", "aiosqlite"} /\ step \in {"connect", "shut", "shut_attr", "await_pool"}
  \/ setup.kind = "aiomemcached" /\ step \in {"shut", "shut_attr"}

(***************************************************************************)
(* Control                                                                 *)
(***************************************************************************)
Step(u) == IF todo[u] = <<>> THEN "none" ELSE Head(todo[u])
At(u, step) == Step(u) = step /\ loop \in {Nothing, u}

(* The call goes on with the steps in rest, or returns; a task keeps the   *)
(* loop unless it has just begun to await, or now begins to.               *)
Proceed(u, rest, waits) ==
  /\ todo' = [todo EXCEPT ![u] = rest]
  /\ loop' = IF \/ setup.kind \in Sync
                \/ rest = <<>>
                \/ waits
                \/ Head(rest) = "connect" /\ Awaits("connect")
             THEN Nothing ELSE u
  /\ answer' = IF rest = <<>> THEN [answer EXCEPT ![u] = Returned(rd'[u])] ELSE answer

Continue(u, rest) == Proceed(u, rest, Step(u) # "connect" /\ Awaits(Step(u)))

Drop(s, n) == SubSeq(s, n + 1, Len(s))
Skip(u, n) == Continue(u, Drop(todo[u], n + 1))
Go(u) == Skip(u, 0)

Raise(u) ==
  /\ todo' = [todo EXCEPT ![u] = <<>>]
  /\ walk' = [walk EXCEPT ![u] = Nothing]
  /\ loop' = Nothing
  /\ answer' = [answer EXCEPT ![u] = Raised]

Holds(u, c) == rd' = [rd EXCEPT ![u] = c]

Ask(u, op, tid) ==
  /\ u \in DOMAIN setup.home
  /\ todo[u] = <<>>
  /\ loop = Nothing
  /\ asked < setup.calls
  /\ asked' = asked + 1
  /\ job' = [job EXCEPT ![u] = [op |-> op, tid |-> tid, on |-> Nothing]]
  /\ todo' = [todo EXCEPT ![u] = Program(op)]
  /\ rd' = [rd EXCEPT ![u] = Nothing]
  /\ answer' = [answer EXCEPT ![u] = NoAnswer]
  /\ UNCHANGED <<setup, storeVars, faults, walk, loop>>

(* The managers' conn is always that of the caller's thread. *)
AskSome(u) ==
  \E op \in setup.ops \cap (DOMAIN Kind \cup DOMAIN Common), t \in Threads :
    /\ u \in DOMAIN setup.home
    /\ t = setup.home[u] \/ (setup.foreign /\ ~(setup.kind \in Managers /\ op = "get"))
    /\ Ask(u, op, t)

(***************************************************************************)
(* The steps                                                               *)
(***************************************************************************)
Keys == {t \in Threads : \E i \in DOMAIN order : order[i] = t}

(* _get_threadstore creates the thread's store. *)
Touch(t) == order' = IF t \in Keys THEN order ELSE Append(order, t)

(* get: `if rd is None` *)
Lookup(u) ==
  /\ At(u, "lookup")
  /\ UNCHANGED <<conns, made, open, given, faults, walk>>
  /\ Touch(job[u].tid)
  /\ Holds(u, conns[job[u].tid])
  /\ IF conns[job[u].tid] # Nothing THEN Skip(u, 2) ELSE Go(u)

Connect(u) ==
  /\ At(u, "connect")
  /\ UNCHANGED <<order, conns, faults, walk>>
  /\ made' = made + 1
  /\ open' = open \cup {made + 1}
  /\ Holds(u, made + 1)
  /\ given' = IF Len(todo[u]) = 1 THEN given \cup {made + 1} ELSE given
  /\ Go(u)

ConnectFails(u) ==
  /\ At(u, "connect")
  /\ faults < MaxFaults
  /\ faults' = faults + 1
  /\ Raise(u)
  /\ UNCHANGED <<storeVars, rd>>

(* _set_threadstore *)
StoreUntouched(u) ==
  /\ At(u, "store")
  /\ UNCHANGED <<order, made, open, given, faults, rd, walk>>
  /\ conns' = [conns EXCEPT ![job[u].tid] = rd[u]]
  /\ Go(u)
Store(u) ==
  /\ At(u, "store")
  /\ UNCHANGED <<made, open, given, faults, rd, walk>>
  /\ Touch(job[u].tid)
  /\ conns' = [conns EXCEPT ![job[u].tid] = rd[u]]
  /\ Go(u)

Promise(u) ==
  /\ At(u, "promise")
  /\ UNCHANGED <<made, open, given, faults, rd, walk>>
  /\ Touch(job[u].tid)
  /\ conns' = [conns EXCEPT ![job[u].tid] = Coroutine]
  /\ Go(u)

(* close: nothing to do unless there is an entry. *)
Seek(u) ==
  /\ At(u, "seek")
  /\ UNCHANGED <<conns, made, open, given, faults, walk>>
  /\ Touch(job[u].tid)
  /\ Holds(u, conns[job[u].tid])
  /\ IF conns[job[u].tid] = Nothing THEN Skip(u, 2) ELSE Go(u)

Own(u) ==
  /\ At(u, "own")
  /\ UNCHANGED <<conns, made, open, given, faults, walk>>
  /\ Touch(setup.home[u])
  /\ Holds(u, conns[setup.home[u]])
  /\ IF conns[setup.home[u]] = Nothing THEN Skip(u, 1) ELSE Go(u)

(* A connection is closed.  A coroutine has a close() too, but its result  *)
(* cannot be awaited: TypeError, which close_all logs.                     *)
Shut(u) ==
  /\ At(u, "shut")
  /\ UNCHANGED <<order, conns, made, given, faults, rd>>
  /\ open' = open \ {rd[u]}
  /\ IF rd[u] = Coroutine /\ walk[u] = Nothing
     THEN Raise(u)
     ELSE UNCHANGED walk /\ Go(u)

(* clean_threadstore with a name: whatever the entry is by now. *)
DeleteNothing(u) ==
  /\ At(u, "delete")
  /\ UNCHANGED <<order, conns, made, open, given, faults, rd, walk>>
  /\ Go(u)
DeleteEverywhere(u) ==
  /\ At(u, "delete")
  /\ UNCHANGED <<order, made, open, given, faults, rd, walk>>
  /\ conns' = [t \in Threads |-> Nothing]
  /\ Go(u)
Delete(u) ==
  /\ At(u, "delete")
  /\ UNCHANGED <<order, made, open, given, faults, rd, walk>>
  /\ conns' = [conns EXCEPT ![job[u].tid] = Nothing]
  /\ Go(u)

(* clean_threadstore of a thread. *)
DropThread(u) ==
  /\ At(u, "drop")
  /\ UNCHANGED <<made, open, given, faults, rd, walk>>
  /\ order' = [i \in DOMAIN order |-> IF order[i] = job[u].tid THEN Nothing ELSE order[i]]
  /\ conns' = [conns EXCEPT ![job[u].tid] = Nothing]
  /\ Go(u)

(* The threads from position i on that have an entry. *)
Ahead(i) == {j \in i..Len(order) : order[j] # Nothing /\ conns[order[j]] # Nothing}
First(S) == CHOOSE j \in S : \A k \in S : j <= k

(* An iteration over the stores: it raises when their number has changed   *)
(* since it began, ends behind the last, or comes to the next entry.       *)
Place(u) == IF walk[u] = Nothing THEN [at |-> 1, size |-> Cardinality(Keys)] ELSE walk[u]
Unchanged(u) == Place(u).size = Cardinality(Keys)
Visited(u) == First(Ahead(Place(u).at))

IterationEnds(u) ==
  /\ UNCHANGED <<conns, rd>>
  /\ \/ ~Unchanged(u) /\ Raise(u)
     \/ Unchanged(u) /\ Ahead(Place(u).at) = {} /\ Go(u) /\ walk' = [walk EXCEPT ![u] = Nothing]
NextEntry(u) ==
  /\ Unchanged(u) /\ Ahead(Place(u).at) # {}
  /\ walk' = [walk EXCEPT ![u] = [at |-> Visited(u) + 1, size |-> Place(u).size]]

(* close_all goes over the threads that have a connection and closes it.   *)
Walk(u) ==
  /\ At(u, "walk")
  /\ UNCHANGED <<order, made, open, given, faults>>
  /\ \/ IterationEnds(u)
     \/ /\ NextEntry(u)
        /\ Holds(u, conns[order[Visited(u)]]) /\ UNCHANGED conns
        /\ Continue(u, <<"shut">> \o todo[u])

(* clean_threadstore(name, clean_all=True) goes over them once more.       *)
Clears(u) ==
  \/ IterationEnds(u)
  \/ /\ NextEntry(u)
     /\ conns' = [conns EXCEPT ![order[Visited(u)]] = Nothing] /\ UNCHANGED rd
     /\ Continue(u, todo[u])
SweepThreads(u) ==
  /\ At(u, "sweep")
  /\ UNCHANGED <<made, open, given, faults>>
  /\ Clears(u)
  /\ order' = [i \in DOMAIN order |-> IF i \in Ahead(1) THEN Nothing ELSE order[i]]
Sweep(u) ==
  /\ At(u, "sweep")
  /\ UNCHANGED <<order, made, open, given, faults>>
  /\ Clears(u)

(* clean_threadstore(clean_all=True) deletes from the dict it iterates     *)
(* over: the first entry goes, then RuntimeError.                          *)
Purge(u) ==
  /\ At(u, "purge")
  /\ UNCHANGED <<order, made, open, given, faults, rd>>
  /\ IF Ahead(1) = {}
     THEN Go(u) /\ UNCHANGED <<conns, walk>>
     ELSE Raise(u) /\ conns' = [conns EXCEPT ![order[First(Ahead(1))]] = Nothing]

StoreStep(u) ==
  /\ \/ Lookup(u) \/ Connect(u) \/ ConnectFails(u) \/ Store(u) \/ Promise(u) \/ Seek(u)
     \/ Own(u) \/ Shut(u) \/ Delete(u) \/ DropThread(u) \/ Walk(u) \/ Sweep(u) \/ Purge(u)
  /\ UNCHANGED <<setup, asked, job>>

=============================================================================
