----------------------------- MODULE CacheCalls -----------------------------
(***************************************************************************)
(* What the cache adapters share: the callers (threads, tasks or           *)
(* processes that use one store), the call each is in and where it stands, *)
(* and the methods of CacheAdapter built on get and set: get_or_set, and   *)
(* the functions memoised by r_cache and r_cache_async.                    *)
(*                                                                         *)
(* An adapter's method runs get, set or remove for the caller, then goes   *)
(* on as the outermost call asks (Hit, Miss, Wrote).                       *)
(***************************************************************************)
EXTENDS Integers, Sequences, FiniteSets

CONSTANTS
  Users, Keys, Nothing,
  Setups,       \* [kind, crew, keys, calls, old]: an adapter, who uses it, on which
                \* keys, how often, and whether an earlier call has left entries
  Timeouts,     \* the timeouts callers pass, in seconds; Unset is None
  MaxNow,       \* bound of the clock
  PurgeEvery    \* SqliteCache's purge_every

Kinds == {"memory", "async_memory", "sqlite", "async_sqlite",
          "redis", "async_redis", "memcached", "async_memcached"}

VARIABLES
  setup,    \* the chosen setup: it never changes
  now,      \* seconds
  store,    \* what the back end holds: an entry of each key, or Nothing
  purged,   \* when the rows that had expired were last purged; 0 is None
  asks,     \* number of calls so far; it numbers the calls and their values
  call,     \* the call each user is in, or Nothing
  pc,       \* the step it takes next
  held,     \* the entry it has read
  plan,     \* what it has found out for a write: [exists, until]
  answer    \* the answer to its last call, or Nothing

vars == <<setup, now, store, purged, asks, call, pc, held, plan, answer>>

(* The abstract call is over when the value is stored: MemoryCache.set     *)
(* looks its entry up once more, to return it.                             *)
Over(u) == pc[u] = "echo"

Asked == [u \in Users |-> IF Over(u) THEN Nothing ELSE call[u]]
Answered ==
  [u \in Users |-> IF ~Over(u) THEN answer[u]
                   ELSE IF call[u].op = "set" THEN [result |-> "stored"]
                   ELSE [result |-> "value", value |-> held[u].value]]

Abs == INSTANCE ExpiringCache WITH
         clock <- now, entries <- store, asked <- Asked, answered <- Answered

Never == 0      \* the deadline of an entry that does not expire
Unset == -1     \* the timeout None

ASSUME CallsAssumption ==
  /\ \A s \in Setups :
       /\ s.kind \in Kinds
       /\ s.crew \subseteq Users
       /\ IsFiniteSet(s.crew)
       /\ s.keys \subseteq Keys
       /\ s.calls \in Nat
       /\ s.old \in SUBSET s.keys
  /\ Timeouts \subseteq Nat \cup {Unset}
  /\ MaxNow \in Nat \ {0}
  /\ PurgeEvery \in Nat

(* A call as it is asked, and what it becomes while it runs. *)
Calls ==
  [op : Abs!Ops, keys : Seq(Keys) \ {<<>>}, timeout : Nat \cup {Unset}, id : Nat \ {0},
   since : Nat, missed : BOOLEAN, all : BOOLEAN]

(* Nothing is none of the things it stands for the absence of. *)
ASSUME NothingAssumption == Nothing \notin Calls \cup [value : Nat, until : Nat]

NoPlan == [exists |-> FALSE, until |-> Never]

Init ==
  /\ setup \in Setups
  /\ now = 1
  /\ store = [k \in Keys |-> IF k \in setup.old THEN [value |-> 1, until |-> 2] ELSE Nothing]
  /\ purged = 0
  /\ asks = IF setup.old = {} THEN 0 ELSE 1
  /\ call = [u \in Users |-> Nothing]
  /\ pc = [u \in Users |-> "idle"]
  /\ held = [u \in Users |-> Nothing]
  /\ plan = [u \in Users |-> NoPlan]
  /\ answer = [u \in Users |-> Nothing]

Op(u) == call[u].op
Key(u) == Head(call[u].keys)

(***************************************************************************)
(* Control: where a call goes next.                                        *)
(***************************************************************************)
Goto(u, label) ==
  /\ pc' = [pc EXCEPT ![u] = label]
  /\ UNCHANGED <<call, answer>>

(* The call returns or raises; what it held is dropped. *)
Answer(u, r) ==
  /\ pc' = [pc EXCEPT ![u] = "idle"]
  /\ call' = [call EXCEPT ![u] = Nothing]
  /\ answer' = [answer EXCEPT ![u] = r]

Forgets(u) ==
  /\ held' = [held EXCEPT ![u] = Nothing]
  /\ plan' = [plan EXCEPT ![u] = NoPlan]

Raise(u) == Answer(u, Abs!Raised) /\ Forgets(u)

(* get has found nothing, or what has expired: get_or_set and the memoised *)
(* function compute the value and set it.                                  *)
Miss(u) ==
  IF Op(u) \in {"get", "update_timeout"}
  THEN Answer(u, Abs!NotFound)
  ELSE /\ pc' = [pc EXCEPT ![u] = "compute"]
       /\ call' = [call EXCEPT ![u].missed = TRUE]
       /\ UNCHANGED answer

(* get has found a value. *)
Hit(u, v) ==
  CASE Op(u) \in {"get", "get_or_set"} -> Answer(u, Abs!Found(v))
    [] Op(u) = "memo" /\ v # 0          -> Answer(u, Abs!Found(v))
    [] Op(u) = "memo" /\ v = 0          -> Miss(u)
    [] Op(u) = "bypass"                 -> Goto(u, "compute")
    [] Op(u) = "update_timeout"         -> Goto(u, "set")

(* remove is done with a key; it goes on with the next. *)
NextKey(u, there) ==
  IF Len(call[u].keys) = 1
  THEN Answer(u, Abs!Removed(call[u].all /\ there))
  ELSE /\ call' = [call EXCEPT ![u].keys = Tail(@), ![u].all = @ /\ there]
       /\ pc' = [pc EXCEPT ![u] = "find"]
       /\ UNCHANGED answer

(* The value that a call sets: its own, the one update_timeout has read,   *)
(* or the result of the function.                                          *)
NewValue(u) == IF Op(u) = "set" THEN call[u].id ELSE held[u].value

Wrote(u) ==
  Answer(u, IF Op(u) = "set" THEN Abs!Stored ELSE Abs!Found(held[u].value))

(***************************************************************************)
(* The caller asks.  get_or_set and update_timeout begin with              *)
(* int(timeout), and so does MemoryCache.set: None raises TypeError there. *)
(***************************************************************************)
IntFirst(op) ==
  \/ op \in {"get_or_set", "update_timeout"}
  \/ op = "set" /\ setup.kind \in {"memory", "async_memory"}

Ask(u, op, ks, t) ==
  /\ u \in setup.crew
  /\ pc[u] = "idle"
  /\ asks < setup.calls
  /\ asks' = asks + 1
  /\ call' = [call EXCEPT ![u] = [op |-> op, keys |-> ks, timeout |-> t, id |-> asks + 1,
                                  since |-> now, missed |-> FALSE, all |-> TRUE]]
  /\ pc' = [pc EXCEPT ![u] = IF t = Unset /\ IntFirst(op) THEN "refuse" ELSE "start"]
  /\ answer' = [answer EXCEPT ![u] = Nothing]
  /\ UNCHANGED <<setup, now, store, purged, held, plan>>

Refuse(u) ==
  /\ pc[u] = "refuse"
  /\ Raise(u)
  /\ UNCHANGED <<setup, now, store, purged, asks>>

AskSome(u) ==
  \E k \in setup.keys :
    \/ \E op \in {"set", "get_or_set", "memo", "bypass", "update_timeout"}, t \in Timeouts :
         Ask(u, op, <<k>>, t)
    \/ Ask(u, "get", <<k>>, 1)
    \/ Ask(u, "remove", <<k>>, 1)
    \/ \E j \in setup.keys \ {k} : Ask(u, "remove", <<k, j>>, 1)

(* The function runs (or the coroutine is awaited, or the value is plain): *)
(* it yields the call's value or, memoised, a result that counts as empty, *)
(* or it raises and nothing is stored.  get_or_set_async calls a coroutine *)
(* function twice, and the value is the second coroutine, not awaited: one *)
(* that MemoryCache stores, and whose pickling raises.                     *)
Compute(u) ==
  /\ pc[u] = "compute"
  /\ \/ /\ \E v \in {call[u].id} \cup (IF Op(u) = "get_or_set" THEN {} ELSE {0}) :
             held' = [held EXCEPT ![u] = [value |-> v, until |-> Never]]
        /\ Goto(u, "set")
        /\ UNCHANGED plan
     \/ Raise(u)
  /\ UNCHANGED <<setup, now, store, purged, asks>>

Tick ==
  /\ now < MaxNow
  /\ now' = now + 1
  /\ UNCHANGED <<setup, store, purged, asks, call, pc, held, plan, answer>>

(***************************************************************************)
(* Types, and what holds of every adapter.                                 *)
(***************************************************************************)
Entry == [value : 0..asks, until : Nat]

\* Types; a call is remembered exactly while it runs, and no purge is of the future.
TypeOK ==
  /\ setup \in Setups
  /\ now \in 1..MaxNow
  /\ store \in [Keys -> Entry \cup {Nothing}]
  /\ purged \in 0..now
  /\ \A u \in Users : (call[u] = Nothing) <=> (pc[u] = "idle")
  /\ held \in [Users -> Entry \cup {Nothing}]
  /\ plan \in [Users -> [exists : BOOLEAN, until : Nat]]

=============================================================================
