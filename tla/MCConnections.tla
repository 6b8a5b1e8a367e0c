---------------------------- MODULE MCConnections ----------------------------
EXTENDS CacheContexts, TLC

CONSTANTS u1, u2, t1, t2

MCUsers == {u1, u2}
MCThreads == {t1, t2}

Lone1 == u1 :> t1
TwoThreads == u1 :> t1 @@ u2 :> t2
TwoTasks == u1 :> t1 @@ u2 :> t1

S(kinds, home, ops, calls, foreign) ==
  {[kind |-> k, home |-> home, ops |-> ops, calls |-> calls, foreign |-> foreign] : k \in kinds}

StoreOps == {"get", "new", "close", "close_all", "reset", "configure"}

MCSetups ==
  \* one caller, every call on the store
  S(Sync \cup Async, Lone1, StoreOps \cup Cleans, 3, TRUE)
  \* two threads that keep to themselves
  \cup S({"redis", "geoip", "sqlite"}, TwoThreads, StoreOps \ {"close_all"}, 4, FALSE)
  \* two threads that name each other's store, and close_all
  \cup S({"redis", "sqlite"}, TwoThreads, {"get", "close", "close_all", "clean_thread"}, 3, TRUE)
  \* two tasks
  \cup S(Async, TwoTasks, {"get", "new", "close", "close_all"}, 3, FALSE)
  \* one caller of an adapter and of the wrapper
  \cup S(Wrapped, Lone1, {"enter", "exit", "call"}, 4, FALSE)
  \cup S(Wrapped, Lone1, {"use", "memo", "close_adapter", "reconnect", "enter", "exit"}, 3, FALSE)
  \cup S(Wrapped, Lone1, Swaps \cup {"enter", "exit", "call"}, 3, FALSE)
  \* two tasks with one adapter
  \cup S(Wrapped \cap Async, TwoTasks, {"enter", "exit"}, 4, FALSE)
  \cup S(Wrapped \cap Async, TwoTasks, {"memo"}, 3, FALSE)
  \cup S(Wrapped \cap Async, TwoTasks, {"module_call", "call"}, 2, FALSE)

=============================================================================
