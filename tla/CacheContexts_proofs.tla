------------------------ MODULE CacheContexts_proofs ------------------------
(***************************************************************************)
(* What the blocks of the cache wrapper leave behind, for any number of    *)
(* layers, adapters, threads and calls, and how the layers fit the blocks: *)
(* LeftBlocksHoldNothing and LayersFitBlocks of CacheContexts; and that no *)
(* connection is left in the store once it is closed: StoredIsOpen.        *)
(*                                                                         *)
(* A lone caller who enters and leaves blocks and calls methods runs       *)
(* programs of one form (Tidy): they end where a block is entered, left,   *)
(* or the adapter's own block has been closed, and the wrapper's adapter   *)
(* is set, and a block counted, once in each.  The invariant, LeftInv,     *)
(* says of each place in such a program which adapter may have a           *)
(* connection (AdapterLeft), what the steps that close have left           *)
(* (PlaceLeft), how the layers stand to the blocks (LayersLeft), and that  *)
(* nothing is open when the last block has been left (RestLeft).  The last *)
(* follows from ConnectionsStayInReach: what is open is in the store or an *)
(* adapter, and by then neither has anything.                              *)
(*                                                                         *)
(* LayersFitBlocks speaks of tasks too.  Its invariant, FitInv, counts the *)
(* blocks that callers are in, with the one that is being entered and the  *)
(* one that is about to be left (Insides): their number is what the        *)
(* adapter's context has counted (Counted).  The layers are as many, up to *)
(* max_layers, but for the one caller who is entering or leaving the       *)
(* object itself, of whose block the layer is not yet, or still, counted   *)
(* (Layered).  While an adapter is being made no other task runs           *)
(* (PendingFit), so there is one adapter around which all is counted.      *)
(*                                                                         *)
(* StoredIsOpen speaks of any callers.  Its invariant, StoredInv: what is  *)
(* closed and stored has a caller at a step behind which the deletion of   *)
(* that thread's entry comes (Tends), or one that still goes over all of   *)
(* them and has left nothing in those it has passed (Sweeping).  For that  *)
(* a connection must be stored in one thread only, and be in the hands of  *)
(* none but the calls on that thread (Unique, HoldStored, AttrStored):     *)
(* else somebody could close it whose call deletes another entry.  A step  *)
(* of a call other than close_all does to the others only what Mild says,  *)
(* and leaves to them what they have to delete (Onward).                   *)
(***************************************************************************)
EXTENDS Connections_proofs, FiniteSetTheorems

-----------------------------------------------------------------------------
(* What blocks leave behind *)
\* The setups that LeftBlocksHoldNothing speaks of.
OnlyBlocks == Lone /\ setup.kind \in Sync /\ setup.ops \subseteq {"enter", "exit", "call"}

\* What is left of a program of the wrapper: where it ends, what it never has, and what it has once.
Odd == {"share", "unset", "shared", "have_pool", "keep_pool", "await_pool", "clear_pool"}
Single == {"install", "virt_enter", "virt_exit"}
Neat(s) ==
  \A i \in 1..Len(s) :
    /\ s[i] \notin Odd
    /\ i > 1 /\ s[i] = "exited" => s[i - 1] = "delete"
    /\ i > 1 /\ s[i] = "make" => s[i - 1] = "get_adapter"
    /\ s[i] \in Single => \A j \in 1..Len(s) : s[j] = s[i] => j = i
LastOf(op) == CASE op = "enter" -> "entered" [] op = "exit" -> "exited" [] OTHER -> "delete"
Tidy(op, s) == s[Len(s)] = LastOf(op) /\ Neat(s)

\* Which adapter has a connection, and which one a call is on.
AdapterLeft(u) ==
  /\ \A a \in Adapters : attr[a] # Nothing =>
       a = instance \/ (Says(u, "install") /\ todo[u][1] \notin Searches /\ a = job[u].on)
  /\ Says(u, "install") => todo[u][1] = "get_adapter" \/ instance = Nothing
  /\ todo[u] # <<>> /\ ~Says(u, "install") => job[u].on = instance

\* What is behind the steps that make a connection, and what those that close have left.
PlaceLeft(u) ==
  /\ (\E w \in {"seek", "shut", "delete", "exited"} : Is(todo[u], 1, w)) => attr[job[u].on] = Nothing
  /\ Is(todo[u], 1, "exited") => conns[job[u].tid] = Nothing
  /\ Is(todo[u], 1, "make") => Says(u, "install")
  /\ Is(todo[u], 1, "lookup") => setup.kind = "redis" /\ Is(todo[u], 4, "keep_attr")
  /\ Is(todo[u], 1, "store") => setup.kind = "redis" /\ Is(todo[u], 2, "keep_attr")
  /\ Is(todo[u], 1, "connect") =>
       IF setup.kind = "redis" THEN Is(todo[u], 2, "store") /\ Is(todo[u], 3, "keep_attr")
       ELSE Is(todo[u], 2, "keep_attr")

\* The layers there are while a block is entered or left.
Tracked == IF tracked = Nothing THEN NoLayers ELSE tracker[tracked]
LayersLeft(u) ==
  disturbed = 0 =>
    LET d == depth[u]
    IN  IF todo[u] # <<>> /\ job[u].op = "enter" /\ ~Says(u, "virt_enter")
        THEN Tracked.virtual = d + 1 /\ Tracked.layer = d /\ LayersOf(d + 1) = d + 1
        ELSE IF todo[u] # <<>> /\ job[u].op = "exit"
        THEN IF Says(u, "virt_exit") THEN Tracked.virtual = d + 1 /\ Tracked.layer = LayersOf(d + 1)
             ELSE Tracked.virtual = d /\ Tracked.layer = d + 1 /\ LayersOf(d + 1) = d + 1
        ELSE Tracked.virtual = d /\ Tracked.layer = LayersOf(d)

RestLeft(u) == todo[u] = <<>> /\ disturbed = 0 /\ depth[u] = 0 => open = {}

EntriesLeft ==
  \A t \in Threads : conns[t] # Nothing => setup.kind = "redis" /\ \E u \in Crew : t = setup.home[u]
LeftOf(u) ==
  /\ todo[u] # <<>> => InCtx(u) /\ Tidy(job[u].op, todo[u])
  /\ AdapterLeft(u) /\ PlaceLeft(u) /\ LayersLeft(u) /\ RestLeft(u)
LeftCalm ==
  /\ given = {} /\ instance = tracked /\ disturbed \in Nat /\ EntriesLeft
  /\ \A u \in Users \ Crew : depth[u] = 0
  /\ \A u \in Crew : LeftOf(u)
LeftInv == OnlyBlocks => LeftCalm

-----------------------------------------------------------------------------
\* Neat lists one after the other.
LEMMA NeatJoin ==
  ASSUME NEW s \in Seq(Words), NEW t \in Seq(Words), s # <<>>, t # <<>>, Neat(s), Neat(t),
         t[1] = "exited" => s[Len(s)] = "delete", t[1] = "make" => s[Len(s)] = "get_adapter",
         \A i \in 1..Len(s), j \in 1..Len(t) : s[i] \in Single => t[j] # s[i]
  PROVE  Neat(s \o t) /\ (s \o t)[1] = s[1] /\ (s \o t)[Len(s \o t)] = t[Len(t)] /\ s \o t \in Seq(Words) /\ s \o t # <<>>
<1> DEFINE m == Len(s)
           n == Len(t)
           r == s \o t
<1>1. /\ m \in Nat \ {0} /\ n \in Nat \ {0} /\ Len(r) = m + n /\ r \in Seq(Words)
      /\ \A i \in 1..m : r[i] = s[i]
      /\ \A i \in 1..n : r[m + i] = t[i]
  OBVIOUS
<1>2. \A i \in 1..m + n : i \in 1..m \/ (i - m \in 1..n /\ r[i] = t[i - m] /\ i > m)
  BY <1>1
<1>3. ASSUME NEW i \in 1..m + n, i \in 1..m
      PROVE  /\ r[i] \notin Odd /\ (i > 1 /\ r[i] = "exited" => r[i - 1] = "delete")
             /\ i > 1 /\ r[i] = "make" => r[i - 1] = "get_adapter"
             /\ r[i] \in Single => \A j \in 1..m + n : r[j] = r[i] => j = i
  <2>1. r[i] = s[i] /\ (i > 1 => r[i - 1] = s[i - 1])
    BY <1>1, <1>3
  <2>2. ASSUME r[i] \in Single, NEW j \in 1..m + n, r[j] = r[i]
        PROVE  j = i
    <3>1. CASE j \in 1..m
      BY <1>1, <1>3, <2>1, <2>2, <3>1 DEF Neat
    <3>2. CASE ~(j \in 1..m)
      BY <1>2, <1>3, <2>1, <2>2, <3>2
    <3> QED BY <3>1, <3>2
  <2> QED BY <1>3, <2>1, <2>2 DEF Neat
<1>4. ASSUME NEW i \in 1..m + n, ~(i \in 1..m)
      PROVE  /\ r[i] \notin Odd /\ (i > 1 /\ r[i] = "exited" => r[i - 1] = "delete")
             /\ i > 1 /\ r[i] = "make" => r[i - 1] = "get_adapter"
             /\ r[i] \in Single => \A j \in 1..m + n : r[j] = r[i] => j = i
  <2> DEFINE k == i - m
  <2>1. k \in 1..n /\ r[i] = t[k] /\ i > 1
    BY <1>1, <1>2, <1>4
  <2>2. k > 1 => k - 1 \in 1..n /\ m + (k - 1) = i - 1 /\ r[i - 1] = t[k - 1]
    <3>1. k > 1 => k - 1 \in 1..n /\ m + (k - 1) = i - 1
      BY <1>1, <2>1
    <3> QED BY <1>1, <3>1
  <2>3. k = 1 => r[i - 1] = s[m]
    BY <1>1, <2>1
  <2>4. k > 1 \/ k = 1
    BY <2>1
  <2>5. ASSUME r[i] \in Single, NEW j \in 1..m + n, r[j] = r[i]
        PROVE  j = i
    <3>1. CASE j \in 1..m
      BY <1>1, <2>1, <2>5, <3>1
    <3>2. CASE ~(j \in 1..m)
      <4>1. j - m \in 1..n /\ r[j] = t[j - m]
        BY <1>2, <3>2
      <4>2. j - m = k
        BY <2>1, <2>5, <4>1 DEF Neat
      <4> QED BY <1>1, <4>2
    <3> QED BY <3>1, <3>2
  <2>6. /\ t[k] \notin Odd /\ (k > 1 /\ t[k] = "exited" => t[k - 1] = "delete")
        /\ k > 1 /\ t[k] = "make" => t[k - 1] = "get_adapter"
    BY <2>1 DEF Neat
  <2>7. (r[i] = "exited" => r[i - 1] = "delete") /\ (r[i] = "make" => r[i - 1] = "get_adapter")
    BY <2>1, <2>2, <2>3, <2>4, <2>6
  <2> QED BY <2>1, <2>5, <2>6, <2>7
<1>5. Neat(r)
  BY <1>1, <1>3, <1>4 DEF Neat
<1> QED
  BY <1>1, <1>5

\* What lists of plain steps have nothing of.
LEMMA NeatWords ==
  ASSUME NEW s \in Seq(Words), \A i \in 1..Len(s) : s[i] \in Words \ (Odd \cup Single \cup {"exited", "make"})
  PROVE  Neat(s)
BY DEF Neat, Odd, Single

\* A single step.
LEMMA NeatOne ==
  ASSUME NEW a \in Words \ Odd
  PROVE  Neat(<<a>>) /\ <<a>> \in Seq(Words) /\ <<a>> # <<>> /\ Len(<<a>>) = 1 /\ <<a>>[1] = a
BY DEF Neat

\* What a wrapper on a synchronous server does with its adapter.
SyncWords == {"have_attr", "lookup", "connect", "store", "keep_attr", "shut_attr", "clear_attr", "seek", "shut", "delete",
              "command"}

\* Those of the adapter's own programs that the wrapper's are made of.
LEMMA PlainNeat ==
  ASSUME setup.kind \in Wrapped \cap Sync
  PROVE  \A s \in {Enter, Use, Exit} :
           /\ s \in Seq(Words) /\ s # <<>> /\ Neat(s)
           /\ \A i \in 1..Len(s) : s[i] \in SyncWords
<1>1. /\ connect = <<"have_attr", "lookup", "connect", "store", "keep_attr">> \/ connect = <<"have_attr", "connect", "keep_attr">>
      /\ close = <<"shut_attr", "clear_attr", "seek", "shut", "delete">>
  <2>1. setup.kind = "redis" \/ setup.kind = "memcached"
    BY DEF Wrapped, Sync
  <2> QED BY <2>1, Written DEF connect, close, MemcachedConnect
<1>2. connect \in Seq(SyncWords) /\ close \in Seq(SyncWords)
  <2>1. <<"have_attr", "lookup", "connect", "store", "keep_attr">> \in Seq(SyncWords)
    BY DEF SyncWords
  <2>2. <<"have_attr", "connect", "keep_attr">> \in Seq(SyncWords)
    BY DEF SyncWords
  <2>3. <<"shut_attr", "clear_attr", "seek", "shut", "delete">> \in Seq(SyncWords)
    BY DEF SyncWords
  <2> QED BY <1>1, <2>1, <2>2, <2>3
<1>3. <<"command">> \in Seq(SyncWords)
  BY DEF SyncWords
<1>4. Enter = close \o connect /\ Use = connect \o <<"command">> /\ Exit = close
  BY DEF Enter, Use, Exit, adapter_enter, adapter_exit, reconnect, Sync
<1>5. Enter \in Seq(SyncWords) /\ Use \in Seq(SyncWords) /\ Exit \in Seq(SyncWords)
  BY <1>2, <1>3, <1>4
<1>6. Enter # <<>> /\ Use # <<>> /\ Exit # <<>>
  BY PlainBlocks, BlocksAre
<1>7. SyncWords \subseteq Words \ (Odd \cup Single \cup {"exited", "make"})
  BY DEF SyncWords, Words, CtxSteps, Odd, Single
<1>8. ASSUME NEW s \in Seq(SyncWords)
      PROVE  s \in Seq(Words) /\ Neat(s) /\ \A i \in 1..Len(s) : s[i] \in SyncWords
  <2>1. s \in Seq(Words) /\ \A i \in 1..Len(s) : s[i] \in SyncWords
    BY <1>7
  <2> QED BY <1>7, <2>1, NeatWords
<1> QED
  BY <1>5, <1>6, <1>8

\* A neat list of some words, and two of them one after the other.
Kit(s, W) == s \in Seq(Words) /\ s # <<>> /\ Neat(s) /\ \A i \in 1..Len(s) : s[i] \in W

\* The words of two lists are those of both; what a list may have once is in one of them.
LEMMA KitJoin ==
  ASSUME NEW s, NEW t, NEW V, NEW W, Kit(s, V), Kit(t, W), V \cap W \cap Single = {},
         t[1] = "exited" => s[Len(s)] = "delete", t[1] = "make" => s[Len(s)] = "get_adapter"
  PROVE  Kit(s \o t, V \cup W) /\ (s \o t)[1] = s[1] /\ (s \o t)[Len(s \o t)] = t[Len(t)]
<1>1. s \in Seq(Words) /\ t \in Seq(Words) /\ s # <<>> /\ t # <<>> /\ Neat(s) /\ Neat(t)
  BY DEF Kit
<1>2. \A i \in 1..Len(s), j \in 1..Len(t) : s[i] \in Single => t[j] # s[i]
  BY DEF Kit
<1>3. Neat(s \o t) /\ (s \o t)[1] = s[1] /\ (s \o t)[Len(s \o t)] = t[Len(t)] /\ s \o t \in Seq(Words) /\ s \o t # <<>>
  BY <1>1, <1>2, NeatJoin
<1>4. ASSUME NEW i \in 1..Len(s \o t)
      PROVE  (s \o t)[i] \in V \cup W
  <2>1. Len(s) \in Nat /\ Len(t) \in Nat /\ i \in 1..Len(s) + Len(t)
    BY <1>1
  <2>2. CASE i \in 1..Len(s)
    <3>1. (s \o t)[i] = s[i]
      BY <1>1, <2>2
    <3> QED BY <2>2, <3>1 DEF Kit
  <2>3. CASE ~(i \in 1..Len(s))
    <3>1. i - Len(s) \in 1..Len(t) /\ (s \o t)[i] = t[i - Len(s)]
      BY <1>1, <2>1, <2>3
    <3> QED BY <3>1 DEF Kit
  <2> QED BY <2>2, <2>3
<1> QED
  BY <1>3, <1>4 DEF Kit

\* A step of its own.
LEMMA KitOne ==
  ASSUME NEW a \in Words \ Odd
  PROVE  Kit(<<a>>, {a}) /\ <<a>>[1] = a /\ <<a>>[Len(<<a>>)] = a
<1>1. Neat(<<a>>) /\ <<a>> \in Seq(Words) /\ <<a>> # <<>> /\ Len(<<a>>) = 1 /\ <<a>>[1] = a
  BY NeatOne
<1>2. \A i \in 1..1 : <<a>>[i] = a
  BY <1>1
<1> QED
  BY <1>1, <1>2 DEF Kit

\* The steps that find or make the wrapper's adapter.
FindWords == {"get_adapter", "make", "install"} \cup SyncWords
\* get_adapter of the wrapper is Neat, and ends with the adapter set.
LEMMA FindKit ==
  ASSUME setup.kind \in Wrapped \cap Sync
  PROVE  /\ Kit(get_adapter, FindWords)
         /\ get_adapter[1] = "get_adapter" /\ get_adapter[Len(get_adapter)] = "install"
<1> DEFINE V == {"make"} \cup SyncWords
<1>1. {"get_adapter", "make", "install"} \subseteq Words \ Odd
  BY DEF Words, CtxSteps, Odd
<1>2. Kit(Construct, V) /\ Construct[1] = "make"
  <2>1. CASE setup.kind = "redis"
    <3> DEFINE s == <<"make", "lookup", "connect", "store", "keep_attr">>
    <3>1. Construct = s
      BY <2>1, Written
    <3>2. /\ s \in Seq(Words) /\ Len(s) = 5 /\ s # <<>>
          /\ s[1] = "make" /\ s[2] = "lookup" /\ s[3] = "connect" /\ s[4] = "store" /\ s[5] = "keep_attr"
      BY DEF Words, CtxSteps
    <3> HIDE DEF s
    <3>3. \A i \in 1..5 : i = 1 \/ s[i] \in SyncWords
      BY <3>2 DEF SyncWords
    <3>4. \A i \in 1..5 : s[i] \in V /\ s[i] \notin Odd \cup Single \cup {"exited"} /\ (i > 1 => s[i] # "make")
      BY <3>2, <3>3 DEF SyncWords, Odd, Single
    <3>5. Neat(s)
      BY <3>2, <3>4 DEF Neat
    <3> QED BY <3>1, <3>2, <3>4, <3>5 DEF Kit
  <2>2. CASE setup.kind # "redis"
    <3>1. Construct = <<"make">>
      BY <2>2, Written
    <3> QED BY <1>1, <3>1, KitOne DEF Kit
  <2> QED BY <2>1, <2>2
<1>3. /\ Kit(<<"get_adapter">>, {"get_adapter"}) /\ Kit(<<"install">>, {"install"})
      /\ <<"get_adapter">>[1] = "get_adapter" /\ <<"get_adapter">>[Len(<<"get_adapter">>)] = "get_adapter"
      /\ <<"install">>[1] = "install" /\ <<"install">>[Len(<<"install">>)] = "install"
  BY <1>1, KitOne
<1> DEFINE g == <<"get_adapter">>
           k == <<"install">>
<1>4. /\ Kit(g, {"get_adapter"}) /\ g[1] = "get_adapter" /\ g[Len(g)] = "get_adapter"
      /\ Kit(k, {"install"}) /\ k[1] = "install" /\ k[Len(k)] = "install"
  BY <1>3
<1>5. get_adapter = (g \o Construct) \o k
  BY DEF get_adapter
<1> HIDE DEF g, k
<1>6. Kit(g \o Construct, {"get_adapter"} \cup V) /\ (g \o Construct)[1] = "get_adapter"
  <2>1. {"get_adapter"} \cap V \cap Single = {}
    BY DEF Single, SyncWords
  <2> QED BY <1>2, <1>4, <2>1, KitJoin
<1>7. Kit((g \o Construct) \o k, ({"get_adapter"} \cup V) \cup {"install"})
      /\ ((g \o Construct) \o k)[1] = "get_adapter" /\ ((g \o Construct) \o k)[Len((g \o Construct) \o k)] = "install"
  <2>1. ({"get_adapter"} \cup V) \cap {"install"} \cap Single = {}
    BY DEF Single, SyncWords
  <2> QED BY <1>4, <1>6, <2>1, KitJoin
<1>8. ({"get_adapter"} \cup V) \cup {"install"} = FindWords
  BY DEF FindWords
<1> QED
  BY <1>5, <1>7, <1>8

\* What the wrapper's calls are made of.
LEMMA TidyPrograms ==
  ASSUME setup.kind \in Wrapped \cap Sync, NEW op \in {"enter", "exit", "call"}
  PROVE  /\ Tidy(op, CtxPrograms[op])
         /\ CtxPrograms[op][1] = IF op = "exit" THEN "virt_exit" ELSE "get_adapter"
         /\ op = "enter" => \E i \in 1..Len(CtxPrograms[op]) : CtxPrograms[op][i] = "virt_enter"
<1> DEFINE g == get_adapter
           ve == <<"virt_enter">>
           vx == <<"virt_exit">>
           en == <<"entered">>
           ex == <<"exited">>
<1>1. Kit(g, FindWords) /\ g[1] = "get_adapter" /\ g[Len(g)] = "install"
  BY FindKit
<1>2. Kit(Enter, SyncWords) /\ Kit(Use, SyncWords) /\ Kit(Exit, SyncWords)
  BY PlainNeat DEF Kit
<1>3. /\ Kit(ve, {"virt_enter"}) /\ ve[1] = "virt_enter" /\ ve[Len(ve)] = "virt_enter"
      /\ Kit(vx, {"virt_exit"}) /\ vx[1] = "virt_exit" /\ vx[Len(vx)] = "virt_exit"
      /\ Kit(en, {"entered"}) /\ en[1] = "entered" /\ en[Len(en)] = "entered"
      /\ Kit(ex, {"exited"}) /\ ex[1] = "exited" /\ ex[Len(ex)] = "exited"
  <2>1. {"virt_enter", "virt_exit", "entered", "exited"} \subseteq Words \ Odd
    BY DEF Words, CtxSteps, Odd
  <2> QED BY <2>1, KitOne
<1>4. /\ Enter[1] = "shut_attr" /\ Exit[1] = "shut_attr" /\ Use[1] \in Haves /\ Exit[Len(Exit)] = "delete"
  <2>1. Exit = close
    BY DEF Exit, adapter_exit, Sync
  <2> QED BY <2>1, PlainBlocks DEF Block
<1>5. /\ SyncWords \cap Single = {} /\ Enter[1] \notin {"exited", "make"} /\ Use[1] \notin {"exited", "make"}
      /\ Exit[1] \notin {"exited", "make"}
  BY <1>4 DEF SyncWords, Single, Haves
<1>6. /\ wrapper_call = ((g \o Enter) \o Use) \o Exit
      /\ wrapper_enter = ((g \o ve) \o Enter) \o en
      /\ wrapper_exit = (vx \o Exit) \o ex
  BY DEF wrapper_call, wrapper_enter, wrapper_exit
<1> HIDE DEF g, ve, vx, en, ex
<1>7. CASE op = "call"
  <2>1. CtxPrograms[op] = ((g \o Enter) \o Use) \o Exit
    BY <1>6, <1>7 DEF CtxPrograms
  <2>2. Kit(g \o Enter, FindWords \cup SyncWords) /\ (g \o Enter)[1] = "get_adapter"
    BY <1>1, <1>2, <1>5, KitJoin
  <2>3. Kit((g \o Enter) \o Use, (FindWords \cup SyncWords) \cup SyncWords) /\ ((g \o Enter) \o Use)[1] = "get_adapter"
    BY <1>2, <1>5, <2>2, KitJoin
  <2>4. /\ Kit(((g \o Enter) \o Use) \o Exit, ((FindWords \cup SyncWords) \cup SyncWords) \cup SyncWords)
        /\ (((g \o Enter) \o Use) \o Exit)[1] = "get_adapter"
        /\ (((g \o Enter) \o Use) \o Exit)[Len(((g \o Enter) \o Use) \o Exit)] = "delete"
    <3> DEFINE r == (g \o Enter) \o Use
               V == (FindWords \cup SyncWords) \cup SyncWords
    <3>1. Kit(r, V) /\ r[1] = "get_adapter" /\ V \cap SyncWords \cap Single = {}
      BY <1>5, <2>3
    <3> HIDE DEF r, V
    <3>2. Kit(r \o Exit, V \cup SyncWords) /\ (r \o Exit)[1] = "get_adapter" /\ (r \o Exit)[Len(r \o Exit)] = "delete"
      BY <1>2, <1>4, <1>5, <3>1, KitJoin
    <3> QED BY <3>2 DEF r, V
  <2> QED BY <1>7, <2>1, <2>4 DEF Kit, Tidy, LastOf
<1>8. CASE op = "enter"
  <2>1. CtxPrograms[op] = ((g \o ve) \o Enter) \o en
    BY <1>6, <1>8 DEF CtxPrograms
  <2>2. /\ FindWords \cap {"virt_enter"} \cap Single = {}
        /\ (FindWords \cup {"virt_enter"} \cup SyncWords) \cap {"entered"} \cap Single = {}
    BY DEF FindWords, SyncWords, Single
  <2>3. Kit(g \o ve, FindWords \cup {"virt_enter"}) /\ (g \o ve)[1] = "get_adapter" /\ (g \o ve)[Len(g \o ve)] = "virt_enter"
    BY <1>1, <1>3, <2>2, KitJoin
  <2>4. Kit((g \o ve) \o Enter, (FindWords \cup {"virt_enter"}) \cup SyncWords) /\ ((g \o ve) \o Enter)[1] = "get_adapter"
    BY <1>2, <1>5, <2>3, KitJoin
  <2>5. /\ Kit(((g \o ve) \o Enter) \o en, ((FindWords \cup {"virt_enter"}) \cup SyncWords) \cup {"entered"})
        /\ (((g \o ve) \o Enter) \o en)[1] = "get_adapter"
        /\ (((g \o ve) \o Enter) \o en)[Len(((g \o ve) \o Enter) \o en)] = "entered"
    BY <1>3, <2>2, <2>4, KitJoin
  <2>6. \E i \in 1..Len(((g \o ve) \o Enter) \o en) : (((g \o ve) \o Enter) \o en)[i] = "virt_enter"
    <3>1. /\ g \o ve \in Seq(Words) /\ g \o ve # <<>> /\ Enter \in Seq(Words) /\ en \in Seq(Words)
          /\ (g \o ve) \o Enter \in Seq(Words)
      BY <1>2, <1>3, <2>3, <2>4 DEF Kit
    <3> DEFINE i == Len(g \o ve)
    <3>2. i \in 1..Len((g \o ve) \o Enter) /\ ((g \o ve) \o Enter)[i] = "virt_enter"
      BY <2>3, <3>1
    <3>3. i \in 1..Len(((g \o ve) \o Enter) \o en) /\ (((g \o ve) \o Enter) \o en)[i] = "virt_enter"
      BY <3>1, <3>2
    <3> QED BY <3>3
  <2> QED BY <1>8, <2>1, <2>5, <2>6 DEF Kit, Tidy, LastOf
<1>9. CASE op = "exit"
  <2>1. CtxPrograms[op] = (vx \o Exit) \o ex
    BY <1>6, <1>9 DEF CtxPrograms
  <2>2. {"virt_exit"} \cap SyncWords \cap Single = {} /\ ({"virt_exit"} \cup SyncWords) \cap {"exited"} \cap Single = {}
    BY DEF SyncWords, Single
  <2>3. Kit(vx \o Exit, {"virt_exit"} \cup SyncWords) /\ (vx \o Exit)[1] = "virt_exit" /\ (vx \o Exit)[Len(vx \o Exit)] = "delete"
    BY <1>2, <1>3, <1>4, <1>5, <2>2, KitJoin
  <2>4. /\ Kit((vx \o Exit) \o ex, ({"virt_exit"} \cup SyncWords) \cup {"exited"})
        /\ ((vx \o Exit) \o ex)[1] = "virt_exit" /\ ((vx \o Exit) \o ex)[Len((vx \o Exit) \o ex)] = "exited"
    BY <1>3, <2>2, <2>3, KitJoin
  <2> QED BY <1>9, <2>1, <2>4 DEF Kit, Tidy, LastOf
<1> QED
  BY <1>7, <1>8, <1>9

\* What is left of a neat list is neat, and ends as it did.
LEMMA TidyDrop ==
  ASSUME NEW op, NEW s \in Seq(Words), NEW n \in Nat, n < Len(s), Tidy(op, s)
  PROVE  Tidy(op, Drop(s, n))
<1> DEFINE r == Drop(s, n)
<1>1. Len(s) \in Nat /\ Len(r) = Len(s) - n /\ \A i \in 1..Len(s) - n : r[i] = s[n + i]
  BY DEF Drop
<1> HIDE DEF r
<1>2. r[Len(r)] = LastOf(op)
  <2>1. Len(s) - n \in 1..Len(s) - n /\ n + (Len(s) - n) = Len(s)
    BY <1>1
  <2>2. r[Len(s) - n] = s[n + (Len(s) - n)]
    BY <1>1, <2>1
  <2> QED BY <1>1, <2>1, <2>2 DEF Tidy
<1>3. ASSUME NEW i \in 1..Len(r)
      PROVE  /\ r[i] \notin Odd /\ (i > 1 /\ r[i] = "exited" => r[i - 1] = "delete")
             /\ i > 1 /\ r[i] = "make" => r[i - 1] = "get_adapter"
             /\ r[i] \in Single => \A j \in 1..Len(r) : r[j] = r[i] => j = i
  <2>1. n + i \in 1..Len(s) /\ r[i] = s[n + i] /\ (i > 1 => n + i > 1 /\ i - 1 \in 1..Len(r) /\ n + (i - 1) = (n + i) - 1)
    BY <1>1
  <2>2. i > 1 => r[i - 1] = s[(n + i) - 1]
    BY <1>1, <2>1
  <2>3. ASSUME r[i] \in Single, NEW j \in 1..Len(r), r[j] = r[i]
        PROVE  j = i
    <3>1. n + j \in 1..Len(s) /\ r[j] = s[n + j]
      BY <1>1
    <3>2. n + j = n + i
      BY <2>1, <2>3, <3>1 DEF Tidy, Neat
    <3> QED BY <3>2, <1>1
  <2> QED BY <2>1, <2>2, <2>3 DEF Tidy, Neat
<1> QED
  BY <1>2, <1>3 DEF Tidy, Neat, r

\* Where the only caller is, when it takes a step.
LEMMA LeftHere ==
  ASSUME CtxInv, OnlyBlocks, LostCalm, LeftCalm, NEW u \in Users, NEW h, At(u, h), h # "none"
  PROVE  /\ u \in Crew /\ Crew = {u} /\ setup.kind \in {"redis", "memcached"} /\ setup.kind \in Wrapped \cap Sync
         /\ InCtx(u) /\ job[u].op \in {"enter", "exit", "call"} /\ job[u].tid = setup.home[u] /\ setup.home[u] \in Threads
         /\ LeftOf(u) /\ Tidy(job[u].op, todo[u]) /\ h \in CtxSteps \ Odd
         /\ todo[u] # <<>> /\ todo[u] \in Seq(Words) /\ Len(todo[u]) \in Nat \ {0} /\ todo[u][1] = h
         /\ Shape(setup.kind, TRUE, todo[u]) /\ Fits(setup.kind, TRUE, todo[u], 1)
         /\ \A i \in 1..Len(todo[u]) : todo[u][i] \in CtxWords(job[u].op)
         /\ job[u].on \in Adapters \/ h \in Searches
<1>1. /\ todo[u] # <<>> /\ todo[u] \in Seq(Words) /\ Len(todo[u]) \in Nat \ {0} /\ todo[u][1] = h /\ u \in Crew
      /\ Shape(setup.kind, InCtx(u), todo[u]) /\ Fits(setup.kind, InCtx(u), todo[u], 1)
  BY Heads
<1>2. Crew = {u}
  BY <1>1 DEF OnlyBlocks, Lone
<1>3. LeftOf(u) /\ InCtx(u) /\ Tidy(job[u].op, todo[u])
  BY <1>1 DEF LeftCalm, LeftOf
<1>4. /\ setup.kind \in Wrapped /\ (job[u].on \in Valid \/ todo[u][1] \in Searches)
      /\ \A i \in 1..Len(todo[u]) : todo[u][i] \in CtxWords(job[u].op)
  BY <1>1, <1>3 DEF CtxInv, Under
<1>5. setup.kind \in {"redis", "memcached"} /\ setup.kind \in Wrapped \cap Sync
  BY <1>4 DEF OnlyBlocks, Sync, Wrapped
<1>6. job[u].op \in {"enter", "exit", "call"}
  <2>1. job[u].op \in setup.ops \cup {"none"}
    BY DEF CtxInv, CallTypes
  <2> QED BY <1>3, <2>1 DEF OnlyBlocks, InCtx, CtxOps
<1>7. setup.home[u] \in Threads
  <2>1. setup \in Setups
    BY DEF CtxInv, CallTypes
  <2> QED BY <1>1, <2>1, HomeIs
<1>8. h \in CtxSteps \ Odd
  <2>1. 1 \in 1..Len(todo[u])
    BY <1>1
  <2> QED BY <1>1, <1>3, <2>1 DEF Tidy, Neat, Fits
<1>9. Valid \subseteq Adapters
  BY ContextsAssumption DEF CtxInv, AdapterTypes, Valid, Adapters, ContextsAssumption
<1>10. job[u].tid = setup.home[u]
  BY <1>1, <1>3 DEF CtxInv, Under
<1>11. Shape(setup.kind, TRUE, todo[u]) /\ Fits(setup.kind, TRUE, todo[u], 1)
  <2>1. InCtx(u) = TRUE
    BY <1>3 DEF InCtx
  <2> QED BY <1>1, <2>1
<1> QED
  BY <1>1, <1>2, <1>3, <1>4, <1>5, <1>6, <1>7, <1>8, <1>9, <1>10, <1>11

\* A step of it, and what it comes to.
LEMMA LeftGoes ==
  ASSUME CtxInv, OnlyBlocks, LostCalm, LeftCalm, NEW u \in Users, NEW h, At(u, h), h # "none",
         NEW n \in Nat, n + 1 <= Len(todo[u]), Skip(u, n), setup' = setup, job'[u].op = job[u].op
  PROVE  /\ todo'[u] = <<>> <=> n + 1 = Len(todo[u])
         /\ \A v \in Users \ {u} : todo'[v] = todo[v]
         /\ \A k \in 1..4 : \A w : Is(todo'[u], k, w) <=> Is(todo[u], n + 1 + k, w)
         /\ todo'[u] # <<>> => /\ InCtx(u)' /\ Tidy(job'[u].op, todo'[u])
                               /\ Follows(TRUE, todo[u][n + 1], todo'[u][1])
                               /\ todo'[u][1] \in CtxSteps \ (Odd \cup {"get_adapter"})
                               /\ todo'[u][1] = "exited" => todo[u][n + 1] = "delete"
                               /\ todo'[u][1] = "make" => todo[u][n + 1] = "get_adapter"
         /\ todo'[u] = <<>> => todo[u][n + 1] = LastOf(job[u].op)
         /\ \A x : (\A i \in 1..n + 1 : todo[u][i] # x) => (Says(u, x)' <=> Says(u, x))
         /\ \A x \in Single : (\E i \in 1..n + 1 : todo[u][i] = x) => ~Says(u, x)'
<1>1. /\ todo[u] \in Seq(Words) /\ Len(todo[u]) \in Nat \ {0} /\ Tidy(job[u].op, todo[u]) /\ InCtx(u)
      /\ Shape(setup.kind, TRUE, todo[u])
  BY LeftHere
<1>2. todo' = [todo EXCEPT ![u] = Drop(todo[u], n + 1)] /\ DOMAIN todo = Users
  BY DEF Skip, Continue, Proceed, CtxInv, CallTypes
<1> DEFINE s == todo[u]
           r == todo'[u]
           m == n + 1
<1>3. m \in Nat /\ m <= Len(s) /\ Len(r) = Len(s) - m /\ (\A i \in 1..Len(s) - m : r[i] = s[m + i]) /\ r \in Seq(Words)
      /\ r = Drop(s, m)
  <2>1. r = Drop(s, m)
    BY <1>2
  <2>2. SubSeq(s, m + 1, Len(s)) \in Seq(Words) /\ Len(SubSeq(s, m + 1, Len(s))) = Len(s) - m
        /\ \A i \in 1..Len(s) - m : SubSeq(s, m + 1, Len(s))[i] = s[m + i]
    BY <1>1
  <2> QED BY <1>1, <2>1, <2>2 DEF Drop
<1>4. r = <<>> <=> m = Len(s)
  BY <1>1, <1>3
<1>5. \A v \in Users \ {u} : todo'[v] = todo[v]
  BY <1>2
<1>6. ASSUME NEW k \in 1..4, NEW w
      PROVE  Is(r, k, w) <=> Is(s, m + k, w)
  <2>1. k <= Len(r) <=> m + k <= Len(s)
    BY <1>1, <1>3
  <2>2. k <= Len(r) => k \in 1..Len(s) - m
    BY <1>1, <1>3
  <2> QED BY <1>3, <2>1, <2>2 DEF Is
<1>7. ASSUME r # <<>>
      PROVE  /\ InCtx(u)' /\ Tidy(job'[u].op, r)
             /\ Follows(TRUE, s[m], r[1]) /\ r[1] \in CtxSteps \ (Odd \cup {"get_adapter"})
             /\ r[1] = "exited" => s[m] = "delete"
             /\ r[1] = "make" => s[m] = "get_adapter"
  <2>1. m < Len(s) /\ m \in 1..Len(s) /\ m + 1 \in 1..Len(s) /\ 1 \in 1..Len(s) - m /\ m + 1 > 1 /\ (m + 1) - 1 = m
    BY <1>1, <1>3, <1>4, <1>7
  <2>2. r[1] = s[m + 1]
    BY <1>3, <2>1
  <2>3. Follows(TRUE, s[m], s[m + 1]) /\ Fits(setup.kind, TRUE, s, m + 1) /\ Fits(setup.kind, TRUE, s, m)
    BY <1>1, <2>1 DEF Shape
  <2>4. Tidy(job[u].op, r)
    BY <1>1, <1>3, <2>1, TidyDrop
  <2>5. s[m + 1] \notin Odd /\ (s[m + 1] = "exited" => s[m] = "delete") /\ (s[m + 1] = "make" => s[m] = "get_adapter")
    <3>1. Neat(s)
      BY <1>1 DEF Tidy
    <3>2. /\ s[m + 1] \notin Odd /\ (s[m + 1] = "exited" => s[(m + 1) - 1] = "delete")
          /\ (s[m + 1] = "make" => s[(m + 1) - 1] = "get_adapter")
      BY <2>1, <3>1 DEF Neat
    <3> QED BY <2>1, <3>2
  <2>6. InCtx(u)'
    BY <1>1 DEF InCtx
  <2>7. s[m + 1] # "get_adapter"
    <3>1. s[m] \in CtxSteps
      BY <2>3 DEF Fits
    <3> QED BY <2>3, <3>1 DEF Follows, CtxSteps, Ends, Haves
  <2> QED BY <2>2, <2>3, <2>4, <2>5, <2>6, <2>7 DEF Fits
<1>8. r = <<>> => s[m] = LastOf(job[u].op)
  BY <1>1, <1>4 DEF Tidy
<1>9. ASSUME NEW x, \A i \in 1..m : s[i] # x
      PROVE  Says(u, x)' <=> Says(u, x)
  <2>1. ASSUME NEW i \in 1..Len(r), r[i] = x
        PROVE  \E j \in 1..Len(s) : s[j] = x
    <3>1. m + i \in 1..Len(s) /\ s[m + i] = x
      BY <1>1, <1>3, <2>1
    <3> QED BY <3>1
  <2>2. ASSUME NEW j \in 1..Len(s), s[j] = x
        PROVE  \E i \in 1..Len(r) : r[i] = x
    <3>1. ~(j \in 1..m)
      BY <1>9, <2>2
    <3>2. j - m \in 1..Len(r) /\ m + (j - m) = j /\ j - m \in 1..Len(s) - m
      BY <1>1, <1>3, <3>1
    <3>3. r[j - m] = s[m + (j - m)]
      BY <1>3, <3>2
    <3> QED BY <2>2, <3>2, <3>3
  <2> QED BY <2>1, <2>2 DEF Says
<1>10. ASSUME NEW x \in Single, NEW i \in 1..m, s[i] = x
       PROVE  ~Says(u, x)'
  <2>1. i \in 1..Len(s)
    BY <1>1, <1>3
  <2>2. ASSUME NEW k \in 1..Len(r), r[k] = x
        PROVE  FALSE
    <3>1. m + k \in 1..Len(s) /\ s[m + k] = x
      BY <1>1, <1>3, <2>2
    <3>2. m + k = i
      BY <1>1, <1>10, <2>1, <3>1 DEF Tidy, Neat
    <3> QED BY <1>3, <2>2, <3>2
  <2> QED BY <2>2 DEF Says
<1> QED
  BY <1>4, <1>5, <1>6, <1>7, <1>8, <1>9, <1>10

\* What a step of the only caller has to keep.
LEMMA LeftBy ==
  ASSUME CtxInv, LeftCalm, NEW u \in Users, Crew = {u}, setup' = setup, given' = {}, instance' = tracked',
         disturbed' \in Nat, EntriesLeft', \A w \in Users \ {u} : depth'[w] = depth[w],
         todo'[u] # <<>> => InCtx(u)' /\ Tidy(job'[u].op, todo'[u]),
         AdapterLeft(u)', PlaceLeft(u)', LayersLeft(u)', RestLeft(u)'
  PROVE  LeftCalm'
<1>1. Crew' = Crew
  BY DEF Crew
<1>2. LeftOf(u)'
  BY DEF LeftOf
<1>3. \A w \in Users \ Crew' : depth'[w] = 0
  BY <1>1 DEF LeftCalm
<1> QED
  BY <1>1, <1>2, <1>3 DEF LeftCalm

\* A step that says nothing of who waits, whatever it does to the connection of the adapter it is on.
LEMMA AdapterLeftStays ==
  ASSUME CtxInv, OnlyBlocks, LostCalm, LeftCalm, NEW u \in Users, NEW h, At(u, h), h # "none",
         NEW n \in Nat, n + 1 <= Len(todo[u]), Skip(u, n), UNCHANGED <<setup, job, instance>>,
         \A i \in 1..n + 1 : todo[u][i] \notin {"install", "get_adapter", "make"},
         \A a \in Adapters : a # job[u].on => attr'[a] = attr[a]
  PROVE  AdapterLeft(u)'
<1>1. /\ Says(u, "install")' <=> Says(u, "install")
      /\ todo'[u] # <<>> => /\ todo'[u][1] \notin Odd \cup {"get_adapter"}
                            /\ todo'[u][1] = "make" => todo[u][n + 1] = "get_adapter"
  BY LeftGoes
<1>2. /\ AdapterLeft(u) /\ todo[u] # <<>> /\ todo[u][1] = h /\ todo[u] \in Seq(Words) /\ Len(todo[u]) \in Nat \ {0}
  BY LeftHere DEF LeftOf
<1>3. h # "get_adapter" /\ h \notin {"install", "make"} /\ todo[u][n + 1] \notin {"install", "get_adapter", "make"}
  <2>1. 1 \in 1..n + 1 /\ n + 1 \in 1..n + 1
    OBVIOUS
  <2> QED BY <1>2, <2>1
<1>4. todo'[u] # <<>> => todo'[u][1] \notin Searches
  BY <1>1, <1>3 DEF Searches, Odd
<1>5. Says(u, "install")' => todo'[u] # <<>>
  BY DEF Says
<1>6. ASSUME NEW a \in Adapters, attr'[a] # Nothing
      PROVE  a = instance' \/ (Says(u, "install")' /\ todo'[u][1] \notin Searches /\ a = job'[u].on)
  <2>1. CASE a # job[u].on
    <3>1. attr[a] # Nothing
      BY <1>6, <2>1
    <3>2. a = instance
      BY <1>2, <2>1, <3>1 DEF AdapterLeft
    <3> QED BY <3>2
  <2>2. CASE a = job[u].on /\ ~Says(u, "install")
    BY <1>2, <2>2 DEF AdapterLeft
  <2>3. CASE a = job[u].on /\ Says(u, "install")
    BY <1>1, <1>4, <1>5, <2>3
  <2> QED BY <2>1, <2>2, <2>3
<1>7. Says(u, "install")' => instance' = Nothing
  BY <1>1, <1>2, <1>3 DEF AdapterLeft
<1>8. todo'[u] # <<>> /\ ~Says(u, "install")' => job'[u].on = instance'
  BY <1>1, <1>2 DEF AdapterLeft
<1> QED
  BY <1>6, <1>7, <1>8 DEF AdapterLeft

\* The layers are as they were after a step that is none of theirs: such a step ends no block.
LEMMA LayersLeftStay ==
  ASSUME CtxInv, OnlyBlocks, LostCalm, LeftCalm, NEW u \in Users, NEW h, At(u, h), h # "none",
         NEW n \in Nat, n + 1 <= Len(todo[u]), Skip(u, n), UNCHANGED <<setup, depth>>, Tracked' = Tracked,
         job'[u].op = job[u].op, disturbed' \in {disturbed, disturbed + 1},
         \A i \in 1..n + 1 : todo[u][i] \notin {"virt_enter", "virt_exit", "entered", "exited"}
  PROVE  LayersLeft(u)'
<1>1. /\ Says(u, "virt_enter")' <=> Says(u, "virt_enter")
      /\ Says(u, "virt_exit")' <=> Says(u, "virt_exit")
      /\ todo'[u] = <<>> => todo[u][n + 1] = LastOf(job[u].op)
  BY LeftGoes
<1>2. LayersLeft(u) /\ todo[u] # <<>>
  BY LeftHere DEF LeftOf
<1>3. todo'[u] = <<>> => job[u].op \notin {"enter", "exit"}
  <2>1. n + 1 \in 1..n + 1
    OBVIOUS
  <2> QED BY <1>1, <2>1 DEF LastOf
<1>4. disturbed' = 0 => disturbed = 0
  <2>1. disturbed \in Nat
    BY DEF LeftCalm
  <2> QED BY <2>1
<1>5. Tracked' = Tracked
  OBVIOUS
<1> SUFFICES ASSUME disturbed' = 0 PROVE LayersLeft(u)'
  BY DEF LayersLeft
<1>6. CASE job[u].op = "enter" /\ ~Says(u, "virt_enter")
  BY <1>1, <1>2, <1>3, <1>4, <1>5, <1>6 DEF LayersLeft, LayersOf
<1>7. CASE job[u].op = "exit" /\ Says(u, "virt_exit")
  BY <1>1, <1>2, <1>3, <1>4, <1>5, <1>7 DEF LayersLeft, LayersOf
<1>8. CASE job[u].op = "exit" /\ ~Says(u, "virt_exit")
  BY <1>1, <1>2, <1>3, <1>4, <1>5, <1>8 DEF LayersLeft, LayersOf
<1>9. CASE job[u].op # "exit" /\ (job[u].op # "enter" \/ Says(u, "virt_enter"))
  BY <1>1, <1>2, <1>3, <1>4, <1>5, <1>9 DEF LayersLeft, LayersOf
<1> QED
  BY <1>6, <1>7, <1>8, <1>9

\* A step of the adapter or of the store: it is enough to know what it leads to, and what the last one leaves.
LEMMA PlainLeft ==
  ASSUME CtxInv, OnlyBlocks, LostCalm, LeftCalm, NEW u \in Users, NEW h, At(u, h), h # "none",
         NEW n \in Nat, n + 1 <= Len(todo[u]), Skip(u, n),
         UNCHANGED <<setup, job, instance, tracker, tracked, depth, given>>, disturbed' \in {disturbed, disturbed + 1},
         \A i \in 1..n + 1 : todo[u][i] \in SyncWords,
         \A a \in Adapters : a # job[u].on => attr'[a] = attr[a],
         \A t \in Threads : conns'[t] # Nothing => conns[t] # Nothing \/ (setup.kind = "redis" /\ t = setup.home[u]),
         PlaceLeft(u)', todo[u][n + 1] = "delete" => RestLeft(u)'
  PROVE  LeftCalm'
<1>1. /\ SyncWords \cap {"install", "get_adapter", "make", "virt_enter", "virt_exit", "entered", "exited"} = {}
  BY DEF SyncWords
<1>2. AdapterLeft(u)'
  BY <1>1, AdapterLeftStays
<1>3. LayersLeft(u)'
  <2>1. Tracked' = Tracked
    BY DEF Tracked
  <2> QED BY <1>1, <2>1, LayersLeftStay
<1>4. u \in Crew /\ Crew = {u}
  BY LeftHere
<1>5. /\ todo'[u] # <<>> => InCtx(u)' /\ Tidy(job'[u].op, todo'[u])
      /\ todo'[u] = <<>> => todo[u][n + 1] = LastOf(job[u].op)
  BY LeftGoes
<1>6. RestLeft(u)'
  <2>1. CASE todo'[u] = <<>>
    <3>1. n + 1 \in 1..n + 1 /\ LastOf(job[u].op) \in {"entered", "exited", "delete"}
      BY DEF LastOf
    <3> QED BY <1>1, <1>5, <2>1, <3>1
  <2>2. CASE todo'[u] # <<>>
    BY <2>2 DEF RestLeft
  <2> QED BY <2>1, <2>2
<1>7. EntriesLeft' /\ disturbed' \in Nat
  BY <1>4 DEF LeftCalm, EntriesLeft, Crew
<1>8. given' = {} /\ instance' = tracked'
  BY DEF LeftCalm
<1> QED
  BY <1>2, <1>3, <1>4, <1>5, <1>6, <1>7, <1>8, LeftBy

\* With every call over, and nothing open in the store or in an adapter, nothing is open.
LEMMA NothingOpen ==
  ASSUME CtxInv', LostCalm', \A w \in Users : todo'[w] = <<>>, given' = {},
         \A t \in Threads : conns'[t] = Nothing \/ conns'[t] \notin open', \A a \in Adapters : attr'[a] = Nothing
  PROVE  open' = {}
<1>1. Nothing \notin open'
  <2>1. open' \subseteq 1..made' /\ made' \in Nat
    BY DEF CtxInv, ConnTypes
  <2>2. Nothing \notin Int
    BY StoreAssumption DEF StoreAssumption
  <2>3. \A n \in Nat : Nothing \notin 1..n
    BY <2>2
  <2> QED BY <2>1, <2>3
<1>2. \A w \in Users : ~Carrying(w)'
  <2>1. \A k \in {1} : \A w : ~Is(<<>>, k, w)
    BY DEF Is
  <2> QED BY <2>1 DEF Carrying
<1>3. ASSUME NEW c \in open'
      PROVE  FALSE
  <2>1. Kept(c)'
    BY <1>2, <1>3 DEF LostCalm, NoneLost, Carried
  <2>2. c # Nothing /\ \A t \in Threads : conns'[t] # c
    BY <1>1, <1>3
  <2>3. \A a \in Adapters : attr'[a] # c /\ pool'[a] # c
    BY <1>3, <2>2 DEF LostCalm, PoolStored
  <2> QED BY <2>1, <2>2, <2>3 DEF Kept
<1> QED
  BY <1>3

\* The steps that something is asked of where they are next.
Asked == {"seek", "shut", "delete", "exited", "make", "lookup", "store", "connect"}

\* What comes next, and what is asked of it.
LEMMA FrontLeft ==
  ASSUME CtxInv, OnlyBlocks, LostCalm, LeftCalm, NEW u \in Users, NEW h, At(u, h), h # "none",
         NEW n \in Nat, n + 1 <= Len(todo[u]), Skip(u, n), setup' = setup, job'[u].op = job[u].op
  PROVE  /\ \A w : Is(todo'[u], 1, w) => /\ Follows(TRUE, todo[u][n + 1], w) /\ w \in CtxSteps \ Odd
                                         /\ w = "exited" => todo[u][n + 1] = "delete"
                                         /\ w = "make" => todo[u][n + 1] = "get_adapter"
         /\ (\A w \in Asked : ~Is(todo'[u], 1, w)) => PlaceLeft(u)'
         /\ \A w \in Users \ {u} : todo'[w] = <<>>
         /\ \A k \in 1..4 : \A w : Is(todo'[u], k, w) <=> Is(todo[u], n + 1 + k, w)
<1>1. /\ \A v \in Users \ {u} : todo'[v] = todo[v]
      /\ \A k \in 1..4 : \A w : Is(todo'[u], k, w) <=> Is(todo[u], n + 1 + k, w)
      /\ todo'[u] # <<>> => /\ Follows(TRUE, todo[u][n + 1], todo'[u][1]) /\ todo'[u][1] \in CtxSteps \ Odd
                            /\ todo'[u][1] = "exited" => todo[u][n + 1] = "delete"
                            /\ todo'[u][1] = "make" => todo[u][n + 1] = "get_adapter"
  BY LeftGoes
<1>2. ASSUME NEW w, Is(todo'[u], 1, w)
      PROVE  todo'[u] # <<>> /\ todo'[u][1] = w
  BY <1>2 DEF Is
<1>3. \A w \in Users \ {u} : todo[w] = <<>>
  <2>1. u \in Crew /\ Lone
    BY LeftHere DEF OnlyBlocks
  <2> QED BY <2>1, OthersIdle
<1>4. (\A w \in Asked : ~Is(todo'[u], 1, w)) => PlaceLeft(u)'
  BY DEF Asked, PlaceLeft
<1> QED
  BY <1>1, <1>2, <1>3, <1>4

\* The connection of a block that has been closed and deleted was the last.
LEMMA ClosedLeft ==
  ASSUME CtxInv, OnlyBlocks, LostCalm, LeftCalm, NEW u \in Users, NEW h, At(u, h), h # "none",
         NEW n \in Nat, n + 1 <= Len(todo[u]), Skip(u, n), UNCHANGED <<setup, job, attr, instance, given>>,
         \A i \in 1..n + 1 : todo[u][i] \in SyncWords \cup {"exited"}, CtxInv', LostCalm',
         attr[job[u].on] = Nothing, conns'[setup.home[u]] = Nothing,
         \A t \in Threads : t # setup.home[u] => conns'[t] = conns[t]
  PROVE  RestLeft(u)'
<1> SUFFICES ASSUME todo'[u] = <<>> PROVE open' = {}
  BY DEF RestLeft
<1>1. \A w \in Users : todo'[w] = <<>>
  BY FrontLeft
<1>2. \A i \in 1..n + 1 : todo[u][i] \notin {"install", "get_adapter", "make"}
  BY DEF SyncWords
<1>3. AdapterLeft(u)'
  BY <1>2, AdapterLeftStays
<1>4. ~Says(u, "install")' /\ ~Says(u, "install")
  <2>1. Says(u, "install")' <=> Says(u, "install")
    BY <1>2, LeftGoes
  <2>2. ~Says(u, "install")'
    BY DEF Says
  <2> QED BY <2>1, <2>2
<1>5. AdapterLeft(u) /\ todo[u] # <<>> /\ Crew = {u}
  BY LeftHere DEF LeftOf
<1>6. job[u].on = instance
  BY <1>4, <1>5 DEF AdapterLeft
<1>7. \A a \in Adapters : attr'[a] = Nothing
  BY <1>3, <1>4, <1>6 DEF AdapterLeft
<1>8. \A t \in Threads : conns'[t] = Nothing
  <2>1. ASSUME NEW t \in Threads, t # setup.home[u]
        PROVE  conns[t] = Nothing
    BY <1>5, <2>1 DEF LeftCalm, EntriesLeft
  <2> QED BY <2>1
<1>9. given' = {}
  BY DEF LeftCalm
<1> QED
  BY <1>1, <1>7, <1>8, <1>9, NothingOpen

-----------------------------------------------------------------------------
\* get, between the adapter and the store.
LEMMA LeftLookup ==
  ASSUME CtxInv, OnlyBlocks, LostCalm, LeftCalm, NEW u \in Users, Lookup(u),
         UNCHANGED <<setup, job, attr, instance, tracker, tracked, depth>>, disturbed' \in {disturbed, disturbed + 1}
  PROVE  LeftCalm'
<1>1. At(u, "lookup") /\ (Skip(u, 2) \/ Skip(u, 0)) /\ UNCHANGED <<conns, given>>
  BY DEF Lookup, Go
<1>2. /\ todo[u] \in Seq(Words) /\ Len(todo[u]) \in Nat \ {0} /\ todo[u][1] = "lookup"
      /\ PlaceLeft(u) /\ Fits(setup.kind, TRUE, todo[u], 1)
  BY <1>1, LeftHere DEF LeftOf
<1>3. Is(todo[u], 1, "lookup") /\ setup.kind = "redis" /\ Is(todo[u], 4, "keep_attr")
  <2>1. Is(todo[u], 1, "lookup")
    BY <1>2 DEF Is
  <2> QED BY <1>2, <2>1 DEF PlaceLeft
<1>4. Is(todo[u], 2, "connect") /\ Is(todo[u], 3, "store")
  <2>1. Pair(todo[u], 1, "connect", "store")
    BY <1>2 DEF Fits
  <2> QED BY <2>1 DEF Pair, Looks, Is
<1>5. 3 <= Len(todo[u]) /\ todo[u][2] = "connect" /\ todo[u][3] = "store"
  BY <1>2, <1>4 DEF Is
<1>6. CASE Skip(u, 2)
  <2>1. \A w : Is(todo'[u], 1, w) <=> Is(todo[u], 4, w)
    <3>1. 2 \in Nat /\ 2 + 1 <= Len(todo[u]) /\ 2 + 1 + 1 = 4
      BY <1>5
    <3>2. \A k \in 1..4 : \A w : Is(todo'[u], k, w) <=> Is(todo[u], 2 + 1 + k, w)
      BY <1>1, <1>6, <3>1, FrontLeft
    <3> QED BY <3>1, <3>2
  <2>2. PlaceLeft(u)'
    <3>1. \A w : Is(todo'[u], 1, w) => w = "keep_attr"
      BY <1>3, <2>1 DEF Is
    <3> QED BY <3>1 DEF PlaceLeft
  <2>3. \A i \in 1..2 + 1 : todo[u][i] \in SyncWords
    BY <1>2, <1>5 DEF SyncWords
  <2>4. 2 \in Nat /\ 2 + 1 <= Len(todo[u]) /\ todo[u][2 + 1] # "delete"
    BY <1>5
  <2> QED BY <1>1, <1>6, <2>2, <2>3, <2>4, PlainLeft
<1>7. CASE Skip(u, 0)
  <2>1. \A k \in 1..4 : \A w : Is(todo'[u], k, w) <=> Is(todo[u], 1 + k, w)
    <3>1. 0 \in Nat /\ 0 + 1 <= Len(todo[u]) /\ \A k \in 1..4 : 0 + 1 + k = 1 + k
      BY <1>5
    <3>2. \A k \in 1..4 : \A w : Is(todo'[u], k, w) <=> Is(todo[u], 0 + 1 + k, w)
      BY <1>1, <1>7, <3>1, FrontLeft
    <3> QED BY <3>1, <3>2
  <2>2. PlaceLeft(u)'
    <3>1. Is(todo'[u], 1, "connect") /\ Is(todo'[u], 2, "store") /\ Is(todo'[u], 3, "keep_attr")
      BY <1>3, <1>4, <2>1
    <3>2. \A w : Is(todo'[u], 1, w) => w = "connect"
      BY <3>1 DEF Is
    <3> QED BY <1>3, <3>1, <3>2 DEF PlaceLeft
  <2>3. \A i \in 1..0 + 1 : todo[u][i] \in SyncWords
    BY <1>2 DEF SyncWords
  <2>4. 0 \in Nat /\ 0 + 1 <= Len(todo[u]) /\ todo[u][0 + 1] # "delete"
    BY <1>2, <1>5
  <2> QED BY <1>1, <1>7, <2>2, <2>3, <2>4, PlainLeft
<1> QED
  BY <1>1, <1>6, <1>7

\* A call that goes on by one step.
LEMMA GoFront ==
  ASSUME CtxInv, OnlyBlocks, LostCalm, LeftCalm, NEW u \in Users, NEW h, At(u, h), h # "none", Go(u),
         setup' = setup, job'[u].op = job[u].op
  PROVE  /\ \A k \in 1..4 : \A w : Is(todo'[u], k, w) <=> Is(todo[u], k + 1, w)
         /\ \A w : Is(todo'[u], 1, w) => Follows(TRUE, h, w) /\ w \in CtxSteps \ Odd
         /\ \A w : Is(todo'[u], 1, w) => (w = "exited" => h = "delete") /\ (w = "make" => h = "get_adapter")
         /\ (\A w \in Asked : ~Is(todo'[u], 1, w)) => PlaceLeft(u)'
         /\ PlaceLeft(u) /\ Fits(setup.kind, TRUE, todo[u], 1) /\ Is(todo[u], 1, h)
<1>1. 0 \in Nat /\ 0 + 1 <= Len(todo[u]) /\ todo[u][0 + 1] = h /\ Skip(u, 0) /\ Is(todo[u], 1, h)
  <2>1. Len(todo[u]) \in Nat \ {0} /\ todo[u][1] = h
    BY LeftHere
  <2> QED BY <2>1 DEF Go, Is
<1>2. \A k \in 1..4 : 0 + 1 + k = k + 1
  OBVIOUS
<1>3. \A k \in 1..4 : \A w : Is(todo'[u], k, w) <=> Is(todo[u], 0 + 1 + k, w)
  BY <1>1, FrontLeft
<1>4. \A k \in 1..4 : \A w : Is(todo'[u], k, w) <=> Is(todo[u], k + 1, w)
  BY <1>2, <1>3
<1>5. /\ \A w : Is(todo'[u], 1, w) => Follows(TRUE, todo[u][0 + 1], w)
      /\ \A w : Is(todo'[u], 1, w) => w \in CtxSteps \ Odd
      /\ \A w : Is(todo'[u], 1, w) => (w = "exited" => todo[u][0 + 1] = "delete")
      /\ \A w : Is(todo'[u], 1, w) => (w = "make" => todo[u][0 + 1] = "get_adapter")
      /\ (\A w \in Asked : ~Is(todo'[u], 1, w)) => PlaceLeft(u)'
  BY <1>1, FrontLeft
<1>6. PlaceLeft(u) /\ Fits(setup.kind, TRUE, todo[u], 1)
  BY LeftHere DEF LeftOf
<1>7. \A w : Is(todo'[u], 1, w) => Follows(TRUE, h, w)
  BY <1>1, <1>5
<1>8. \A w : Is(todo'[u], 1, w) => (w = "exited" => h = "delete") /\ (w = "make" => h = "get_adapter")
  BY <1>1, <1>5
<1> QED
  BY <1>1, <1>4, <1>5, <1>6, <1>7, <1>8

\* Such a step of the adapter or of the store.
LEMMA GoLeft ==
  ASSUME CtxInv, OnlyBlocks, LostCalm, LeftCalm, NEW u \in Users, NEW h \in SyncWords, At(u, h), Go(u),
         UNCHANGED <<setup, job, instance, tracker, tracked, depth, given>>, disturbed' \in {disturbed, disturbed + 1},
         \A a \in Adapters : a # job[u].on => attr'[a] = attr[a],
         \A t \in Threads : conns'[t] # Nothing => conns[t] # Nothing \/ (setup.kind = "redis" /\ t = setup.home[u]),
         PlaceLeft(u)', h = "delete" => RestLeft(u)'
  PROVE  LeftCalm'
<1>1. h # "none"
  BY DEF SyncWords
<1>2. Len(todo[u]) \in Nat \ {0} /\ todo[u][1] = h
  BY <1>1, LeftHere
<1>3. 0 \in Nat /\ 0 + 1 <= Len(todo[u]) /\ todo[u][0 + 1] = h /\ Skip(u, 0) /\ \A i \in 1..0 + 1 : todo[u][i] \in SyncWords
  BY <1>2 DEF Go
<1> QED
  BY <1>1, <1>3, PlainLeft

\* The new connection is kept by the adapter, and on Redis stored before.
LEMMA LeftConnect ==
  ASSUME CtxInv, OnlyBlocks, LostCalm, LeftCalm, NEW u \in Users, Connect(u),
         UNCHANGED <<setup, job, attr, instance, tracker, tracked, depth>>, disturbed' \in {disturbed, disturbed + 1}
  PROVE  LeftCalm'
<1>1. At(u, "connect") /\ Go(u) /\ UNCHANGED conns /\ "connect" \in SyncWords /\ "connect" # "none"
  BY DEF Connect, SyncWords
<1>2. /\ \A k \in 1..4 : \A w : Is(todo'[u], k, w) <=> Is(todo[u], k + 1, w)
      /\ PlaceLeft(u) /\ Is(todo[u], 1, "connect")
  BY <1>1, GoFront
<1>3. \A w : (Is(todo'[u], 1, w) <=> Is(todo[u], 2, w)) /\ (Is(todo'[u], 2, w) <=> Is(todo[u], 3, w))
  <2>1. 1 \in 1..4 /\ 2 \in 1..4 /\ 1 + 1 = 2 /\ 2 + 1 = 3
    OBVIOUS
  <2> QED BY <1>2, <2>1
<1>4. IF setup.kind = "redis" THEN Is(todo[u], 2, "store") /\ Is(todo[u], 3, "keep_attr") ELSE Is(todo[u], 2, "keep_attr")
  BY <1>2 DEF PlaceLeft
<1>5. given' = given
  <2>1. 2 <= Len(todo[u])
    BY <1>4 DEF Is
  <2>2. ASSUME Len(todo[u]) = 1 PROVE FALSE
    <3>1. 2 <= 1
      BY <2>1, <2>2
    <3> QED BY <3>1
  <2> QED BY <2>2 DEF Connect
<1>6. PlaceLeft(u)'
  <2>1. CASE setup.kind = "redis"
    <3>1. Is(todo'[u], 1, "store") /\ Is(todo'[u], 2, "keep_attr")
      BY <1>3, <1>4, <2>1
    <3>2. \A w : Is(todo'[u], 1, w) => w = "store"
      BY <3>1 DEF Is
    <3> QED BY <2>1, <3>1, <3>2 DEF PlaceLeft
  <2>2. CASE setup.kind # "redis"
    <3>1. Is(todo'[u], 1, "keep_attr")
      BY <1>3, <1>4, <2>2
    <3>2. \A w : Is(todo'[u], 1, w) => w = "keep_attr"
      BY <3>1 DEF Is
    <3> QED BY <3>2 DEF PlaceLeft
  <2> QED BY <2>1, <2>2
<1> QED
  BY <1>1, <1>5, <1>6, GoLeft

\* The entry of the caller's own thread.
LEMMA LeftStore ==
  ASSUME CtxInv, OnlyBlocks, LostCalm, LeftCalm, NEW u \in Users, Store(u),
         UNCHANGED <<setup, job, attr, instance, tracker, tracked, depth>>, disturbed' \in {disturbed, disturbed + 1}
  PROVE  LeftCalm'
<1>1. At(u, "store") /\ Go(u) /\ "store" \in SyncWords /\ "store" # "none" /\ given' = given
      /\ conns' = [conns EXCEPT ![job[u].tid] = rd[u]]
  BY DEF Store, SyncWords
<1>2. /\ \A k \in 1..4 : \A w : Is(todo'[u], k, w) <=> Is(todo[u], k + 1, w)
      /\ PlaceLeft(u) /\ Is(todo[u], 1, "store")
  BY <1>1, GoFront
<1>3. \A w : Is(todo'[u], 1, w) <=> Is(todo[u], 2, w)
  <2>1. 1 \in 1..4 /\ 1 + 1 = 2
    OBVIOUS
  <2> QED BY <1>2, <2>1
<1>4. setup.kind = "redis" /\ Is(todo[u], 2, "keep_attr")
  BY <1>2 DEF PlaceLeft
<1>5. PlaceLeft(u)'
  <2>1. Is(todo'[u], 1, "keep_attr")
    BY <1>3, <1>4
  <2>2. \A w : Is(todo'[u], 1, w) => w = "keep_attr"
    BY <2>1 DEF Is
  <2> QED BY <2>2 DEF PlaceLeft
<1>6. job[u].tid = setup.home[u] /\ DOMAIN conns = Threads
  BY <1>1, LeftHere, HeldApart
<1>7. \A t \in Threads : conns'[t] # Nothing => conns[t] # Nothing \/ (setup.kind = "redis" /\ t = setup.home[u])
  BY <1>1, <1>4, <1>6
<1> QED
  BY <1>1, <1>5, <1>7, GoLeft

\* close, when there is an entry and when there is none.
LEMMA LeftSeek ==
  ASSUME CtxInv, OnlyBlocks, LostCalm, LeftCalm, NEW u \in Users, Seek(u), CtxInv', LostCalm',
         UNCHANGED <<setup, job, attr, instance, tracker, tracked, depth>>, disturbed' \in {disturbed, disturbed + 1}
  PROVE  LeftCalm'
<1>1. At(u, "seek") /\ (Skip(u, 0) \/ (Skip(u, 2) /\ conns[job[u].tid] = Nothing)) /\ UNCHANGED <<conns, given>>
      /\ "seek" \in SyncWords /\ "seek" # "none"
  BY DEF Seek, Go, SyncWords
<1>2. /\ todo[u] \in Seq(Words) /\ Len(todo[u]) \in Nat \ {0} /\ todo[u][1] = "seek"
      /\ PlaceLeft(u) /\ Fits(setup.kind, TRUE, todo[u], 1) /\ job[u].tid = setup.home[u]
  BY <1>1, LeftHere DEF LeftOf
<1>3. attr[job[u].on] = Nothing
  <2>1. Is(todo[u], 1, "seek")
    BY <1>2 DEF Is
  <2> QED BY <1>2, <2>1 DEF PlaceLeft
<1>4. 3 <= Len(todo[u]) /\ todo[u][2] = "shut" /\ todo[u][3] = "delete"
  <2>1. Pair(todo[u], 1, "shut", "delete")
    BY <1>2 DEF Fits
  <2> QED BY <2>1 DEF Pair, Looks
<1>5. CASE Skip(u, 0)
  <2>1. Go(u)
    BY <1>5 DEF Go
  <2>2. \A w : Is(todo'[u], 1, w) => Follows(TRUE, "seek", w)
    BY <1>1, <2>1, GoFront
  <2>3. \A w : Is(todo'[u], 1, w) => w = "shut"
    BY <2>2 DEF Follows
  <2>4. PlaceLeft(u)'
    BY <1>3, <2>3 DEF PlaceLeft
  <2> QED BY <1>1, <2>1, <2>4, GoLeft
<1>6. CASE Skip(u, 2) /\ conns[job[u].tid] = Nothing
  <2>1. 2 \in Nat /\ 2 + 1 <= Len(todo[u]) /\ todo[u][2 + 1] = "delete" /\ \A i \in 1..2 + 1 : todo[u][i] \in SyncWords
    BY <1>2, <1>4 DEF SyncWords
  <2>2. \A w : Is(todo'[u], 1, w) => Follows(TRUE, "delete", w)
    <3>1. \A w : Is(todo'[u], 1, w) => Follows(TRUE, todo[u][2 + 1], w)
      BY <1>1, <1>6, <2>1, FrontLeft
    <3> QED BY <2>1, <3>1
  <2>3. \A w : Is(todo'[u], 1, w) => w \in Haves \cup {"exited"}
    BY <2>2 DEF Follows
  <2>4. PlaceLeft(u)'
    BY <1>1, <1>3, <1>6, <2>3 DEF PlaceLeft, Haves
  <2>5. RestLeft(u)'
    BY <1>1, <1>2, <1>3, <1>6, <2>1, ClosedLeft
  <2> QED BY <1>1, <1>6, <2>1, <2>4, <2>5, PlainLeft
<1> QED
  BY <1>1, <1>5, <1>6

\* What is closed is a connection: no coroutine is stored where none is awaited.
LEMMA LeftShut ==
  ASSUME CtxInv, OnlyBlocks, LoneCalm, LostCalm, LeftCalm, NEW u \in Users, Shut(u),
         UNCHANGED <<setup, job, attr, instance, tracker, tracked, depth>>, disturbed' \in {disturbed, disturbed + 1}
  PROVE  LeftCalm'
<1>1. At(u, "shut") /\ UNCHANGED <<conns, given>> /\ "shut" \in SyncWords /\ "shut" # "none"
  BY DEF Shut, SyncWords
<1>2. rd[u] # Coroutine
  <2>1. ~Resets
    BY DEF OnlyBlocks, Sync, Resets
  <2> QED BY <2>1 DEF LoneCalm, Awaited
<1>3. Go(u)
  BY <1>2 DEF Shut
<1>4. /\ \A w : Is(todo'[u], 1, w) => Follows(TRUE, "shut", w) /\ w \in CtxSteps \ Odd
      /\ PlaceLeft(u) /\ Is(todo[u], 1, "shut")
  BY <1>1, <1>3, GoFront
<1>5. \A w : Is(todo'[u], 1, w) => w = "delete"
  BY <1>4 DEF Follows, CtxSteps
<1>6. PlaceLeft(u)'
  BY <1>4, <1>5 DEF PlaceLeft
<1> QED
  BY <1>1, <1>3, <1>6, GoLeft

\* The entry goes, and it was the last.
LEMMA LeftDelete ==
  ASSUME CtxInv, OnlyBlocks, LostCalm, LeftCalm, NEW u \in Users, Delete(u), CtxInv', LostCalm',
         UNCHANGED <<setup, job, attr, instance, tracker, tracked, depth>>, disturbed' \in {disturbed, disturbed + 1}
  PROVE  LeftCalm'
<1>1. At(u, "delete") /\ Go(u) /\ "delete" \in SyncWords /\ "delete" # "none" /\ given' = given
      /\ conns' = [conns EXCEPT ![job[u].tid] = Nothing]
  BY DEF Delete, SyncWords
<1>2. /\ \A w : Is(todo'[u], 1, w) => Follows(TRUE, "delete", w)
      /\ PlaceLeft(u) /\ Is(todo[u], 1, "delete")
  BY <1>1, GoFront
<1>3. /\ job[u].tid = setup.home[u] /\ DOMAIN conns = Threads /\ setup.home[u] \in Threads
      /\ Len(todo[u]) \in Nat \ {0} /\ todo[u][1] = "delete"
  BY <1>1, LeftHere, HeldApart
<1>4. attr[job[u].on] = Nothing /\ conns'[setup.home[u]] = Nothing /\ \A t \in Threads : t # setup.home[u] => conns'[t] = conns[t]
  BY <1>1, <1>2, <1>3 DEF PlaceLeft
<1>5. \A w : Is(todo'[u], 1, w) => w \in Haves \cup {"exited"}
  BY <1>2 DEF Follows
<1>6. PlaceLeft(u)'
  BY <1>3, <1>4, <1>5 DEF PlaceLeft, Haves
<1>7. RestLeft(u)'
  <2>1. 0 \in Nat /\ 0 + 1 <= Len(todo[u]) /\ Skip(u, 0) /\ \A i \in 1..0 + 1 : todo[u][i] \in SyncWords
    BY <1>1, <1>3 DEF Go
  <2> QED BY <1>1, <1>4, <2>1, ClosedLeft
<1>8. \A t \in Threads : conns'[t] # Nothing => conns[t] # Nothing \/ (setup.kind = "redis" /\ t = setup.home[u])
  BY <1>3, <1>4
<1> QED
  BY <1>1, <1>6, <1>7, <1>8, GoLeft

\* A connection that cannot be made: the block counts as disturbed, and a call of a method has left nothing.
LEMMA LeftFails ==
  ASSUME CtxInv, OnlyBlocks, LostCalm, LeftCalm, NEW u \in Users, ConnectFails(u), CtxInv', LostCalm',
         UNCHANGED <<setup, job, attr, instance, tracker, tracked, depth>>,
         disturbed' = IF job[u].op \in {"enter", "exit"} /\ answer'[u] = Raised THEN disturbed + 1 ELSE disturbed
  PROVE  LeftCalm'
<1>1. /\ At(u, "connect") /\ todo' = [todo EXCEPT ![u] = <<>>] /\ answer' = [answer EXCEPT ![u] = Raised]
      /\ UNCHANGED <<conns, given, open>>
  BY DEF ConnectFails, Raise, storeVars
<1>2. /\ Crew = {u} /\ u \in Crew /\ job[u].op \in {"enter", "exit", "call"} /\ job[u].tid = setup.home[u]
      /\ todo[u] # <<>> /\ Len(todo[u]) \in Nat \ {0} /\ todo[u][1] = "connect" /\ InCtx(u) /\ LeftOf(u)
  BY <1>1, LeftHere
<1>3. /\ DOMAIN todo = Users /\ DOMAIN answer = Users
  BY DEF CtxInv, CallTypes
<1>4. todo'[u] = <<>> /\ answer'[u] = Raised /\ \A w \in Users : todo'[w] = <<>>
  <2>1. \A w \in Users \ {u} : todo[w] = <<>>
    BY <1>2, OthersIdle DEF OnlyBlocks
  <2> QED BY <1>1, <1>3, <2>1
<1>5. IF setup.kind = "redis" THEN Is(todo[u], 2, "store") /\ Is(todo[u], 3, "keep_attr") ELSE Is(todo[u], 2, "keep_attr")
  BY <1>2 DEF LeftOf, PlaceLeft, Is
<1>6. Is(todo[u], 1, "connect")
  BY <1>2 DEF Is
<1>7. ThreadTended(u) /\ AdapterTended(u)
  BY DEF LostCalm, Tended
<1>8. attr[job[u].on] = Nothing
  BY <1>2, <1>5, <1>6, <1>7 DEF AdapterTended, Soon
<1>9. \A a \in Adapters : attr[a] = Nothing
  <2> SUFFICES ASSUME NEW a \in Adapters, attr[a] # Nothing PROVE FALSE
    OBVIOUS
  <2>1. AdapterLeft(u) /\ a # job[u].on
    BY <1>2, <1>8 DEF LeftOf
  <2>2. a = instance
    BY <2>1 DEF AdapterLeft
  <2>3. a # Nothing
    <3>1. a \in Int /\ Nothing \notin Int
      BY StoreAssumption, ContextsAssumption DEF StoreAssumption, ContextsAssumption, Adapters
    <3> QED BY <3>1
  <2>4. CASE Says(u, "install")
    BY <1>2, <2>1, <2>2, <2>3, <2>4 DEF AdapterLeft
  <2>5. CASE ~Says(u, "install")
    BY <1>2, <2>1, <2>2, <2>5 DEF AdapterLeft
  <2> QED BY <2>4, <2>5
<1>10. \A w : ~Says(u, w)' /\ \A k \in {1, 2, 3, 4} : ~Is(todo'[u], k, w)
  BY <1>4 DEF Says, Is
<1>11. AdapterLeft(u)' /\ PlaceLeft(u)'
  BY <1>4, <1>9, <1>10 DEF AdapterLeft, PlaceLeft
<1>12. \A t \in Threads : conns[t] = Nothing \/ conns[t] \notin open
  <2>1. CASE setup.kind = "redis"
    <3>1. conns[setup.home[u]] \notin open
      BY <1>2, <1>5, <1>6, <1>7, <2>1 DEF ThreadTended, Replaces
    <3> QED BY <1>2, <3>1 DEF LeftCalm, EntriesLeft
  <2>2. CASE setup.kind # "redis"
    BY <2>2 DEF LeftCalm, EntriesLeft
  <2> QED BY <2>1, <2>2
<1>13. given' = {} /\ instance' = tracked' /\ EntriesLeft' /\ disturbed \in Nat
  BY <1>1 DEF LeftCalm, EntriesLeft, Crew
<1>14. open' = {}
  BY <1>1, <1>4, <1>9, <1>12, <1>13, NothingOpen
<1>15. disturbed' \in Nat /\ (disturbed' = 0 => disturbed = 0 /\ job[u].op \notin {"enter", "exit"})
  BY <1>4, <1>13
<1>16. LayersLeft(u)'
  <2>1. LayersLeft(u)
    BY <1>2 DEF LeftOf
  <2> QED BY <1>4, <1>15, <2>1 DEF LayersLeft, LayersOf, Tracked
<1>17. RestLeft(u)'
  BY <1>14 DEF RestLeft
<1> QED
  BY <1>2, <1>4, <1>11, <1>13, <1>15, <1>16, <1>17, LeftBy

\* A step of the store.
LEMMA LeftStoreStep ==
  ASSUME CtxInv, OnlyBlocks, LoneCalm, LostCalm, LeftCalm, NEW u \in Users, StoreStepHere(u), CtxInv', LostCalm'
  PROVE  LeftCalm'
<1>1. /\ StoreStep(u) /\ UNCHANGED <<setup, job, attr, instance, tracker, tracked, depth>>
      /\ disturbed' = IF job[u].op \in {"enter", "exit"} /\ answer'[u] = Raised THEN disturbed + 1 ELSE disturbed
      /\ disturbed' \in {disturbed, disturbed + 1}
  BY DEF StoreStepHere, StoreStep
<1>2. \A h \in {"promise", "own", "drop", "walk", "sweep", "purge"} : ~At(u, h)
  <2>1. ASSUME NEW h \in {"promise", "own", "drop", "walk", "sweep", "purge"}, At(u, h)
        PROVE  FALSE
    <3>1. h \in CtxSteps
      BY <2>1, LeftHere
    <3> QED BY <3>1 DEF CtxSteps
  <2> QED BY <2>1
<1>3. ~Promise(u) /\ ~Own(u) /\ ~DropThread(u) /\ ~Walk(u) /\ ~Sweep(u) /\ ~Purge(u)
  BY <1>2 DEF Promise, Own, DropThread, Walk, Sweep, Purge
<1>4. CASE Lookup(u)
  BY <1>1, <1>4, LeftLookup
<1>5. CASE Connect(u)
  BY <1>1, <1>5, LeftConnect
<1>6. CASE ConnectFails(u)
  BY <1>1, <1>6, LeftFails
<1>7. CASE Store(u)
  BY <1>1, <1>7, LeftStore
<1>8. CASE Seek(u)
  BY <1>1, <1>8, LeftSeek
<1>9. CASE Shut(u)
  BY <1>1, <1>9, LeftShut
<1>10. CASE Delete(u)
  BY <1>1, <1>10, LeftDelete
<1> QED
  BY <1>1, <1>3, <1>4, <1>5, <1>6, <1>7, <1>8, <1>9, <1>10 DEF StoreStep

-----------------------------------------------------------------------------
\* What may follow once the adapter has its connection.
LEMMA KeptFront ==
  \A w : Follows(TRUE, "keep_attr", w) /\ w # "exited" => w \notin Asked
BY DEF Follows, Asked, Haves

\* connect, when there is a connection and when there is none.
LEMMA LeftHave ==
  ASSUME CtxInv, OnlyBlocks, LostCalm, LeftCalm, NEW u \in Users, HaveAttr(u),
         UNCHANGED <<setup, conns, given, job, instance, tracker, tracked, depth, disturbed>>
  PROVE  LeftCalm'
<1> DEFINE n == IF setup.kind = "redis" THEN 4 ELSE 2
<1>1. At(u, "have_attr") /\ (Go(u) \/ Skip(u, n)) /\ attr' = attr /\ "have_attr" \in SyncWords /\ "have_attr" # "none"
  BY DEF HaveAttr, SyncWords
<1>2. /\ todo[u] \in Seq(Words) /\ Len(todo[u]) \in Nat \ {0} /\ todo[u][1] = "have_attr" /\ setup.kind \in {"redis", "memcached"}
      /\ Fits(setup.kind, TRUE, todo[u], 1)
  BY <1>1, LeftHere
<1>3. CASE Go(u)
  <2>1. \A k \in 1..4 : \A w : Is(todo'[u], k, w) <=> Is(todo[u], k + 1, w)
    BY <1>1, <1>3, GoFront
  <2>2. \A w : /\ (Is(todo'[u], 1, w) <=> Is(todo[u], 2, w)) /\ (Is(todo'[u], 2, w) <=> Is(todo[u], 3, w))
               /\ (Is(todo'[u], 4, w) <=> Is(todo[u], 5, w))
    <3>1. 1 \in 1..4 /\ 2 \in 1..4 /\ 4 \in 1..4 /\ 1 + 1 = 2 /\ 2 + 1 = 3 /\ 4 + 1 = 5
      OBVIOUS
    <3> QED BY <2>1, <3>1
  <2>3. CASE setup.kind = "redis"
    <3>1. Gain(todo[u], 1, "keep_attr")
      BY <1>2, <2>3 DEF Fits
    <3>2. Is(todo[u], 2, "lookup") /\ Is(todo[u], 5, "keep_attr")
      BY <3>1 DEF Gain, Pair, Looks, Is
    <3>3. Is(todo'[u], 1, "lookup") /\ Is(todo'[u], 4, "keep_attr")
      BY <2>2, <3>2
    <3>4. \A w : Is(todo'[u], 1, w) => w = "lookup"
      BY <3>3 DEF Is
    <3>5. PlaceLeft(u)'
      BY <2>3, <3>3, <3>4 DEF PlaceLeft
    <3> QED BY <1>1, <1>3, <3>5, GoLeft
  <2>4. CASE setup.kind = "memcached"
    <3>1. Pair(todo[u], 1, "connect", "keep_attr")
      BY <1>2, <2>4 DEF Fits
    <3>2. Is(todo[u], 2, "connect") /\ Is(todo[u], 3, "keep_attr")
      BY <3>1 DEF Pair, Looks, Is
    <3>3. Is(todo'[u], 1, "connect") /\ Is(todo'[u], 2, "keep_attr")
      BY <2>2, <3>2
    <3>4. \A w : Is(todo'[u], 1, w) => w = "connect"
      BY <3>3 DEF Is
    <3>5. PlaceLeft(u)'
      BY <2>4, <3>3, <3>4 DEF PlaceLeft
    <3> QED BY <1>1, <1>3, <3>5, GoLeft
  <2> QED BY <1>2, <2>3, <2>4
<1>4. CASE Skip(u, n)
  <2>1. n \in Nat /\ n + 1 <= Len(todo[u]) /\ todo[u][n + 1] = "keep_attr" /\ \A i \in 1..n + 1 : todo[u][i] \in SyncWords
    <3>1. CASE setup.kind = "redis"
      <4>1. Gain(todo[u], 1, "keep_attr")
        BY <1>2, <3>1 DEF Fits
      <4>2. /\ 5 <= Len(todo[u]) /\ todo[u][2] = "lookup" /\ todo[u][3] = "connect" /\ todo[u][4] = "store"
            /\ todo[u][5] = "keep_attr"
        BY <4>1 DEF Gain, Pair, Looks
      <4> QED BY <1>2, <3>1, <4>2 DEF SyncWords
    <3>2. CASE setup.kind = "memcached"
      <4>1. Pair(todo[u], 1, "connect", "keep_attr")
        BY <1>2, <3>2 DEF Fits
      <4>2. 3 <= Len(todo[u]) /\ todo[u][2] = "connect" /\ todo[u][3] = "keep_attr"
        BY <4>1 DEF Pair, Looks
      <4> QED BY <1>2, <3>2, <4>2 DEF SyncWords
    <3> QED BY <1>2, <3>1, <3>2
  <2> HIDE DEF n
  <2>2. \A w : Is(todo'[u], 1, w) => Follows(TRUE, todo[u][n + 1], w) /\ (w = "exited" => todo[u][n + 1] = "delete")
    BY <1>1, <1>4, <2>1, FrontLeft
  <2>3. \A w : Is(todo'[u], 1, w) => w \notin Asked
    BY <2>1, <2>2, KeptFront
  <2>4. PlaceLeft(u)'
    BY <1>1, <1>4, <2>1, <2>3, FrontLeft
  <2> QED BY <1>1, <1>4, <2>1, <2>4, PlainLeft
<1> QED
  BY <1>1, <1>3, <1>4

\* What an adapter does with the connection it has.
LEMMA LeftKeep ==
  ASSUME CtxInv, OnlyBlocks, LostCalm, LeftCalm, NEW u \in Users, KeepAttr(u) \/ ClearAttr(u) \/ Command(u),
         UNCHANGED <<setup, conns, given, job, instance, tracker, tracked, depth, disturbed>>
  PROVE  LeftCalm'
<1>1. PICK h \in {"keep_attr", "clear_attr", "command"} :
        /\ At(u, h) /\ Go(u)
        /\ h = "keep_attr" => KeepAttr(u)
        /\ h = "clear_attr" => ClearAttr(u)
        /\ h = "command" => Command(u)
  BY DEF KeepAttr, ClearAttr, Command
<1>2. h \in SyncWords /\ h # "none" /\ h \notin StoreSteps \cup Searches /\ h # "delete"
  BY DEF SyncWords, StoreSteps, Searches
<1>3. job[u].on \in Adapters /\ DOMAIN attr = Adapters
  BY <1>1, <1>2, OnIs, HeldApart
<1>4. \A a \in Adapters : a # job[u].on => attr'[a] = attr[a]
  BY <1>1, <1>3 DEF KeepAttr, ClearAttr, Command, On
<1>5. /\ \A w : Is(todo'[u], 1, w) => Follows(TRUE, h, w) /\ w \in CtxSteps \ Odd
      /\ \A w : Is(todo'[u], 1, w) => (w = "exited" => h = "delete") /\ (w = "make" => h = "get_adapter")
      /\ (\A w \in Asked : ~Is(todo'[u], 1, w)) => PlaceLeft(u)'
  BY <1>1, <1>2, GoFront
<1>6. PlaceLeft(u)'
  <2>1. CASE h = "keep_attr"
    <3>1. \A w : Is(todo'[u], 1, w) => w \notin Asked
      BY <1>2, <1>5, <2>1, KeptFront
    <3> QED BY <1>5, <3>1
  <2>2. CASE h = "clear_attr"
    <3>1. attr'[job'[u].on] = Nothing
      BY <1>1, <1>3, <2>2 DEF ClearAttr, On
    <3>2. \A w : Is(todo'[u], 1, w) => w = "seek"
      BY <1>5, <2>2 DEF Follows, Odd
    <3> QED BY <3>1, <3>2 DEF PlaceLeft
  <2>3. CASE h = "command"
    <3>1. \A w : Is(todo'[u], 1, w) => w \notin Asked
      BY <1>5, <2>3 DEF Follows, Haves, Asked
    <3> QED BY <1>5, <3>1
  <2> QED BY <2>1, <2>2, <2>3
<1> QED
  BY <1>1, <1>2, <1>4, <1>6, GoLeft

\* close, when the adapter has a connection and when it has none.
LEMMA LeftShutAttr ==
  ASSUME CtxInv, OnlyBlocks, LostCalm, LeftCalm, NEW u \in Users, ShutAttr(u)
  PROVE  LeftCalm'
<1>1. /\ At(u, "shut_attr") /\ UNCHANGED <<setup, conns, given, job, attr, instance, tracker, tracked, depth, disturbed>>
      /\ "shut_attr" \in SyncWords /\ "shut_attr" # "none"
      /\ IF attr[On(u)] = Nothing THEN Proceed(u, Drop(todo[u], 2), FALSE) ELSE Go(u)
  BY DEF ShutAttr, ctxVars, SyncWords
<1>2. /\ todo[u] \in Seq(Words) /\ Len(todo[u]) \in Nat \ {0} /\ todo[u][1] = "shut_attr" /\ setup.kind \in {"redis", "memcached"}
      /\ Fits(setup.kind, TRUE, todo[u], 1)
  BY <1>1, LeftHere
<1>3. CASE attr[On(u)] # Nothing
  <2>1. Go(u)
    BY <1>1, <1>3
  <2>2. /\ \A w : Is(todo'[u], 1, w) => Follows(TRUE, "shut_attr", w)
        /\ (\A w \in Asked : ~Is(todo'[u], 1, w)) => PlaceLeft(u)'
    BY <1>1, <2>1, GoFront
  <2>3. PlaceLeft(u)'
    BY <2>2 DEF Follows, Asked
  <2> QED BY <1>1, <2>1, <2>3, GoLeft
<1>4. CASE attr[On(u)] = Nothing
  <2>1. Skip(u, 1)
    <3>1. ~Awaits(Step(u)) /\ Drop(todo[u], 1 + 1) = Drop(todo[u], 2)
      BY <1>2 DEF Awaits
    <3> QED BY <1>1, <1>4, <3>1 DEF Skip, Continue, Proceed
  <2>2. 2 <= Len(todo[u]) /\ todo[u][2] = "clear_attr"
    BY <1>2 DEF Fits, Pair, Looks
  <2>3. 1 \in Nat /\ 1 + 1 <= Len(todo[u]) /\ todo[u][1 + 1] = "clear_attr" /\ \A i \in 1..1 + 1 : todo[u][i] \in SyncWords
    BY <1>2, <2>2 DEF SyncWords
  <2>4. \A w : Is(todo'[u], 1, w) => Follows(TRUE, todo[u][1 + 1], w) /\ w \in CtxSteps \ Odd
    BY <1>1, <2>1, <2>3, FrontLeft
  <2>5. \A w : Is(todo'[u], 1, w) => w = "seek"
    BY <2>3, <2>4 DEF Follows, Odd
  <2>6. PlaceLeft(u)'
    BY <1>1, <1>4, <2>5 DEF PlaceLeft, On
  <2> QED BY <1>1, <2>1, <2>3, <2>6, PlainLeft
<1> QED
  BY <1>3, <1>4

\* A step of the adapter.
LEMMA LeftAdapterStep ==
  ASSUME CtxInv, OnlyBlocks, LostCalm, LeftCalm, NEW u \in Users, AdapterStep(u)
  PROVE  LeftCalm'
<1>1. CASE ShutAttr(u)
  BY <1>1, LeftShutAttr
<1>2. CASE ~ShutAttr(u)
  <2>1. /\ HaveAttr(u) \/ HavePool(u) \/ KeepPool(u) \/ AwaitPool(u) \/ KeepAttr(u) \/ ClearAttr(u) \/ ClearPool(u)
           \/ Command(u)
        /\ UNCHANGED <<setup, conns, given, job, instance, tracker, tracked, depth, disturbed>>
    BY <1>2 DEF AdapterStep, storeVars
  <2>2. ASSUME NEW h \in {"have_pool", "keep_pool", "await_pool", "clear_pool"}, At(u, h)
        PROVE  FALSE
    <3>1. h \notin Odd
      BY <2>2, LeftHere
    <3> QED BY <3>1 DEF Odd
  <2>3. ~HavePool(u) /\ ~KeepPool(u) /\ ~AwaitPool(u) /\ ~ClearPool(u)
    BY <2>2 DEF HavePool, KeepPool, AwaitPool, ClearPool
  <2> QED BY <2>1, <2>3, LeftHave, LeftKeep
<1> QED
  BY <1>1, <1>2

\* Which call the steps of the blocks are of.
LEMMA BlockOps ==
  ASSUME NEW op \in {"enter", "exit", "call"}
  PROVE  /\ \A w \in {"virt_enter", "entered"} : w \in CtxWords(op) => op = "enter"
         /\ \A w \in {"virt_exit", "exited"} : w \in CtxWords(op) => op = "exit"
         /\ "install" \in CtxWords(op) => op # "exit"
BY DEF CtxWords, Stays, Enters, Leaves, PlainWords, ConnectWords, CloseWords

\* A step of the wrapper.
LEMMA WrapperLeft ==
  ASSUME CtxInv, OnlyBlocks, LostCalm, LeftCalm, NEW u \in Users, NEW h, At(u, h), h # "none",
         NEW n \in Nat, n + 1 <= Len(todo[u]), Skip(u, n), UNCHANGED <<setup, conns, given>>, instance' = tracked',
         disturbed' = disturbed, \A w \in Users \ {u} : depth'[w] = depth[w], job'[u].op = job[u].op,
         AdapterLeft(u)', PlaceLeft(u)', LayersLeft(u)', todo[u][n + 1] \in {"delete", "entered", "exited"} => RestLeft(u)'
  PROVE  LeftCalm'
<1>1. /\ todo'[u] # <<>> => InCtx(u)' /\ Tidy(job'[u].op, todo'[u])
      /\ todo'[u] = <<>> => todo[u][n + 1] = LastOf(job[u].op)
  BY LeftGoes
<1>2. Crew = {u}
  BY LeftHere
<1>3. RestLeft(u)'
  <2>1. LastOf(job[u].op) \in {"entered", "exited", "delete"}
    BY DEF LastOf
  <2> QED BY <1>1, <2>1 DEF RestLeft
<1>4. given' = {} /\ disturbed' \in Nat /\ EntriesLeft'
  BY DEF LeftCalm, EntriesLeft, Crew
<1> QED
  BY <1>1, <1>2, <1>3, <1>4, LeftBy

\* While an adapter is looked for, none but the wrapper's has a connection.
LEMMA SearchLeft ==
  ASSUME CtxInv, OnlyBlocks, LostCalm, LeftCalm, NEW u \in Users, NEW h \in Searches, At(u, h)
  PROVE  /\ AdapterLeft(u) /\ \A a \in Adapters : attr[a] # Nothing => a = instance
         /\ \A a \in Adapters : a # Nothing
<1>1. h # "none"
  BY DEF Searches
<1>2. AdapterLeft(u) /\ todo[u][1] = h
  BY <1>1, LeftHere DEF LeftOf
<1>3. \A a \in Adapters : a # Nothing
  BY StoreAssumption, ContextsAssumption DEF StoreAssumption, ContextsAssumption, Adapters
<1> QED
  BY <1>2, <1>3 DEF AdapterLeft

\* The steps up to the one that sets the wrapper's adapter.
LEMMA FindIs ==
  ASSUME CtxInv, OnlyBlocks, LostCalm, LeftCalm, NEW u \in Users, At(u, "get_adapter")
  PROVE  LET n == Len(Construct) + 1
         IN  /\ n \in Nat /\ n + 1 <= Len(todo[u]) /\ todo[u][n + 1] = "install"
             /\ \A i \in 1..n + 1 : todo[u][i] \notin {"virt_enter", "virt_exit", "entered", "exited"}
<1>1. /\ todo[u] \in Seq(Words) /\ Len(todo[u]) \in Nat \ {0} /\ todo[u][1] = "get_adapter"
      /\ setup.kind \in {"redis", "memcached"} /\ Shape(setup.kind, TRUE, todo[u])
  BY LeftHere
<1>2. Len(Construct) = MakeLen(setup.kind)
  BY Lengths
<1>3. Looks(todo[u], 1, MakeLen(setup.kind) + 1, "install")
  <2>1. 1 \in 1..Len(todo[u])
    BY <1>1
  <2> QED BY <1>1, <2>1 DEF Shape, Fits
<1>4. 2 \in 1..Len(todo[u]) /\ 1 < Len(todo[u]) /\ 1 \in 1..Len(todo[u])
  BY <1>1, <1>3 DEF Looks, MakeLen
<1>5. todo[u][2] = "make" /\ Fits(setup.kind, TRUE, todo[u], 2)
  <2>1. Follows(TRUE, todo[u][1], todo[u][1 + 1]) /\ Fits(setup.kind, TRUE, todo[u], 2)
    BY <1>1, <1>4 DEF Shape
  <2>2. 1 + 1 = 2
    OBVIOUS
  <2>3. Follows(TRUE, "get_adapter", todo[u][2])
    BY <1>1, <2>1, <2>2
  <2>4. todo[u][2] = "make"
    BY <2>3 DEF Follows
  <2> QED BY <2>1, <2>4
<1>6. CASE setup.kind = "redis"
  <2>1. Gain(todo[u], 2, "keep_attr")
    BY <1>5, <1>6 DEF Fits
  <2>2. todo[u][3] = "lookup" /\ todo[u][4] = "connect" /\ todo[u][5] = "store" /\ todo[u][6] = "keep_attr"
    BY <2>1 DEF Gain, Pair, Looks
  <2>3. 7 <= Len(todo[u]) /\ todo[u][7] = "install" /\ Len(Construct) = 5
    BY <1>2, <1>3, <1>6 DEF Looks, MakeLen
  <2>4. /\ 5 \in Nat /\ Len(Construct) + 1 = 6 /\ 6 + 1 = 7
        /\ \A i \in 1..7 : i = 1 \/ i = 2 \/ i = 3 \/ i = 4 \/ i = 5 \/ i = 6 \/ i = 7
    BY <2>3
  <2>5. \A i \in 1..7 : todo[u][i] \in {"get_adapter", "make", "lookup", "connect", "store", "keep_attr", "install"}
    BY <1>1, <1>5, <2>2, <2>3, <2>4
  <2>6. \A i \in 1..7 : todo[u][i] \notin {"virt_enter", "virt_exit", "entered", "exited"}
    BY <2>5
  <2>7. ASSUME NEW n, n = 6
        PROVE  /\ n \in Nat /\ n + 1 <= Len(todo[u]) /\ todo[u][n + 1] = "install"
               /\ \A i \in 1..n + 1 : todo[u][i] \notin {"virt_enter", "virt_exit", "entered", "exited"}
    BY <2>3, <2>4, <2>6, <2>7
  <2> QED BY <2>4, <2>7
<1>7. CASE setup.kind = "memcached"
  <2>1. 3 <= Len(todo[u]) /\ todo[u][3] = "install" /\ Len(Construct) = 1
    BY <1>2, <1>3, <1>7 DEF Looks, MakeLen
  <2>2. Len(Construct) + 1 = 2 /\ 2 + 1 = 3 /\ \A i \in 1..3 : i = 1 \/ i = 2 \/ i = 3
    BY <2>1
  <2>3. \A i \in 1..3 : todo[u][i] \in {"get_adapter", "make", "install"}
    BY <1>1, <1>5, <2>1, <2>2
  <2> QED BY <2>1, <2>2, <2>3
<1> QED
  BY <1>1, <1>6, <1>7

\* The wrapper's call goes on by one step.
LEMMA GoWrapper ==
  ASSUME CtxInv, OnlyBlocks, LostCalm, LeftCalm, NEW u \in Users, NEW h, At(u, h), h \notin StoreSteps \cup {"none"},
         Go(u), setup' = setup, job'[u].op = job[u].op
  PROVE  /\ 0 \in Nat /\ 0 + 1 <= Len(todo[u]) /\ Skip(u, 0) /\ todo[u][0 + 1] = h /\ \A i \in 1..0 + 1 : todo[u][i] = h
         /\ todo'[u] = <<>> => h = LastOf(job[u].op)
         /\ \A x : x # h => (Says(u, x)' <=> Says(u, x))
         /\ h \in Single => ~Says(u, h)'
         /\ Says(u, h)
<1>1. 0 \in Nat /\ 0 + 1 <= Len(todo[u]) /\ \A i \in 1..0 + 1 : todo[u][i] = h
  BY NextWord
<1>2. 0 + 1 \in 1..0 + 1
  OBVIOUS
<1>3. todo[u][0 + 1] = h /\ Skip(u, 0)
  BY <1>1, <1>2 DEF Go
<1>4. todo'[u] = <<>> => todo[u][0 + 1] = LastOf(job[u].op)
  BY <1>1, <1>3, LeftGoes
<1>5. \A x : (\A i \in 1..0 + 1 : todo[u][i] # x) => (Says(u, x)' <=> Says(u, x))
  BY <1>1, <1>3, LeftGoes
<1>6. \A x \in Single : (\E i \in 1..0 + 1 : todo[u][i] = x) => ~Says(u, x)'
  BY <1>1, <1>3, LeftGoes
<1>7. Says(u, h)
  <2>1. Len(todo[u]) \in Nat \ {0} /\ todo[u][1] = h
    BY WrapperHeads
  <2> QED BY <2>1 DEF Says
<1> QED
  BY <1>1, <1>2, <1>3, <1>4, <1>5, <1>6, <1>7

\* The steps that only the wrapper has.
Wraps == {"get_adapter", "make", "install", "virt_enter", "entered", "virt_exit", "exited"}
\* None of them is a step of the store.
LEMMA WrapsApart == Wraps \cap (StoreSteps \cup {"none"}) = {}
BY DEF Wraps, StoreSteps

\* get_adapter: with no adapter there is no connection either; one that there is, is taken.
LEMMA LeftGetAdapter ==
  ASSUME CtxInv, OnlyBlocks, LostCalm, LeftCalm, NEW u \in Users, GetAdapter(u)
  PROVE  LeftCalm'
<1>1. /\ At(u, "get_adapter")
      /\ IF instance = Nothing THEN Go(u) /\ UNCHANGED job ELSE SetOn(u, instance) /\ Skip(u, Len(Construct) + 1)
      /\ UNCHANGED <<setup, conns, given, instance, tracked, tracker, depth, attr, disturbed>>
  BY DEF GetAdapter, storeVars, ctxVars
<1>2. /\ "get_adapter" \notin StoreSteps \cup {"none"} /\ "get_adapter" # "none" /\ "get_adapter" \in Searches
      /\ instance = tracked /\ DOMAIN job = Users
  BY WrapsApart DEF Wraps, Searches, LeftCalm, CtxInv, CallTypes
<1>3. \A a \in Adapters : attr[a] # Nothing => a = instance /\ a # Nothing
  BY <1>1, <1>2, SearchLeft
<1>4. PICK n \in Nat : /\ n = Len(Construct) + 1 /\ n + 1 <= Len(todo[u]) /\ todo[u][n + 1] = "install"
                       /\ \A i \in 1..n + 1 : todo[u][i] \notin {"virt_enter", "virt_exit", "entered", "exited"}
  BY <1>1, FindIs
<1>5. Tracked' = Tracked /\ disturbed' \in {disturbed, disturbed + 1}
  BY <1>1 DEF Tracked
<1>6. CASE instance = Nothing
  <2>1. Go(u) /\ UNCHANGED job
    BY <1>1, <1>6
  <2>2. /\ 0 + 1 <= Len(todo[u]) /\ Skip(u, 0) /\ todo[u][0 + 1] = "get_adapter" /\ \A i \in 1..0 + 1 : todo[u][i] = "get_adapter"
        /\ "install" # "get_adapter" => (Says(u, "install")' <=> Says(u, "install"))
    BY <1>1, <1>2, <2>1, GoWrapper
  <2>3. Says(u, "install")'
    <3>1. n + 1 \in 1..Len(todo[u])
      BY <1>4, <1>1, <1>2, WrapperHeads
    <3>2. Says(u, "install")
      BY <1>4, <3>1 DEF Says
    <3> QED BY <2>2, <3>2
  <2>4. \A w : Is(todo'[u], 1, w) => Follows(TRUE, "get_adapter", w)
    BY <1>1, <1>2, <2>1, GoFront
  <2>5. \A w : Is(todo'[u], 1, w) => w = "make"
    BY <2>4 DEF Follows
  <2>6. PlaceLeft(u)'
    BY <2>3, <2>5 DEF PlaceLeft
  <2>7. AdapterLeft(u)'
    BY <1>1, <1>3, <1>6, <2>3 DEF AdapterLeft
  <2>8. LayersLeft(u)'
    <3>1. \A i \in 1..0 + 1 : todo[u][i] \notin {"virt_enter", "virt_exit", "entered", "exited"}
      BY <2>2
    <3> QED BY <1>1, <1>2, <1>5, <2>1, <2>2, <3>1, LayersLeftStay
  <2> QED BY <1>1, <1>2, <2>1, <2>2, <2>6, <2>7, <2>8, WrapperLeft
<1>7. CASE instance # Nothing
  <2>1. SetOn(u, instance) /\ Skip(u, n)
    BY <1>1, <1>4, <1>7
  <2>2. job'[u].op = job[u].op /\ job'[u].on = instance
    <3>1. job[u] \in [op : setup.ops \cup {"none"}, tid : Threads \cup {Nothing}, on : Int \cup {Nothing}]
      BY DEF CtxInv, CallTypes
    <3> QED BY <1>2, <2>1, <3>1 DEF SetOn
  <2>3. ~Says(u, "install")'
    <3>1. \A x \in Single : (\E i \in 1..n + 1 : todo[u][i] = x) => ~Says(u, x)'
      BY <1>1, <1>2, <1>4, <2>1, <2>2, LeftGoes
    <3>2. "install" \in Single /\ n + 1 \in 1..n + 1
      BY DEF Single
    <3> QED BY <1>4, <3>1, <3>2
  <2>4. /\ \A w : Is(todo'[u], 1, w) => Follows(TRUE, todo[u][n + 1], w)
        /\ \A w : Is(todo'[u], 1, w) => (w = "make" => todo[u][n + 1] = "get_adapter")
        /\ (\A w \in Asked : ~Is(todo'[u], 1, w)) => PlaceLeft(u)'
    BY <1>1, <1>2, <1>4, <2>1, <2>2, FrontLeft
  <2>5. \A w : Is(todo'[u], 1, w) => Follows(TRUE, "install", w) /\ w # "make"
    BY <1>4, <2>4
  <2>6. \A w : Is(todo'[u], 1, w) => w \notin Asked
    BY <2>5 DEF Follows, Haves, Asked
  <2>7. PlaceLeft(u)'
    BY <2>4, <2>6
  <2>8. AdapterLeft(u)'
    BY <1>1, <1>3, <2>2, <2>3 DEF AdapterLeft
  <2>9. LayersLeft(u)'
    BY <1>1, <1>2, <1>4, <1>5, <2>1, <2>2, LayersLeftStay
  <2> QED BY <1>1, <1>2, <1>4, <2>1, <2>2, <2>7, <2>8, <2>9, WrapperLeft
<1> QED
  BY <1>6, <1>7

\* The adapter that is made is the call's, and has no connection yet.
LEMMA LeftMake ==
  ASSUME CtxInv, OnlyBlocks, LostCalm, LeftCalm, NEW u \in Users, Make(u)
  PROVE  LeftCalm'
<1>1. /\ At(u, "make") /\ Go(u) /\ SetOn(u, adapters + 1)
      /\ UNCHANGED <<setup, conns, given, instance, tracked, tracker, depth, attr, disturbed>>
  BY DEF Make, storeVars
<1>2. /\ "make" \notin StoreSteps \cup {"none"} /\ "make" # "none" /\ "make" \in Searches /\ "make" \in Wraps
      /\ instance = tracked /\ DOMAIN job = Users
  BY WrapsApart DEF Wraps, Searches, LeftCalm, CtxInv, CallTypes
<1>3. \A a \in Adapters : attr[a] # Nothing => a = instance /\ a # Nothing
  BY <1>1, <1>2, SearchLeft
<1>4. job'[u].op = job[u].op
  <2>1. job[u] \in [op : setup.ops \cup {"none"}, tid : Threads \cup {Nothing}, on : Int \cup {Nothing}]
    BY DEF CtxInv, CallTypes
  <2> QED BY <1>1, <1>2, <2>1 DEF SetOn
<1>5. /\ 0 + 1 <= Len(todo[u]) /\ Skip(u, 0) /\ todo[u][0 + 1] = "make" /\ \A i \in 1..0 + 1 : todo[u][i] = "make"
      /\ "install" # "make" => (Says(u, "install")' <=> Says(u, "install"))
  BY <1>1, <1>2, <1>4, GoWrapper
<1>6. /\ \A k \in 1..4 : \A w : Is(todo'[u], k, w) <=> Is(todo[u], k + 1, w)
      /\ \A w : Is(todo'[u], 1, w) => Follows(TRUE, "make", w) /\ w \in CtxSteps \ Odd
      /\ (\A w \in Asked : ~Is(todo'[u], 1, w)) => PlaceLeft(u)'
      /\ PlaceLeft(u) /\ Fits(setup.kind, TRUE, todo[u], 1) /\ Is(todo[u], 1, "make")
  BY <1>1, <1>2, <1>4, GoFront
<1>7. \A w : Is(todo'[u], 1, w) => w \in {"lookup", "install"}
  BY <1>6 DEF Follows, Odd
<1>8. Says(u, "install") /\ todo[u][1] = "make" /\ todo[u] # <<>> /\ setup.kind \in {"redis", "memcached"} /\ AdapterLeft(u)
  BY <1>1, <1>2, <1>6, LeftHere DEF PlaceLeft, LeftOf
<1>9. Says(u, "install")' /\ instance = Nothing
  BY <1>5, <1>8 DEF AdapterLeft
<1>10. AdapterLeft(u)'
  BY <1>1, <1>3, <1>9 DEF AdapterLeft
<1>11. PlaceLeft(u)'
  <2>1. CASE Is(todo'[u], 1, "lookup")
    <3>1. Is(todo[u], 2, "lookup")
      <4>1. 1 \in 1..4 /\ 1 + 1 = 2
        OBVIOUS
      <4> QED BY <1>6, <2>1, <4>1
    <3>2. setup.kind = "redis"
      <4>1. CASE setup.kind = "memcached"
        <5>1. \E a \in {"install", "share", "unset"} : Looks(todo[u], 1, 1, a)
          BY <1>6, <1>8, <4>1 DEF Fits
        <5> QED BY <3>1, <5>1 DEF Is, Looks
      <4> QED BY <1>8, <4>1
    <3>3. Gain(todo[u], 1, "keep_attr")
      BY <1>6, <1>8, <3>2 DEF Fits
    <3>4. Is(todo'[u], 4, "keep_attr")
      <4>1. 4 \in 1..4 /\ 4 + 1 = 5 /\ 1 + 4 = 5
        OBVIOUS
      <4>2. Is(todo[u], 5, "keep_attr")
        BY <3>3, <4>1 DEF Gain, Looks, Is
      <4> QED BY <1>6, <4>1, <4>2
    <3>5. \A w : Is(todo'[u], 1, w) => w = "lookup"
      BY <2>1 DEF Is
    <3> QED BY <1>1, <3>2, <3>4, <3>5 DEF PlaceLeft
  <2>2. CASE ~Is(todo'[u], 1, "lookup")
    <3>1. \A w \in Asked : ~Is(todo'[u], 1, w)
      BY <1>7, <2>2 DEF Asked
    <3> QED BY <1>6, <3>1
  <2> QED BY <2>1, <2>2
<1>12. LayersLeft(u)'
  <2>1. Tracked' = Tracked /\ disturbed' \in {disturbed, disturbed + 1}
    BY <1>1 DEF Tracked
  <2>2. \A i \in 1..0 + 1 : todo[u][i] \notin {"virt_enter", "virt_exit", "entered", "exited"}
    BY <1>5
  <2> QED BY <1>1, <1>2, <1>4, <1>5, <2>1, <2>2, LayersLeftStay
<1> QED
  BY <1>1, <1>2, <1>4, <1>5, <1>10, <1>11, <1>12, WrapperLeft

\* The adapter becomes the wrapper's, with what connection it has; no block has been entered yet.
LEMMA LeftInstall ==
  ASSUME CtxInv, OnlyBlocks, LostCalm, LeftCalm, NEW u \in Users, Install(u)
  PROVE  LeftCalm'
<1>1. /\ At(u, "install") /\ Go(u) /\ instance' = job[u].on /\ tracked' = job[u].on
      /\ tracker' = [tracker EXCEPT ![job[u].on] = NoLayers]
      /\ UNCHANGED <<setup, conns, given, job, depth, attr, disturbed>>
  BY DEF Install, On, storeVars
<1>2. /\ "install" \notin StoreSteps \cup {"none"} /\ "install" # "none" /\ "install" \notin StoreSteps \cup Searches
      /\ "install" \in Single /\ instance = tracked /\ DOMAIN tracker = Adapters
  BY WrapsApart DEF Wraps, StoreSteps, Searches, Single, LeftCalm, CtxInv, AdapterTypes
<1>3. job[u].on \in Adapters /\ job[u].on # Nothing /\ job'[u].op = job[u].op
  <2>1. job[u].on \in Adapters
    BY <1>1, <1>2, OnIs
  <2> QED BY <1>1, <2>1, StoreAssumption, ContextsAssumption DEF StoreAssumption, ContextsAssumption, Adapters
<1>4. /\ 0 + 1 <= Len(todo[u]) /\ Skip(u, 0) /\ todo[u][0 + 1] = "install" /\ \A i \in 1..0 + 1 : todo[u][i] = "install"
      /\ ~Says(u, "install")' /\ Says(u, "install")
  BY <1>1, <1>2, <1>3, GoWrapper
<1>5. /\ \A w : Is(todo'[u], 1, w) => Follows(TRUE, "install", w)
      /\ \A w : Is(todo'[u], 1, w) => (w = "exited" => "install" = "delete") /\ (w = "make" => "install" = "get_adapter")
      /\ (\A w \in Asked : ~Is(todo'[u], 1, w)) => PlaceLeft(u)'
  BY <1>1, <1>2, <1>3, GoFront
<1>6. PlaceLeft(u)'
  <2>1. \A w : Is(todo'[u], 1, w) => w \notin Asked
    BY <1>5 DEF Follows, Haves, Asked
  <2> QED BY <1>5, <2>1
<1>7. AdapterLeft(u) /\ todo[u][1] = "install" /\ todo[u] # <<>>
  BY <1>1, <1>2, LeftHere DEF LeftOf
<1>8. instance = Nothing
  BY <1>4, <1>7 DEF AdapterLeft
<1>9. AdapterLeft(u)'
  <2>1. \A a \in Adapters : attr'[a] # Nothing => a = job[u].on
    <3>1. \A a \in Adapters : a # Nothing
      BY StoreAssumption, ContextsAssumption DEF StoreAssumption, ContextsAssumption, Adapters
    <3> QED BY <1>1, <1>7, <1>8, <3>1 DEF AdapterLeft
  <2> QED BY <1>1, <1>4, <2>1 DEF AdapterLeft
<1>10. LayersLeft(u)'
  <2>1. Tracked' = Tracked
    BY <1>1, <1>2, <1>3, <1>8 DEF Tracked
  <2>2. /\ disturbed' \in {disturbed, disturbed + 1}
        /\ \A i \in 1..0 + 1 : todo[u][i] \notin {"virt_enter", "virt_exit", "entered", "exited"}
    BY <1>1, <1>4
  <2> QED BY <1>1, <1>2, <1>3, <1>4, <2>1, <2>2, LayersLeftStay
<1> QED
  BY <1>1, <1>2, <1>3, <1>4, <1>6, <1>9, <1>10, WrapperLeft

\* How many layers there are with one block more, or less.
LEMMA LayerCounts ==
  ASSUME NEW d \in Nat
  PROVE  /\ LayersOf(d) \in Nat /\ LayersOf(d + 1) \in Nat
         /\ MaxLayers = 0 \/ LayersOf(d) < MaxLayers => LayersOf(d) = d /\ LayersOf(d + 1) = d + 1
         /\ ~(MaxLayers = 0 \/ LayersOf(d) < MaxLayers) => LayersOf(d + 1) = LayersOf(d)
         /\ d < LayersOf(d + 1) => LayersOf(d + 1) = d + 1 /\ LayersOf(d) = d
         /\ ~(d < LayersOf(d + 1)) => LayersOf(d + 1) = LayersOf(d) /\ d # 0
<1>1. MaxLayers \in Nat
  BY ContextsAssumption DEF ContextsAssumption
<1> QED
  BY <1>1 DEF LayersOf

\* Where a caller is who counts a block in or out.
LEMMA BlockHere ==
  ASSUME CtxInv, OnlyBlocks, LostCalm, LeftCalm, NEW u \in Users,
         NEW h \in {"virt_enter", "entered", "virt_exit", "exited"}, At(u, h)
  PROVE  /\ ~Says(u, "install") /\ job[u].on = tracked /\ instance = tracked
         /\ tracked \in Adapters /\ tracked # Nothing /\ Tracked = tracker[tracked]
         /\ DOMAIN tracker = Adapters /\ tracker[tracked] \in [layer : Int, virtual : Nat, contexts : Int]
         /\ job[u].op = IF h \in {"virt_enter", "entered"} THEN "enter" ELSE "exit"
         /\ depth[u] \in Nat /\ DOMAIN depth = Users
         /\ Says(u, h) /\ todo[u] # <<>> /\ h \notin StoreSteps \cup {"none"} /\ h # "none"
         /\ h \in {"entered", "exited"} => Len(todo[u]) = 0 + 1 /\ \A w : Says(u, w) => w = h
         /\ \A a \in Adapters : attr[a] # Nothing => a = tracked
         /\ AdapterLeft(u) /\ LayersLeft(u) /\ PlaceLeft(u)
<1>1. /\ h \notin StoreSteps \cup {"none"} /\ h # "none" /\ h \notin StoreSteps \cup Searches
  BY WrapsApart DEF Wraps, Searches
<1>2. /\ todo[u] # <<>> /\ Len(todo[u]) \in Nat \ {0} /\ todo[u][1] = h /\ job[u].on \in Adapters
      /\ AdapterLeft(u) /\ LayersLeft(u) /\ PlaceLeft(u) /\ job[u].op \in {"enter", "exit", "call"}
      /\ \A i \in 1..Len(todo[u]) : todo[u][i] \in CtxWords(job[u].op)
  BY <1>1, LeftHere DEF LeftOf, Searches
<1>3. job[u].op = IF h \in {"virt_enter", "entered"} THEN "enter" ELSE "exit"
  <2>1. 1 \in 1..Len(todo[u])
    BY <1>2
  <2>2. h \in CtxWords(job[u].op)
    BY <1>2, <2>1
  <2> QED BY <1>2, <2>2, BlockOps
<1>4. Says(u, h)
  BY <1>2 DEF Says
<1>5. h \in {"entered", "exited"} => Len(todo[u]) = 0 + 1 /\ \A w : Says(u, w) => w = h
  <2> SUFFICES ASSUME h \in {"entered", "exited"}
               PROVE  Len(todo[u]) = 0 + 1 /\ \A w : Says(u, w) => w = h
    OBVIOUS
  <2>1. 0 \in Nat /\ 0 + 1 <= Len(todo[u]) /\ todo[u][0 + 1] \in Ends
    BY <1>2 DEF Ends
  <2>2. ~(0 + 1 < Len(todo[u]))
    BY <1>1, <2>1, NothingBehind
  <2>3. \A k \in Nat \ {0} : ~(0 + 1 < k) => k = 0 + 1
    OBVIOUS
  <2>4. Len(todo[u]) = 0 + 1
    BY <1>2, <2>2, <2>3
  <2>5. \A i \in 1..Len(todo[u]) : i = 1
    BY <2>4
  <2> QED BY <1>2, <2>4, <2>5 DEF Says
<1>6. /\ instance = tracked /\ DOMAIN tracker = Adapters /\ depth[u] \in Nat /\ DOMAIN depth = Users
      /\ \A a \in Adapters : tracker[a] \in [layer : Int, virtual : Nat, contexts : Int]
      /\ tracked # Nothing => tracked \in Adapters
  BY ContextsAssumption DEF LeftCalm, CtxInv, AdapterTypes, Valid, Adapters, ContextsAssumption
<1>7. \A a \in Adapters : a # Nothing
  BY StoreAssumption, ContextsAssumption DEF StoreAssumption, ContextsAssumption, Adapters
<1>8. ~Says(u, "install")
  <2>1. CASE h = "virt_enter"
    <3>1. tracked # Nothing
      BY <1>2, <2>1 DEF CtxInv, Under
    <3> QED BY <1>2, <1>6, <2>1, <3>1 DEF AdapterLeft
  <2>2. CASE h \in {"entered", "exited"}
    BY <1>5, <2>2
  <2>3. CASE h = "virt_exit"
    <3>1. "install" \notin CtxWords(job[u].op)
      BY <1>3, <2>3, BlockOps
    <3> QED BY <1>2, <3>1 DEF Says
  <2> QED BY <2>1, <2>2, <2>3
<1>9. job[u].on = tracked /\ tracked # Nothing
  BY <1>2, <1>6, <1>7, <1>8 DEF AdapterLeft
<1>10. \A a \in Adapters : attr[a] # Nothing => a = tracked
  BY <1>2, <1>6, <1>8 DEF AdapterLeft
<1> QED
  BY <1>1, <1>2, <1>3, <1>4, <1>5, <1>6, <1>8, <1>9, <1>10 DEF Tracked

\* A block that is counted and goes on into, or out of, the object.
LEMMA BlockGoes ==
  ASSUME CtxInv, OnlyBlocks, LostCalm, LeftCalm, NEW u \in Users, NEW h \in {"virt_enter", "virt_exit"}, At(u, h),
         Go(u), UNCHANGED <<setup, conns, given, attr, job, depth, disturbed, instance, tracked>>,
         todo'[u] # <<>> /\ ~Says(u, h)' => LayersLeft(u)'
  PROVE  LeftCalm'
<1>1. /\ ~Says(u, "install") /\ instance = tracked /\ h \notin StoreSteps \cup {"none"} /\ h # "none"
      /\ job[u].op \in {"enter", "exit"}
  BY BlockHere
<1>2. /\ 0 + 1 <= Len(todo[u]) /\ Skip(u, 0) /\ todo[u][0 + 1] = h /\ \A i \in 1..0 + 1 : todo[u][i] = h
      /\ todo'[u] = <<>> => h = LastOf(job[u].op)
      /\ h \in Single => ~Says(u, h)'
  BY <1>1, GoWrapper
<1>3. todo'[u] # <<>> /\ ~Says(u, h)'
  BY <1>1, <1>2 DEF LastOf, Single
<1>4. /\ \A w : Is(todo'[u], 1, w) => Follows(TRUE, h, w)
      /\ (\A w \in Asked : ~Is(todo'[u], 1, w)) => PlaceLeft(u)'
  BY <1>1, GoFront
<1>5. PlaceLeft(u)'
  <2>1. \A w : Is(todo'[u], 1, w) => w \notin Asked
    BY <1>4 DEF Follows, Asked
  <2> QED BY <1>4, <2>1
<1>6. AdapterLeft(u)'
  <2>1. \A i \in 1..0 + 1 : todo[u][i] \notin {"install", "get_adapter", "make"}
    BY <1>2
  <2> QED BY <1>1, <1>2, <2>1, AdapterLeftStays
<1> QED
  BY <1>1, <1>2, <1>3, <1>5, <1>6, WrapperLeft

\* A call that ends by counting a block in or out.
LEMMA BlockEnds ==
  ASSUME CtxInv, OnlyBlocks, LostCalm, LeftCalm, NEW u \in Users,
         NEW h \in {"virt_enter", "entered", "virt_exit", "exited"}, At(u, h),
         NEW n \in Nat, n + 1 <= Len(todo[u]), todo[u][n + 1] \in {"entered", "exited"}, Skip(u, n),
         UNCHANGED <<setup, conns, given, attr, job, disturbed, instance, tracked>>,
         \A w \in Users \ {u} : depth'[w] = depth[w],
         todo'[u] = <<>> => LayersLeft(u)' /\ RestLeft(u)'
  PROVE  LeftCalm'
<1>1. /\ ~Says(u, "install") /\ instance = tracked /\ h \notin StoreSteps \cup {"none"} /\ h # "none"
      /\ \A a \in Adapters : attr[a] # Nothing => a = tracked
  BY BlockHere
<1>2. todo'[u] = <<>>
  <2>1. ~(n + 1 < Len(todo[u]))
    BY <1>1, NothingBehind DEF Ends
  <2>2. Len(todo[u]) \in Nat /\ n + 1 = Len(todo[u])
    <3>1. Len(todo[u]) \in Nat
      BY <1>1, LeftHere
    <3> QED BY <2>1, <3>1
  <2> QED BY <1>1, <2>2, LeftGoes
<1>3. \A k \in {1, 2, 3, 4} : \A w : ~Is(todo'[u], k, w)
  BY <1>2 DEF Is
<1>4. PlaceLeft(u)'
  BY <1>3 DEF PlaceLeft
<1>5. AdapterLeft(u)'
  <2>1. ~Says(u, "install")'
    BY <1>2 DEF Says
  <2> QED BY <1>1, <1>2, <2>1 DEF AdapterLeft
<1> QED
  BY <1>1, <1>2, <1>4, <1>5, WrapperLeft

\* A block more: the object is entered while there are layers left.
LEMMA LeftVirtEnter ==
  ASSUME CtxInv, OnlyBlocks, LostCalm, LeftCalm, NEW u \in Users, VirtEnterStep(u)
  PROVE  LeftCalm'
<1> DEFINE d == depth[u]
<1>1. At(u, "virt_enter") /\ "virt_enter" \in {"virt_enter", "entered", "virt_exit", "exited"}
  BY DEF VirtEnterStep
<1>2. /\ job[u].on = tracked /\ tracked \in Adapters /\ tracked # Nothing /\ Tracked = tracker[tracked]
      /\ DOMAIN tracker = Adapters /\ job[u].op = "enter" /\ d \in Nat /\ DOMAIN depth = Users
      /\ Says(u, "virt_enter") /\ LayersLeft(u)
      /\ "virt_enter" \notin StoreSteps \cup {"none"} /\ "virt_enter" # "none"
  BY <1>1, BlockHere
<1>3. PICK l \in [layer : Int, virtual : Nat, contexts : Int] : l = tracker[tracked]
  BY <1>1, BlockHere
<1>4. UNCHANGED job
  <2>1. job \in [Users -> [op : setup.ops \cup {"none"}, tid : Threads \cup {Nothing}, on : Int \cup {Nothing}]]
    BY DEF CtxInv, CallTypes
  <2>2. job' = [job EXCEPT ![u].on = tracked]
    BY DEF VirtEnterStep, SetOn
  <2> QED BY <1>2, <2>1, <2>2
<1>5. disturbed' = disturbed
  <2>1. \A w \in Users \ {u} : todo[w] = <<>>
    BY <1>1, <1>2, LeftHere, OthersIdle DEF OnlyBlocks
  <2>2. \A w \in Users \ {u} : ~Crossing(w)
    BY <2>1 DEF Crossing
  <2> QED BY <2>2 DEF VirtEnterStep
<1>6. /\ UNCHANGED <<setup, conns, given, attr, instance, tracked>>
      /\ IF EntersObject(VirtEnter(l), MaxLayers) THEN Go(u) /\ UNCHANGED depth
         ELSE Skip(u, Len(Enter) + 1) /\ depth' = [depth EXCEPT ![u] = d + 1]
      /\ tracker' = [tracker EXCEPT ![tracked] = VirtEnter(l)]
  BY <1>3 DEF VirtEnterStep, storeVars
<1>7. Tracked' = VirtEnter(l) /\ VirtEnter(l).layer = l.layer /\ VirtEnter(l).virtual = l.virtual + 1
  BY <1>2, <1>6 DEF Tracked, VirtEnter
<1>8. disturbed = 0 => l.virtual = d /\ l.layer = LayersOf(d)
  BY <1>2, <1>3 DEF LayersLeft
<1>9. EntersObject(VirtEnter(l), MaxLayers) <=> (MaxLayers = 0 \/ l.layer < MaxLayers)
  BY <1>7 DEF EntersObject
<1>10. CASE EntersObject(VirtEnter(l), MaxLayers)
  <2>1. Go(u) /\ UNCHANGED depth
    BY <1>6, <1>10
  <2>2. ASSUME todo'[u] # <<>>, ~Says(u, "virt_enter")', disturbed' = 0
        PROVE  Tracked'.virtual = d + 1 /\ Tracked'.layer = d /\ LayersOf(d + 1) = d + 1
    BY <1>2, <1>5, <1>7, <1>8, <1>9, <1>10, <2>2, LayerCounts
  <2>3. todo'[u] # <<>> /\ ~Says(u, "virt_enter")' => LayersLeft(u)'
    BY <1>2, <1>4, <2>1, <2>2 DEF LayersLeft, LayersOf
  <2> QED BY <1>1, <1>4, <1>5, <1>6, <2>1, <2>3, BlockGoes
<1>11. CASE ~EntersObject(VirtEnter(l), MaxLayers)
  <2> DEFINE n == Len(Enter) + 1
  <2>1. Skip(u, n) /\ depth'[u] = d + 1 /\ \A w \in Users \ {u} : depth'[w] = depth[w]
    BY <1>2, <1>6, <1>11
  <2>2. n \in Nat /\ n + 1 <= Len(todo[u]) /\ todo[u][n + 1] = "entered"
    <3>1. /\ todo[u][1] = "virt_enter" /\ Fits(setup.kind, TRUE, todo[u], 1) /\ setup.kind \in Wrapped
      BY <1>1, <1>2, WrapperHeads
    <3>2. /\ Looks(todo[u], 1, EnterLen(setup.kind) + 1, "entered")
          /\ EnterLen(setup.kind) \in Nat /\ Len(Enter) = EnterLen(setup.kind)
      BY <3>1, Lengths DEF Fits, EnterLen
    <3>3. 1 + (EnterLen(setup.kind) + 1) = (EnterLen(setup.kind) + 1) + 1 /\ EnterLen(setup.kind) + 1 \in Nat
      BY <3>2
    <3> QED BY <3>2, <3>3 DEF Looks
  <2>3. ASSUME todo'[u] = <<>>
        PROVE  LayersLeft(u)' /\ RestLeft(u)'
    <3>1. disturbed' = 0 => Tracked'.virtual = d + 1 /\ Tracked'.layer = LayersOf(d + 1)
      BY <1>2, <1>5, <1>7, <1>8, <1>9, <1>11, LayerCounts
    <3>2. LayersLeft(u)'
      BY <2>1, <2>3, <3>1 DEF LayersLeft, LayersOf
    <3>3. RestLeft(u)'
      BY <1>2, <2>1 DEF RestLeft
    <3> QED BY <3>2, <3>3
  <2> HIDE DEF n
  <2> QED BY <1>1, <1>4, <1>5, <1>6, <2>1, <2>2, <2>3, BlockEnds
<1> QED
  BY <1>10, <1>11

\* The object has been entered.
LEMMA LeftEntered ==
  ASSUME CtxInv, OnlyBlocks, LostCalm, LeftCalm, NEW u \in Users, EnteredStep(u)
  PROVE  LeftCalm'
<1> DEFINE d == depth[u]
<1>1. /\ At(u, "entered") /\ "entered" \in {"virt_enter", "entered", "virt_exit", "exited"}
      /\ Go(u) /\ depth' = [depth EXCEPT ![u] = @ + 1] /\ tracker' = [tracker EXCEPT ![job[u].on] = Entered(@)]
      /\ UNCHANGED <<setup, conns, given, attr, job, disturbed, instance, tracked>>
  BY DEF EnteredStep, On, storeVars
<1>2. /\ job[u].on = tracked /\ tracked \in Adapters /\ tracked # Nothing /\ Tracked = tracker[tracked]
      /\ DOMAIN tracker = Adapters /\ job[u].op = "enter" /\ d \in Nat /\ DOMAIN depth = Users
      /\ LayersLeft(u) /\ "entered" \notin StoreSteps \cup {"none"} /\ "entered" # "none" /\ todo[u] # <<>>
      /\ ~Says(u, "virt_enter") /\ job'[u].op = job[u].op
  BY <1>1, BlockHere
<1>3. 0 \in Nat /\ 0 + 1 <= Len(todo[u]) /\ Skip(u, 0) /\ todo[u][0 + 1] \in {"entered", "exited"}
  BY <1>1, <1>2, GoWrapper
<1>4. PICK l \in [layer : Int, virtual : Nat, contexts : Int] : l = tracker[tracked]
  BY <1>1, BlockHere
<1>5. Tracked' = Entered(l) /\ Entered(l).layer = l.layer + 1 /\ Entered(l).virtual = l.virtual
  BY <1>1, <1>2, <1>4 DEF Tracked, Entered
<1>6. disturbed = 0 => l.virtual = d + 1 /\ l.layer = d /\ LayersOf(d + 1) = d + 1
  BY <1>2, <1>4 DEF LayersLeft
<1>7. depth'[u] = d + 1 /\ \A w \in Users \ {u} : depth'[w] = depth[w]
  BY <1>1, <1>2
<1>8. ASSUME todo'[u] = <<>>
      PROVE  LayersLeft(u)' /\ RestLeft(u)'
  <2>1. disturbed' = 0 => Tracked'.virtual = d + 1 /\ Tracked'.layer = LayersOf(d + 1)
    BY <1>1, <1>5, <1>6
  <2>2. LayersLeft(u)'
    BY <1>7, <1>8, <2>1 DEF LayersLeft, LayersOf
  <2>3. RestLeft(u)'
    BY <1>2, <1>7 DEF RestLeft
  <2> QED BY <2>2, <2>3
<1> QED
  BY <1>1, <1>3, <1>7, <1>8, BlockEnds

\* A block less: the object is left once there are more layers than blocks.
LEMMA LeftVirtExit ==
  ASSUME CtxInv, OnlyBlocks, LostCalm, LeftCalm, NEW u \in Users, VirtExitStep(u)
  PROVE  LeftCalm'
<1> DEFINE d == depth[u]
<1>1. /\ At(u, "virt_exit") /\ "virt_exit" \in {"virt_enter", "entered", "virt_exit", "exited"}
      /\ UNCHANGED <<setup, conns, given, attr, job, depth, disturbed, instance, tracked>>
  BY DEF VirtExitStep, storeVars
<1>2. /\ job[u].on = tracked /\ tracked \in Adapters /\ tracked # Nothing /\ Tracked = tracker[tracked]
      /\ DOMAIN tracker = Adapters /\ job[u].op = "exit" /\ d \in Nat /\ todo[u] # <<>>
      /\ Says(u, "virt_exit") /\ LayersLeft(u)
      /\ "virt_exit" \notin StoreSteps \cup {"none"} /\ "virt_exit" # "none"
  BY <1>1, BlockHere
<1>3. PICK l \in [layer : Int, virtual : Nat, contexts : Int] : l = tracker[tracked]
  BY <1>1, BlockHere
<1>4. /\ tracker' = [tracker EXCEPT ![tracked] = VirtExit(l)]
      /\ IF LeavesObject(l) THEN Go(u) ELSE Skip(u, Len(Exit) + 1)
  BY <1>2, <1>3 DEF VirtExitStep, On
<1>5. disturbed = 0 => l.virtual = d + 1 /\ l.layer = LayersOf(d + 1)
  BY <1>2, <1>3 DEF LayersLeft
<1>6. disturbed = 0 => Tracked'.virtual = d /\ Tracked'.layer = LayersOf(d + 1)
  BY <1>1, <1>2, <1>4, <1>5 DEF Tracked, VirtExit
<1>7. disturbed = 0 => (LeavesObject(l) <=> d < LayersOf(d + 1))
  BY <1>2, <1>5 DEF LeavesObject
<1>8. CASE LeavesObject(l)
  <2>1. Go(u)
    BY <1>4, <1>8
  <2>2. disturbed' = 0 => Tracked'.virtual = d /\ Tracked'.layer = d + 1 /\ LayersOf(d + 1) = d + 1
    BY <1>1, <1>2, <1>6, <1>7, <1>8, LayerCounts
  <2>3. todo'[u] # <<>> /\ ~Says(u, "virt_exit")' => LayersLeft(u)'
    BY <1>1, <1>2, <2>2 DEF LayersLeft, LayersOf
  <2> QED BY <1>1, <2>1, <2>3, BlockGoes
<1>9. CASE ~LeavesObject(l)
  <2> DEFINE n == Len(Exit) + 1
  <2>1. Skip(u, n)
    BY <1>4, <1>9
  <2>2. n \in Nat /\ n + 1 <= Len(todo[u]) /\ todo[u][n + 1] = "exited"
    <3>1. /\ todo[u][1] = "virt_exit" /\ Fits(setup.kind, TRUE, todo[u], 1) /\ setup.kind \in Wrapped
      BY <1>1, <1>2, WrapperHeads
    <3>2. Looks(todo[u], 1, ExitLen(setup.kind) + 1, "exited") /\ ExitLen(setup.kind) \in Nat /\ Len(Exit) = ExitLen(setup.kind)
      BY <3>1, Lengths DEF Fits, ExitLen, EnterLen
    <3>3. 1 + (ExitLen(setup.kind) + 1) = (ExitLen(setup.kind) + 1) + 1 /\ ExitLen(setup.kind) + 1 \in Nat
      BY <3>2
    <3> QED BY <3>2, <3>3 DEF Looks
  <2>3. ASSUME todo'[u] = <<>>
        PROVE  LayersLeft(u)' /\ RestLeft(u)'
    <3>1. disturbed' = 0 => Tracked'.virtual = d /\ Tracked'.layer = LayersOf(d) /\ d # 0
      <4> SUFFICES ASSUME disturbed = 0
                   PROVE  Tracked'.virtual = d /\ Tracked'.layer = LayersOf(d) /\ d # 0
        BY <1>1
      <4>1. ~(d < LayersOf(d + 1))
        BY <1>7, <1>9
      <4>2. LayersOf(d + 1) = LayersOf(d) /\ d # 0
        BY <1>2, <4>1, LayerCounts
      <4> QED BY <1>6, <4>2
    <3>2. LayersLeft(u)'
      BY <1>1, <2>3, <3>1 DEF LayersLeft, LayersOf
    <3>3. RestLeft(u)'
      BY <1>1, <3>1 DEF RestLeft
    <3> QED BY <3>2, <3>3
  <2> HIDE DEF n
  <2> QED BY <1>1, <2>1, <2>2, <2>3, BlockEnds
<1> QED
  BY <1>8, <1>9

\* The object has been left, and with it the connection: the layer that is popped is there.
LEMMA LeftExited ==
  ASSUME CtxInv, OnlyBlocks, LoneCalm, LostCalm, LeftCalm, NEW u \in Users, ExitedStep(u), CtxInv', LostCalm'
  PROVE  LeftCalm'
<1> DEFINE d == depth[u]
<1>1. /\ At(u, "exited") /\ "exited" \in {"virt_enter", "entered", "virt_exit", "exited"}
      /\ UNCHANGED <<setup, conns, given, attr, job, depth, disturbed, instance, tracked>>
  BY DEF ExitedStep, storeVars
<1>2. /\ job[u].on = tracked /\ tracked \in Adapters /\ tracked # Nothing /\ Tracked = tracker[tracked]
      /\ DOMAIN tracker = Adapters /\ job[u].op = "exit" /\ d \in Nat /\ todo[u] # <<>>
      /\ LayersLeft(u) /\ PlaceLeft(u) /\ ~Says(u, "virt_exit")
      /\ "exited" \notin StoreSteps \cup {"none"} /\ "exited" # "none"
  BY <1>1, BlockHere
<1>3. /\ todo[u][1] = "exited" /\ Len(todo[u]) \in Nat \ {0} /\ job[u].tid = setup.home[u]
  BY <1>1, <1>2, LeftHere
<1>4. PICK l \in [layer : Int, virtual : Nat, contexts : Int] : l = tracker[tracked]
  BY <1>1, BlockHere
<1>5. ~PopFails(l)
  <2>1. l.layer \in Nat /\ l.contexts = l.layer
    BY <1>2, <1>4 DEF LoneCalm, Layers
  <2>2. l.layer >= 1
    <3>1. todo[u][1] # "virt_exit"
      BY <1>3
    <3> QED BY <1>2, <1>4, <3>1 DEF LoneCalm, Calm, ExitCalm
  <2> QED BY <2>1, <2>2 DEF PopFails
<1>6. Go(u) /\ tracker' = [tracker EXCEPT ![tracked] = Exited(l)]
  BY <1>2, <1>4, <1>5 DEF ExitedStep, On
<1>7. 0 \in Nat /\ 0 + 1 <= Len(todo[u]) /\ Skip(u, 0) /\ todo[u][0 + 1] = "exited" /\ \A i \in 1..0 + 1 : todo[u][i] = "exited"
  BY <1>1, <1>2, <1>6, GoWrapper
<1>8. Tracked' = Exited(l) /\ Exited(l).layer = l.layer - 1 /\ Exited(l).virtual = l.virtual
  BY <1>1, <1>2, <1>4, <1>6 DEF Tracked, Exited
<1>9. disturbed = 0 => l.virtual = d /\ l.layer = d + 1 /\ LayersOf(d + 1) = d + 1
  BY <1>2, <1>4 DEF LayersLeft
<1>10. attr[job[u].on] = Nothing /\ conns[setup.home[u]] = Nothing
  <2>1. Is(todo[u], 1, "exited")
    BY <1>3 DEF Is
  <2> QED BY <1>2, <1>3, <2>1 DEF PlaceLeft
<1>11. RestLeft(u)'
  <2>1. \A i \in 1..0 + 1 : todo[u][i] \in SyncWords \cup {"exited"}
    BY <1>7
  <2> QED BY <1>1, <1>2, <1>7, <1>10, <2>1, ClosedLeft
<1>12. ASSUME todo'[u] = <<>>
       PROVE  LayersLeft(u)' /\ RestLeft(u)'
  <2>1. disturbed' = 0 => Tracked'.virtual = d /\ Tracked'.layer = LayersOf(d)
    <3> SUFFICES ASSUME disturbed = 0
                 PROVE  Tracked'.virtual = d /\ Tracked'.layer = LayersOf(d)
      BY <1>1
    <3>1. d < LayersOf(d + 1)
      BY <1>2, <1>9
    <3>2. LayersOf(d) = d
      BY <1>2, <3>1, LayerCounts
    <3> QED BY <1>2, <1>8, <1>9, <3>2
  <2>2. LayersLeft(u)'
    BY <1>1, <1>12, <2>1 DEF LayersLeft, LayersOf
  <2> QED BY <1>11, <2>2
<1>13. todo[u][0 + 1] \in {"entered", "exited"} /\ \A w \in Users \ {u} : depth'[w] = depth[w]
  BY <1>1, <1>7
<1> QED
  BY <1>1, <1>7, <1>12, <1>13, BlockEnds

\* The wrapper's steps: those of the module and of reset_adapter are in none of the calls.
LEMMA LeftWrapperStep ==
  ASSUME CtxInv, OnlyBlocks, LoneCalm, LostCalm, LeftCalm, NEW u \in Users, WrapperStep(u), CtxInv', LostCalm'
  PROVE  LeftCalm'
<1>1. \A h \in {"shared", "share", "unset"} : ~At(u, h)
  <2> SUFFICES ASSUME NEW h \in {"shared", "share", "unset"}, At(u, h)
               PROVE  FALSE
    OBVIOUS
  <2>1. h # "none"
    OBVIOUS
  <2>2. h \in CtxSteps \ Odd
    BY <2>1, LeftHere
  <2> QED BY <2>2 DEF Odd
<1>2. ~SharedAdapter(u) /\ ~Share(u) /\ ~Unset(u)
  BY <1>1 DEF SharedAdapter, Share, Unset
<1> QED
  BY <1>2, LeftGetAdapter, LeftMake, LeftInstall, LeftVirtEnter, LeftEntered, LeftVirtExit, LeftExited DEF WrapperStep

\* No call is made on the store itself.
LEMMA NoStoreCalls ==
  ASSUME CtxInv, OnlyBlocks, NEW u \in Users
  PROVE  ~AskSome(u)
<1> SUFFICES ASSUME AskSome(u)
             PROVE  FALSE
  OBVIOUS
<1>1. PICK op \in setup.ops \cap (DOMAIN Kind \cup DOMAIN Common) : TRUE
  BY DEF AskSome
<1>2. setup.kind \in Sync \cup Async
  BY DEF OnlyBlocks
<1>3. op \notin CtxOps
  BY <1>1, <1>2, OpsApart
<1> QED
  BY <1>1, <1>3 DEF OnlyBlocks, CtxOps

\* A block is entered or left, or a method is called, with the adapter there is.
LEMMA LeftCtxAsk ==
  ASSUME CtxInv, OnlyBlocks, LeftCalm, NEW u \in Users, setup.kind \in Wrapped, NEW op \in setup.ops \cap CtxOps, CtxAsk(u, op)
  PROVE  LeftCalm'
<1> DEFINE d == depth[u]
<1>1. op \in {"enter", "exit", "call"} /\ setup.kind \in Wrapped \cap Sync /\ op \in CtxOps
  BY DEF OnlyBlocks
<1>2. PICK s : s = CtxPrograms[op]
  OBVIOUS
<1>3. /\ s \in Seq(Words) /\ Len(s) > 0 /\ \A i \in 1..Len(s) : s[i] \in CtxWords(op)
  BY <1>1, <1>2, CtxProgramBlocks DEF Block, Shape
<1>4. /\ Tidy(op, s) /\ s[1] = IF op = "exit" THEN "virt_exit" ELSE "get_adapter"
      /\ op = "enter" => \E i \in 1..Len(s) : s[i] = "virt_enter"
  BY <1>1, <1>2, TidyPrograms
<1>5. instance = tracked /\ LeftOf(u) /\ u \in Crew /\ Crew = {u}
  BY DEF LeftCalm, CtxAsk, Crew, OnlyBlocks, Lone
<1>6. PICK j : j = [op |-> op, tid |-> setup.home[u], on |-> instance]
  OBVIOUS
<1>7. /\ job' = [job EXCEPT ![u] = j] /\ todo' = [todo EXCEPT ![u] = s] /\ todo[u] = <<>>
      /\ depth' = IF op = "exit" THEN [depth EXCEPT ![u] = @ - 1] ELSE depth
      /\ op = "exit" => d > 0
      /\ UNCHANGED <<setup, conns, given, attr, instance, tracked, tracker, disturbed>>
  <2>1. (IF op = "exit" THEN tracked ELSE instance) = instance
    BY <1>5
  <2> QED BY <1>2, <1>6, <2>1 DEF CtxAsk, storeVars
<1>8. /\ DOMAIN job = Users /\ DOMAIN todo = Users /\ DOMAIN depth = Users /\ d \in Nat
  BY DEF CtxInv, CallTypes, AdapterTypes
<1>9. todo'[u] = s /\ s # <<>> /\ job'[u] = j /\ j.op = op /\ j.on = instance
  BY <1>3, <1>6, <1>7, <1>8
<1>10. \A w : Says(u, w)' <=> \E i \in 1..Len(s) : s[i] = w
  BY <1>9 DEF Says
<1>11. ~Says(u, "install")
  BY <1>7 DEF Says
<1>12. AdapterLeft(u)'
  <2>1. \A a \in Adapters : attr[a] # Nothing => a = instance
    BY <1>5, <1>11 DEF LeftOf, AdapterLeft
  <2>2. Says(u, "install")' => s[1] = "get_adapter"
    <3>1. CASE op = "exit"
      <4>1. "install" \notin CtxWords(op)
        BY <3>1, BlockOps
      <4> QED BY <1>3, <1>10, <4>1
    <3> QED BY <1>4, <3>1
  <2> QED BY <1>7, <1>9, <2>1, <2>2 DEF AdapterLeft
<1>13. PlaceLeft(u)'
  <2>1. \A w : Is(todo'[u], 1, w) => w \in {"virt_exit", "get_adapter"}
    BY <1>4, <1>9 DEF Is
  <2> QED BY <2>1 DEF PlaceLeft
<1>14. LayersLeft(u)'
  <2> SUFFICES ASSUME disturbed' = 0
               PROVE  LayersLeft(u)'
    BY DEF LayersLeft
  <2>1. Tracked.virtual = d /\ Tracked.layer = LayersOf(d)
    BY <1>5, <1>7 DEF LeftOf, LayersLeft
  <2>2. Tracked' = Tracked
    BY <1>7 DEF Tracked
  <2>3. CASE op = "exit"
    <3>1. Says(u, "virt_exit")'
      <4>1. 1 \in 1..Len(s)
        BY <1>3
      <4> QED BY <1>4, <1>10, <2>3, <4>1
    <3>2. depth'[u] + 1 = d
      BY <1>7, <1>8, <2>3
    <3>3. Tracked'.virtual = depth'[u] + 1 /\ Tracked'.layer = LayersOf(depth'[u] + 1)
      BY <2>1, <2>2, <3>2
    <3> QED BY <1>9, <2>3, <3>1, <3>3 DEF LayersLeft, LayersOf
  <2>4. CASE op # "exit"
    <3>1. op = "enter" => Says(u, "virt_enter")'
      BY <1>4, <1>10
    <3>2. Tracked'.virtual = depth'[u] /\ Tracked'.layer = LayersOf(depth'[u])
      BY <1>7, <2>1, <2>2, <2>4
    <3> QED BY <1>9, <2>4, <3>1, <3>2 DEF LayersLeft, LayersOf
  <2> QED BY <2>3, <2>4
<1>15. RestLeft(u)'
  BY <1>9 DEF RestLeft
<1>16. given' = {} /\ disturbed' \in Nat /\ EntriesLeft'
  BY <1>7 DEF LeftCalm, EntriesLeft, Crew
<1>17. InCtx(u)' /\ Tidy(job'[u].op, todo'[u]) /\ instance' = tracked'
  BY <1>1, <1>4, <1>5, <1>7, <1>9 DEF InCtx
<1>18. \A w \in Users \ {u} : depth'[w] = depth[w]
  BY <1>7, <1>8
<1> QED
  BY <1>5, <1>7, <1>12, <1>13, <1>14, <1>15, <1>16, <1>17, <1>18, LeftBy

\* The setups are among those of which nothing is lost.
LEMMA BlocksAlone ==
  ASSUME OnlyBlocks
  PROVE  Lone /\ Solo
BY DEF OnlyBlocks, Solo, Does, Cleans

\* Every step keeps what is known of the caller's connections.
LEMMA LeftStep ==
  ASSUME CtxInv, LoneInv, LostInv, LeftInv, [CtxNext]_allVars
  PROVE  LeftInv'
<1>1. setup' = setup
  BY DEF CtxNext, AskSome, Ask, CtxAsk, StoreStepHere, StoreStep, AdapterStep, ShutAttr, WrapperStep, GetAdapter,
         SharedAdapter, Make, Install, Share, Unset, VirtEnterStep, EnteredStep, VirtExitStep, ExitedStep, allVars, vars
<1>2. OnlyBlocks' = OnlyBlocks /\ Solo' = Solo
  BY <1>1 DEF OnlyBlocks, Solo, Lone, Separate, Does, Crew
<1>3. SUFFICES ASSUME OnlyBlocks, LeftCalm
               PROVE  LeftCalm'
  BY <1>2 DEF LeftInv
<1>4. LoneCalm /\ LostCalm /\ CtxInv' /\ LostCalm'
  <2>1. Lone /\ Solo
    BY <1>3, BlocksAlone
  <2>2. CtxInv' /\ LostInv'
    BY CtxStep, LostStep
  <2> QED BY <1>2, <2>1, <2>2 DEF LoneInv, LostInv
<1>5. CASE UNCHANGED allVars
  <2>1. UNCHANGED <<setup, conns, open, given, job, todo, attr, tracker, depth, disturbed, instance, tracked>>
    BY <1>5 DEF allVars, vars, ctxVars
  <2>2. ASSUME NEW u \in Crew PROVE LeftOf(u)'
    <3>1. LeftOf(u)
      BY <1>3, <2>2 DEF LeftCalm
    <3>2. AdapterLeft(u)'
      BY <2>1, <3>1 DEF LeftOf, AdapterLeft, Says
    <3>3. PlaceLeft(u)'
      BY <2>1, <3>1 DEF LeftOf, PlaceLeft, Says
    <3>4. LayersLeft(u)'
      BY <2>1, <3>1 DEF LeftOf, LayersLeft, Says, Tracked, LayersOf
    <3>5. RestLeft(u)'
      BY <2>1, <3>1 DEF LeftOf, RestLeft
    <3>6. todo'[u] # <<>> => InCtx(u)' /\ Tidy(job'[u].op, todo'[u])
      BY <2>1, <3>1 DEF LeftOf, InCtx
    <3> QED BY <3>2, <3>3, <3>4, <3>5, <3>6 DEF LeftOf
  <2>3. given' = {} /\ instance' = tracked' /\ disturbed' \in Nat /\ EntriesLeft' /\ Crew' = Crew
        /\ \A u \in Users \ Crew : depth'[u] = 0
    BY <1>3, <2>1 DEF LeftCalm, EntriesLeft, Crew
  <2> QED BY <2>2, <2>3 DEF LeftCalm
<1>6. ASSUME NEW u \in Users, AskSome(u) /\ UNCHANGED ctxVars
      PROVE  LeftCalm'
  BY <1>3, <1>6, NoStoreCalls
<1>7. ASSUME NEW u \in Users, setup.kind \in Wrapped, NEW op \in setup.ops \cap CtxOps, CtxAsk(u, op)
      PROVE  LeftCalm'
  BY <1>3, <1>7, LeftCtxAsk
<1>8. ASSUME NEW u \in Users, StoreStepHere(u) \/ AdapterStep(u) \/ WrapperStep(u)
      PROVE  LeftCalm'
  BY <1>3, <1>4, <1>8, LeftStoreStep, LeftAdapterStep, LeftWrapperStep
<1> QED
  BY <1>5, <1>6, <1>7, <1>8 DEF CtxNext

\* No block is open and no adapter has a connection at the start.
LEMMA LeftStart ==
  ASSUME Init
  PROVE  LeftInv
<1>1. StoreInit /\ CtxInit
  BY DEF Init
<1>2. ASSUME NEW u \in Users PROVE LeftOf(u)
  <2>1. todo[u] = <<>> /\ depth[u] = 0 /\ open = {} /\ \A w : ~Says(u, w)
    BY <1>1, <1>2 DEF StoreInit, CtxInit, Says
  <2>2. PlaceLeft(u)
    <3>1. \A k \in {1, 2, 3, 4} : \A w : ~Is(<<>>, k, w)
      BY DEF Is
    <3> QED BY <2>1, <3>1 DEF PlaceLeft
  <2>3. AdapterLeft(u)
    BY <1>1, <2>1 DEF CtxInit, AdapterLeft
  <2>4. LayersLeft(u)
    <3>1. Tracked = NoLayers
      <4>1. tracked # Nothing => tracked \in Adapters
        BY <1>1, ContextsAssumption DEF CtxInit, Adapters, ContextsAssumption
      <4> QED BY <1>1, <4>1 DEF CtxInit, Tracked
    <3>2. LayersOf(0) = 0
      BY ContextsAssumption DEF LayersOf, ContextsAssumption
    <3> QED BY <2>1, <3>1, <3>2 DEF LayersLeft, NoLayers
  <2> QED BY <2>1, <2>2, <2>3, <2>4 DEF LeftOf, RestLeft
<1>3. given = {} /\ instance = tracked /\ disturbed \in Nat /\ EntriesLeft /\ \A u \in Users : depth[u] = 0
  BY <1>1 DEF StoreInit, CtxInit, EntriesLeft
<1>4. Crew \subseteq Users
  BY <1>1, StoreAssumption DEF StoreInit, StoreAssumption, Crew
<1> QED
  BY <1>2, <1>3, <1>4 DEF LeftInv, LeftCalm

\* Whatever a lone caller of a synchronous adapter does with the wrapper, in and out of blocks, with whatever
\* number of layers, no connection is open once it has left its blocks and rests.
THEOREM BlocksLeaveNothing == Spec => []LeftBlocksHoldNothing
<1>1. Init => CtxInv /\ LoneInv /\ LostInv /\ LeftInv
  BY CtxStart, LoneStart, LostStart, LeftStart
<1>2. CtxInv /\ LoneInv /\ LostInv /\ LeftInv /\ [CtxNext]_allVars => (CtxInv /\ LoneInv /\ LostInv /\ LeftInv)'
  BY CtxStep, LoneStep, LostStep, LeftStep
<1>3. CtxInv /\ LeftInv => LeftBlocksHoldNothing
  <2> SUFFICES ASSUME CtxInv, OnlyBlocks, LeftCalm, AtRest, disturbed = 0, depth = [u \in Users |-> 0]
               PROVE  open = {}
    BY DEF LeftInv, LeftBlocksHoldNothing, OnlyBlocks
  <2>1. PICK u \in Crew : Crew = {u}
    BY DEF OnlyBlocks, Lone
  <2>2. u \in Users
    BY StoreAssumption DEF StoreAssumption, CtxInv, CallTypes, Crew
  <2> QED BY <2>1, <2>2 DEF LeftCalm, LeftOf, RestLeft, AtRest
<1> QED
  BY <1>1, <1>2, <1>3, PTL DEF Spec

-----------------------------------------------------------------------------
(* How the layers fit the blocks *)
\* The setups that LayersFitBlocks speaks of.
Nesting == ~Does(Swaps) /\ (Lone \/ setup.kind \in Async)

\* Who is entering the object, who is about to leave a block, and who is leaving the object.
Entering(u) == job[u].op = "enter" /\ todo[u] # <<>> /\ ~Says(u, "virt_enter")
Ready(u) == job[u].op = "exit" /\ Is(todo[u], 1, "virt_exit")
Leaving(u) == job[u].op = "exit" /\ todo[u] # <<>> /\ ~Is(todo[u], 1, "virt_exit")

\* The blocks that are counted: those callers are in, the one that is being entered, and the one that is to be left.
Inside(u) == depth[u] + IF Entering(u) \/ Ready(u) THEN 1 ELSE 0
Piles(f) == UNION {{u} \X (1..f[u]) : u \in Users}
Insides == Piles([u \in Users |-> Inside(u)])

\* What is left of a program: an adapter is installed once, and the block is counted behind that.
Finding == {"get_adapter", "make", "install"}
Foreign == {"shared", "share", "unset"}
FitForm(op, s) ==
  /\ \A i \in 1..Len(s) : s[i] \notin Foreign
  /\ \A i, j \in 1..Len(s) : s[i] = "install" /\ s[j] = "install" => i = j
  /\ op = "enter" => \A j \in 1..Len(s) : s[j] \in Finding => \E i \in j + 1..Len(s) : s[i] = "virt_enter"
  /\ op = "enter" /\ s # <<>> => s[Len(s)] = "entered"
  /\ op = "exit" /\ s # <<>> => s[Len(s)] = "exited"

\* While an adapter is being made for the wrapper there is none, and no other task runs.
PendingFit(u) ==
  Says(u, "install") /\ ~Is(todo[u], 1, "get_adapter") =>
    /\ tracked = Nothing
    /\ Lone \/ (loop = u /\ (Is(todo[u], 1, "make") \/ Is(todo[u], 1, "install")))
PlaceFit(u) == Entering(u) \/ Ready(u) \/ Leaving(u) => job[u].on = tracked /\ tracked # Nothing
FitOf(u) == (InCtx(u) => FitForm(job[u].op, todo[u])) /\ PendingFit(u) /\ PlaceFit(u)

\* The blocks are counted, and of one that is being entered or left the layer is not yet, or still, counted.
Counted == IsFiniteSet(Insides) /\ Tracked.virtual = Cardinality(Insides)
Crosses(u) == Entering(u) \/ Leaving(u)
Layered ==
  /\ \A u, w \in Users : Crosses(u) /\ Crosses(w) => u = w
  /\ \A u \in Users : Entering(u) => Tracked.layer = Tracked.virtual - 1 /\ LayersOf(Tracked.virtual) = Tracked.virtual
  /\ \A u \in Users : Leaving(u) => Tracked.layer = Tracked.virtual + 1 /\ LayersOf(Tracked.virtual + 1) = Tracked.virtual + 1
  /\ (\A u \in Users : ~Crosses(u)) => Tracked.layer = LayersOf(Tracked.virtual)

Bound == Counted /\ (Lone \/ MaxLayers = 1 => Layered)
FitCalm ==
  /\ instance = tracked /\ disturbed \in Nat
  /\ \A u \in Users : FitOf(u)
  /\ disturbed = 0 => Bound
FitInv == Nesting => FitCalm

-----------------------------------------------------------------------------
\* What is left of such a program is of the same form.
LEMMA FormDrop ==
  ASSUME NEW op, NEW s \in Seq(Words), NEW n \in Nat, n <= Len(s), FitForm(op, s)
  PROVE  FitForm(op, Drop(s, n))
<1> DEFINE r == Drop(s, n)
<1>1. Len(s) \in Nat /\ r \in Seq(Words) /\ Len(r) = Len(s) - n /\ \A i \in 1..Len(s) - n : r[i] = s[n + i]
  BY DEF Drop
<1> HIDE DEF r
<1>2. \A i \in 1..Len(r) : n + i \in 1..Len(s) /\ r[i] = s[n + i]
  BY <1>1
<1>3. \A i \in 1..Len(r) : r[i] \notin Foreign
  BY <1>2 DEF FitForm
<1>4. ASSUME NEW i \in 1..Len(r), NEW j \in 1..Len(r), r[i] = "install", r[j] = "install"
      PROVE  i = j
  <2>1. n + i = n + j
    BY <1>2, <1>4 DEF FitForm
  <2> QED BY <1>1, <2>1
<1>5. ASSUME op = "enter", NEW j \in 1..Len(r), r[j] \in Finding
      PROVE  \E i \in j + 1..Len(r) : r[i] = "virt_enter"
  <2>1. PICK k \in (n + j) + 1..Len(s) : s[k] = "virt_enter"
    BY <1>2, <1>5 DEF FitForm
  <2>2. k - n \in j + 1..Len(r) /\ k - n \in 1..Len(r) /\ n + (k - n) = k
    BY <1>1, <2>1
  <2>3. r[k - n] = s[n + (k - n)]
    BY <1>2, <2>2
  <2> QED BY <2>1, <2>2, <2>3
<1>6. r # <<>> => r[Len(r)] = s[Len(s)] /\ s # <<>>
  <2> SUFFICES ASSUME r # <<>> PROVE r[Len(r)] = s[Len(s)] /\ s # <<>>
    OBVIOUS
  <2>1. Len(r) \in 1..Len(r)
    BY <1>1
  <2>2. n + Len(r) = Len(s)
    BY <1>1
  <2>3. Len(s) # 0
    BY <1>1, <2>1
  <2> QED BY <1>2, <2>1, <2>2, <2>3
<1>7. FitForm(op, r)
  BY <1>3, <1>4, <1>5, <1>6 DEF FitForm
<1> QED
  BY <1>7 DEF r

\* One list behind another.
LEMMA JoinIs ==
  ASSUME NEW s \in Seq(Words), NEW t \in Seq(Words)
  PROVE  /\ s \o t \in Seq(Words) /\ Len(s) \in Nat /\ Len(t) \in Nat /\ Len(s \o t) = Len(s) + Len(t)
         /\ \A i \in 1..Len(s) : (s \o t)[i] = s[i]
         /\ \A i \in 1..Len(t) : (s \o t)[Len(s) + i] = t[i]
         /\ \A i \in 1..Len(s) + Len(t) : i \in 1..Len(s) \/ (i - Len(s) \in 1..Len(t) /\ (s \o t)[i] = t[i - Len(s)])
<1>1. /\ s \o t \in Seq(Words) /\ Len(s) \in Nat /\ Len(t) \in Nat /\ Len(s \o t) = Len(s) + Len(t)
      /\ \A i \in 1..Len(s) : (s \o t)[i] = s[i]
      /\ \A i \in 1..Len(t) : (s \o t)[Len(s) + i] = t[i]
  OBVIOUS
<1>2. ASSUME NEW i \in 1..Len(s) + Len(t), ~(i \in 1..Len(s))
      PROVE  i - Len(s) \in 1..Len(t) /\ Len(s) + (i - Len(s)) = i
  BY <1>1, <1>2
<1> QED
  BY <1>1, <1>2

\* One step before a list, and behind it.
LEMMA JoinFirst ==
  ASSUME NEW v \in Seq(Words), Len(v) = 1, NEW t \in Seq(Words)
  PROVE  /\ v \o t \in Seq(Words) /\ Len(v \o t) = 1 + Len(t) /\ Len(t) \in Nat /\ (v \o t)[1] = v[1]
         /\ \A i \in 1..Len(v \o t) : (v \o t)[i] = v[1] \/ \E j \in 1..Len(t) : (v \o t)[i] = t[j]
<1>1. /\ v \o t \in Seq(Words) /\ Len(v \o t) = Len(v) + Len(t) /\ Len(t) \in Nat
      /\ \A i \in 1..Len(v) : (v \o t)[i] = v[i]
      /\ \A i \in 1..Len(v) + Len(t) : i \in 1..Len(v) \/ (i - Len(v) \in 1..Len(t) /\ (v \o t)[i] = t[i - Len(v)])
  BY JoinIs
<1>2. 1 \in 1..Len(v) /\ \A i \in 1..Len(v) : i = 1
  OBVIOUS
<1>3. \A i \in 1..Len(v \o t) : (v \o t)[i] = v[1] \/ \E j \in 1..Len(t) : (v \o t)[i] = t[j]
  BY <1>1, <1>2
<1>4. Len(v \o t) = 1 + Len(t)
  BY <1>1
<1> QED
  BY <1>1, <1>2, <1>3, <1>4

\* The same, behind it.
LEMMA JoinLast ==
  ASSUME NEW s \in Seq(Words), NEW v \in Seq(Words), Len(v) = 1
  PROVE  /\ s \o v \in Seq(Words) /\ Len(s \o v) = Len(s) + 1 /\ Len(s) \in Nat /\ (s \o v)[Len(s) + 1] = v[1]
         /\ \A i \in 1..Len(s) : (s \o v)[i] = s[i]
<1>1. /\ s \o v \in Seq(Words) /\ Len(s \o v) = Len(s) + Len(v) /\ Len(s) \in Nat
      /\ \A i \in 1..Len(s) : (s \o v)[i] = s[i]
      /\ \A i \in 1..Len(v) : (s \o v)[Len(s) + i] = v[i]
  BY JoinIs
<1>2. 1 \in 1..Len(v)
  OBVIOUS
<1>3. (s \o v)[Len(s) + 1] = v[1]
  BY <1>1, <1>2
<1>4. Len(s \o v) = Len(s) + 1
  BY <1>1
<1> QED
  BY <1>1, <1>3, <1>4

\* A list that installs an adapter at most once, and one that follows it.
LEMMA FormJoin ==
  ASSUME NEW op \in {"enter", "call"}, NEW g \in Seq(Words), NEW t \in Seq(Words), t # <<>>,
         \A i \in 1..Len(g) : g[i] \notin Foreign,
         \A i, j \in 1..Len(g) : g[i] = "install" /\ g[j] = "install" => i = j,
         \A i \in 1..Len(t) : t[i] \notin Foreign \cup Finding,
         op = "enter" => t[1] = "virt_enter" /\ t[Len(t)] = "entered"
  PROVE  FitForm(op, g \o t)
<1> DEFINE m == Len(g)
           n == Len(t)
           r == g \o t
<1>1. /\ m \in Nat /\ n \in Nat \ {0} /\ Len(r) = m + n
      /\ \A i \in 1..n : r[m + i] = t[i]
  <2>1. n # 0
    BY JoinIs
  <2> QED BY <2>1, JoinIs
<1>2. \A i \in 1..m + n : (i \in 1..m /\ r[i] = g[i]) \/ (i - m \in 1..n /\ r[i] = t[i - m])
  BY JoinIs
<1> HIDE DEF m, n, r
<1>3. \A i \in 1..m + n : r[i] \notin Foreign
  BY <1>2 DEF m, n
<1>4. \A i \in 1..m + n : r[i] \in Finding => i \in 1..m /\ r[i] = g[i]
  BY <1>2 DEF m, n
<1>5. \A i, j \in 1..m + n : r[i] = "install" /\ r[j] = "install" => i = j
  BY <1>4 DEF m, Finding
<1>6. ASSUME op = "enter"
      PROVE  /\ \A j \in 1..m + n : r[j] \in Finding => \E i \in j + 1..m + n : r[i] = "virt_enter"
             /\ r[m + n] = "entered"
  <2>1. r[m + 1] = "virt_enter" /\ r[m + n] = "entered"
    <3>1. 1 \in 1..n /\ n \in 1..n
      BY <1>1
    <3> QED BY <1>1, <1>6, <3>1 DEF n
  <2>2. \A j \in 1..m : m + 1 \in j + 1..m + n
    BY <1>1
  <2> QED BY <1>4, <2>1, <2>2
<1>7. FitForm(op, r)
  BY <1>1, <1>3, <1>5, <1>6 DEF FitForm
<1> QED
  BY <1>7 DEF r

\* get_adapter installs an adapter last.
LEMMA FindForm ==
  ASSUME setup.kind \in Wrapped
  PROVE  /\ get_adapter \in Seq(Words)
         /\ \A i \in 1..Len(get_adapter) : get_adapter[i] \notin Foreign
         /\ \A i, j \in 1..Len(get_adapter) : get_adapter[i] = "install" /\ get_adapter[j] = "install" => i = j
<1>1. get_adapter \in Seq(Words)
  BY AdapterBlocks, BlocksAre
<1>2. Construct \in Seq(Words)
  BY ConstructIs
<1>3. \A i \in 1..Len(Construct) : Construct[i] \in {"make", "lookup", "connect", "store", "keep_attr"}
  <2>1. CASE setup.kind = "redis"
    <3> DEFINE s == <<"make", "lookup", "connect", "store", "keep_attr">>
    <3>1. Construct = s
      BY <2>1, Written
    <3>2. /\ Len(s) = 5 /\ \A i \in 1..5 : i = 1 \/ i = 2 \/ i = 3 \/ i = 4 \/ i = 5
          /\ s[1] = "make" /\ s[2] = "lookup" /\ s[3] = "connect" /\ s[4] = "store" /\ s[5] = "keep_attr"
      OBVIOUS
    <3> HIDE DEF s
    <3> QED BY <3>1, <3>2
  <2>2. CASE setup.kind # "redis"
    <3> DEFINE s == <<"make">>
    <3>1. Construct = s
      BY <2>2, Written
    <3>2. Len(s) = 1 /\ s[1] = "make" /\ \A i \in 1..1 : i = 1
      OBVIOUS
    <3> HIDE DEF s
    <3> QED BY <3>1, <3>2
  <2> QED BY <2>1, <2>2
<1> DEFINE g == <<"get_adapter">>
           c == Construct
           i1 == <<"install">>
<1>4. /\ g \in Seq(Words) /\ i1 \in Seq(Words) /\ Len(g) = 1 /\ Len(i1) = 1 /\ g[1] = "get_adapter" /\ i1[1] = "install"
      /\ get_adapter = (g \o c) \o i1
  BY DEF Words, CtxSteps, get_adapter
<1>5. c \in Seq(Words) /\ \A i \in 1..Len(c) : c[i] \in {"make", "lookup", "connect", "store", "keep_attr"}
  BY <1>2, <1>3
<1> HIDE DEF g, c, i1
<1>6. \E n \in Nat : /\ Len(get_adapter) = n + 1 /\ get_adapter[n + 1] = "install"
                     /\ \A i \in 1..n : get_adapter[i] \notin Foreign \cup {"install"}
  <2>1. PICK p : p = g \o c
    OBVIOUS
  <2>2. p \in Seq(Words) /\ Len(p) \in Nat /\ \A i \in 1..Len(p) : p[i] = "get_adapter" \/ \E j \in 1..Len(c) : p[i] = c[j]
    <3>1. /\ p \in Seq(Words) /\ Len(p) = 1 + Len(c) /\ Len(c) \in Nat
          /\ \A i \in 1..Len(p) : p[i] = g[1] \/ \E j \in 1..Len(c) : p[i] = c[j]
      BY <1>4, <1>5, <2>1, JoinFirst
    <3>2. Len(p) \in Nat
      BY <3>1
    <3> QED BY <1>4, <3>1, <3>2
  <2>3. \A i \in 1..Len(p) : p[i] \notin Foreign \cup {"install"}
    BY <1>5, <2>2 DEF Foreign
  <2>4. /\ Len(p \o i1) = Len(p) + 1 /\ (p \o i1)[Len(p) + 1] = i1[1]
        /\ \A i \in 1..Len(p) : (p \o i1)[i] = p[i]
    BY <1>4, <2>2, JoinLast
  <2> QED BY <1>4, <2>1, <2>2, <2>3, <2>4
<1>7. PICK n \in Nat : /\ Len(get_adapter) = n + 1 /\ get_adapter[n + 1] = "install"
                       /\ \A i \in 1..n : get_adapter[i] \notin Foreign \cup {"install"}
  BY <1>6
<1>8. \A i \in 1..n + 1 : i = n + 1 \/ i \in 1..n
  OBVIOUS
<1> QED
  BY <1>1, <1>7, <1>8 DEF Foreign

\* The programs of the wrapper and of the adapters are of the form.
LEMMA FormPrograms ==
  ASSUME setup.kind \in Wrapped, NEW op \in CtxOps \ Swaps
  PROVE  /\ FitForm(op, CtxPrograms[op])
         /\ \A i \in 1..Len(CtxPrograms[op]) : CtxPrograms[op][i] = "install" => op \in {"enter", "call"}
<1>1. PICK b : Block(Exit, "shut_attr", b, PlainWords)
  BY PlainBlocks
<1>2. PICK a \in Haves : Block(Use, a, "command", PlainWords)
  BY PlainBlocks
<1>3. /\ Block(Enter, "shut_attr", "keep_attr", PlainWords) /\ Block(reconnect, "shut_attr", "keep_attr", PlainWords)
      /\ Block(close, "shut_attr", "delete", PlainWords)
  BY PlainBlocks
<1>4. /\ Follows(TRUE, "command", a) /\ Follows(TRUE, "keep_attr", a) /\ Follows(TRUE, "command", "shut_attr")
  BY DEF Follows, Ends, Haves
<1>5. PlainWords \cap (Foreign \cup Finding \cup {"virt_enter", "install"}) = {}
  BY DEF PlainWords, ConnectWords, CloseWords, Foreign, Finding
<1>6. /\ get_adapter \in Seq(Words) /\ Enter \in Seq(Words) /\ Use \in Seq(Words) /\ Exit \in Seq(Words)
  BY <1>1, <1>2, <1>3, FindForm, BlocksAre
<1>7. \A s, c, d : Block(s, c, d, PlainWords) => \A i \in 1..Len(s) : s[i] \notin Foreign \cup Finding
  BY <1>5 DEF Block
<1>8. ASSUME NEW s, NEW c, NEW d, Block(s, c, d, PlainWords), op \notin {"enter", "exit"}
      PROVE  FitForm(op, s) /\ \A i \in 1..Len(s) : s[i] # "install"
  BY <1>7, <1>8 DEF FitForm, Finding
<1>9. CASE op \in {"use", "close_adapter", "reconnect"}
  <2>1. CtxPrograms[op] \in {Use, close, reconnect}
    BY <1>9 DEF CtxPrograms
  <2> QED BY <1>2, <1>3, <1>8, <1>9, <2>1
<1>10. CASE op = "memo"
  <2>1. Block(Use \o Use, a, "command", PlainWords)
    BY <1>2, <1>4, JoinSame
  <2>2. Block(reconnect \o Use, "shut_attr", "command", PlainWords)
    BY <1>2, <1>3, <1>4, JoinSame
  <2>3. Block((reconnect \o Use) \o Use, "shut_attr", "command", PlainWords)
    BY <1>2, <1>4, <2>2, JoinSame
  <2>4. Block(((reconnect \o Use) \o Use) \o reconnect, "shut_attr", "keep_attr", PlainWords)
    BY <1>3, <1>4, <2>3, JoinSame
  <2>5. CtxPrograms[op] = IF setup.kind \in Sync THEN Use \o Use ELSE ((reconnect \o Use) \o Use) \o reconnect
    BY <1>10 DEF CtxPrograms, r_cache, r_cache_async, adapter_aenter, adapter_aexit
  <2> QED BY <1>8, <1>10, <2>1, <2>4, <2>5
<1>11. CASE op = "call"
  <2> DEFINE t == (Enter \o Use) \o Exit
  <2>1. Block(Enter \o Use, "shut_attr", "command", PlainWords)
    BY <1>2, <1>3, <1>4, JoinSame
  <2>2. Block(t, "shut_attr", b, PlainWords)
    BY <1>1, <1>4, <2>1, JoinSame
  <2>3. CtxPrograms[op] = ((get_adapter \o Enter) \o Use) \o Exit
    BY <1>11 DEF CtxPrograms, wrapper_call
  <2>4. ((get_adapter \o Enter) \o Use) \o Exit = get_adapter \o t
    <3>1. (get_adapter \o Enter) \o Use = get_adapter \o (Enter \o Use) /\ Enter \o Use \in Seq(Words)
      BY <1>6, Associate
    <3>2. (get_adapter \o (Enter \o Use)) \o Exit = get_adapter \o ((Enter \o Use) \o Exit)
      BY <1>6, <3>1, Associate
    <3> QED BY <3>1, <3>2
  <2>5. t \in Seq(Words) /\ t # <<>> /\ \A i \in 1..Len(t) : t[i] \notin Foreign \cup Finding
    BY <1>7, <2>2, BlocksAre
  <2> HIDE DEF t
  <2>6. FitForm(op, get_adapter \o t)
    BY <1>11, <2>5, FindForm, FormJoin
  <2> QED BY <1>11, <2>3, <2>4, <2>6
<1>12. CASE op = "enter"
  <2> DEFINE v == <<"virt_enter">>
             w == <<"entered">>
             g == get_adapter
             q == Enter \o w
             t == v \o q
  <2>1. /\ v \in Seq(Words) /\ w \in Seq(Words) /\ g \in Seq(Words) /\ Len(v) = 1 /\ v[1] = "virt_enter"
        /\ wrapper_enter = ((g \o v) \o Enter) \o w
    <3>1. "virt_enter" \in Words /\ "entered" \in Words
      BY DEF Words, CtxSteps
    <3> QED BY <1>6, <3>1 DEF wrapper_enter
  <2>11. /\ Block(t, "virt_enter", "entered", Enters) /\ Block(w, "entered", "entered", {"entered"})
    BY CrossingBlocks, SingleBlocks
  <2>12. Enter \in Seq(Words)
    BY <1>6
  <2> HIDE DEF v, w, g
  <2>2. q \in Seq(Words)
    BY <2>1, <2>12, JoinIs
  <2>3. q = Enter \o w
    OBVIOUS
  <2> HIDE DEF q
  <2>13. t \in Seq(Words) /\ t = v \o q
    BY <2>1, <2>2, JoinIs
  <2> HIDE DEF t
  <2>4. ((g \o v) \o Enter) \o w = g \o t
    <3>1. g \o v \in Seq(Words)
      BY <2>1, JoinIs
    <3>2. ((g \o v) \o Enter) \o w = (g \o v) \o q
      BY <2>1, <2>12, <2>3, <3>1, Associate
    <3>3. (g \o v) \o q = g \o t
      BY <2>1, <2>2, <2>13, Associate
    <3> QED BY <3>2, <3>3
  <2>5. CtxPrograms[op] = g \o t
    BY <1>12, <2>1, <2>4 DEF CtxPrograms
  <2>6. Block(t, "virt_enter", "entered", Enters)
    BY <2>11
  <2>7. \A i \in 1..Len(q) : q[i] \in PlainWords \cup {"entered"}
    <3>1. Block(w, "entered", "entered", {"entered"}) /\ Follows(TRUE, "keep_attr", "entered")
      BY <2>11 DEF Follows, Ends
    <3>2. Block(q, "shut_attr", "entered", PlainWords \cup {"entered"})
      BY <1>3, <2>3, <3>1, JoinBlocks
    <3> QED BY <3>2 DEF Block
  <2>8. \A i \in 1..Len(t) : t[i] \notin Foreign \cup Finding
    <3>3. \A i \in 1..Len(t) : t[i] = "virt_enter" \/ \E j \in 1..Len(q) : t[i] = q[j]
      BY <2>1, <2>2, <2>13, JoinFirst
    <3>4. {"entered", "virt_enter"} \cap (Foreign \cup Finding) = {}
      BY DEF Foreign, Finding
    <3> QED BY <1>5, <2>7, <3>3, <3>4
  <2>9. t # <<>> /\ t[1] = "virt_enter" /\ t[Len(t)] = "entered"
    BY <2>6, BlocksAre DEF Block
  <2>10. FitForm(op, g \o t)
    BY <1>12, <2>1, <2>13, <2>8, <2>9, FindForm, FormJoin DEF g
  <2> QED BY <1>12, <2>5, <2>10
<1>13. CASE op = "exit"
  <2>1. CtxPrograms[op] = wrapper_exit /\ Block(wrapper_exit, "virt_exit", "exited", Leaves)
    BY <1>13, CrossingBlocks DEF CtxPrograms
  <2>2. Leaves \cap (Foreign \cup {"install"}) = {}
    BY DEF Leaves, PlainWords, ConnectWords, CloseWords, Foreign
  <2> QED BY <1>13, <2>1, <2>2 DEF Block, FitForm
<1> QED
  BY <1>9, <1>10, <1>11, <1>12, <1>13 DEF CtxOps, Swaps

\* What a pile is made of.
LEMMA PileIs ==
  ASSUME NEW f, NEW x
  PROVE  x \in Piles(f) <=> \E w \in Users : \E i \in 1..f[w] : x = <<w, i>>
BY DEF Piles

\* Nobody is in a block.
LEMMA PilesEmpty ==
  ASSUME NEW f, \A w \in Users : f[w] = 0
  PROVE  Piles(f) = {} /\ IsFiniteSet({}) /\ Cardinality({}) = 0
<1>1. \A w \in Users : \A i \in 1..f[w] : FALSE
  OBVIOUS
<1>2. \A x : x \notin Piles(f)
  BY <1>1, PileIs
<1> QED
  BY <1>2, FS_EmptySet

\* One block more of one caller is one more on the pile.
LEMMA PilesGrow ==
  ASSUME NEW f, NEW g, NEW u \in Users, f[u] \in Nat, g[u] = f[u] + 1, \A w \in Users \ {u} : g[w] = f[w]
  PROVE  Piles(g) = Piles(f) \cup {<<u, f[u] + 1>>} /\ <<u, f[u] + 1>> \notin Piles(f)
<1> DEFINE y == <<u, f[u] + 1>>
<1>1. 1..g[u] = 1..f[u] \cup {f[u] + 1} /\ f[u] + 1 \notin 1..f[u]
  OBVIOUS
<1>2. \A w, i : y = <<w, i>> => w = u /\ i = f[u] + 1
  OBVIOUS
<1>3. y \notin Piles(f)
  <2> SUFFICES ASSUME y \in Piles(f) PROVE FALSE
    OBVIOUS
  <2>1. PICK w \in Users : \E i \in 1..f[w] : y = <<w, i>>
    BY PileIs
  <2>2. PICK i \in 1..f[w] : y = <<w, i>>
    BY <2>1
  <2> QED BY <1>1, <1>2, <2>2
<1>4. ASSUME NEW x, x \in Piles(g)
      PROVE  x \in Piles(f) \cup {y}
  <2>4. PICK w \in Users : \E i \in 1..g[w] : x = <<w, i>>
    BY <1>4, PileIs
  <2>1. PICK i \in 1..g[w] : x = <<w, i>>
    BY <2>4
  <2>2. CASE w = u /\ i = f[u] + 1
    BY <2>1, <2>2
  <2>3. CASE ~(w = u /\ i = f[u] + 1)
    <3>1. i \in 1..f[w]
      BY <1>1, <2>1, <2>3
    <3> QED BY <2>1, <3>1, PileIs
  <2> QED BY <2>2, <2>3
<1>5. ASSUME NEW x, x \in Piles(f) \cup {y}
      PROVE  x \in Piles(g)
  <2>1. CASE x = y
    <3>1. f[u] + 1 \in 1..g[u]
      OBVIOUS
    <3> QED BY <2>1, <3>1, PileIs
  <2>2. CASE x \in Piles(f)
    <3>3. PICK w \in Users : \E i \in 1..f[w] : x = <<w, i>>
      BY <2>2, PileIs
    <3>1. PICK i \in 1..f[w] : x = <<w, i>>
      BY <3>3
    <3>2. i \in 1..g[w]
      BY <1>1, <3>1
    <3> QED BY <3>1, <3>2, PileIs
  <2> QED BY <1>5, <2>1, <2>2
<1>6. Piles(g) = Piles(f) \cup {y}
  BY <1>4, <1>5
<1> QED
  BY <1>3, <1>6

\* So it is counted, and one less the other way.
LEMMA PilesCount ==
  ASSUME NEW f, NEW g, NEW u \in Users, f[u] \in Nat, g[u] = f[u] + 1, \A w \in Users \ {u} : g[w] = f[w]
  PROVE  /\ IsFiniteSet(Piles(f)) <=> IsFiniteSet(Piles(g))
         /\ IsFiniteSet(Piles(f)) => /\ Cardinality(Piles(f)) \in Nat
                                     /\ Cardinality(Piles(g)) = Cardinality(Piles(f)) + 1
<1>1. PICK y : Piles(g) = Piles(f) \cup {y} /\ y \notin Piles(f)
  BY PilesGrow
<1>2. Piles(f) = Piles(g) \ {y}
  BY <1>1
<1>3. IsFiniteSet(Piles(f)) => IsFiniteSet(Piles(g)) /\ Cardinality(Piles(g)) = Cardinality(Piles(f)) + 1
  BY <1>1, FS_AddElement
<1>4. IsFiniteSet(Piles(g)) => IsFiniteSet(Piles(f))
  BY <1>2, FS_RemoveElement
<1> QED
  BY <1>3, <1>4, FS_CardinalityType

\* Two callers in blocks make two blocks.
LEMMA PilesOfTwo ==
  ASSUME NEW f, IsFiniteSet(Piles(f)), NEW u \in Users, NEW w \in Users, u # w, f[u] \in Nat \ {0}, f[w] \in Nat \ {0}
  PROVE  Cardinality(Piles(f)) \in Nat /\ Cardinality(Piles(f)) >= 2
<1> DEFINE x == <<u, 1>>
           y == <<w, 1>>
<1>1. x \in Piles(f) /\ y \in Piles(f) /\ x # y
  <2>1. 1 \in 1..f[u] /\ 1 \in 1..f[w]
    OBVIOUS
  <2> QED BY <2>1, PileIs
<1> HIDE DEF x, y
<1>2. IsFiniteSet({x}) /\ Cardinality({x}) = 1
  BY FS_Singleton
<1>3. Cardinality({x} \cup {y}) = 2
  <2>1. PICK S : S = {x}
    OBVIOUS
  <2>2. IsFiniteSet(S) /\ Cardinality(S) = 1 /\ y \notin S
    BY <1>1, <1>2, <2>1
  <2>3. Cardinality(S \cup {y}) = 1 + 1
    BY <2>2, FS_AddElement
  <2> QED BY <2>1, <2>3
<1>4. {x} \cup {y} \in SUBSET Piles(f)
  BY <1>1
<1>5. 2 <= Cardinality(Piles(f))
  BY <1>3, <1>4, FS_Subset
<1> QED
  BY <1>5, FS_CardinalityType

\* One caller in a block makes one.
LEMMA PilesOfOne ==
  ASSUME NEW f, IsFiniteSet(Piles(f)), NEW u \in Users, f[u] \in Nat \ {0}
  PROVE  Cardinality(Piles(f)) \in Nat /\ Cardinality(Piles(f)) >= 1
<1>1. <<u, 1>> \in Piles(f)
  <2>1. 1 \in 1..f[u]
    OBVIOUS
  <2> QED BY <2>1, PileIs
<1>2. Cardinality(Piles(f)) # 0
  BY <1>1, FS_EmptySet
<1> QED
  BY <1>2, FS_CardinalityType

\* The same blocks for every caller are the same pile.
LEMMA PilesSame ==
  ASSUME NEW f, NEW g, \A w \in Users : g[w] = f[w]
  PROVE  Piles(g) = Piles(f)
<1>1. \A x : x \in Piles(g) <=> x \in Piles(f)
  BY PileIs
<1> QED
  BY <1>1

\* Who is in how many blocks.
LEMMA InsideIs ==
  ASSUME CtxInv, NEW u \in Users
  PROVE  /\ depth[u] \in Nat /\ Inside(u) \in Nat
         /\ Entering(u) \/ Ready(u) => Inside(u) = depth[u] + 1
         /\ ~Entering(u) /\ ~Ready(u) => Inside(u) = depth[u]
         /\ [w \in Users |-> Inside(w)][u] = Inside(u)
<1>1. depth[u] \in Nat
  BY DEF CtxInv, AdapterTypes
<1> QED
  BY <1>1 DEF Inside

\* The pile before and after a step.
LEMMA InsidesAre ==
  /\ Insides = Piles([w \in Users |-> Inside(w)])
  /\ Insides' = Piles([w \in Users |-> Inside(w)'])
BY DEF Insides, Piles

\* While one caller takes a step, nothing changes for the others: none of them is making an adapter.
LEMMA FitsOthers ==
  ASSUME CtxInv, FitCalm, NEW u \in Users, u \in Crew, loop \in {Nothing, u}, setup' = setup,
         NEW w \in Users, w # u, todo'[w] = todo[w], job'[w] = job[w], tracked # Nothing => tracked' = tracked
  PROVE  FitOf(w)' /\ (Entering(w)' <=> Entering(w)) /\ (Ready(w)' <=> Ready(w)) /\ (Leaving(w)' <=> Leaving(w))
<1>1. FitOf(w)
  BY DEF FitCalm
<1>2. /\ \A x : Says(w, x)' <=> Says(w, x)
      /\ InCtx(w)' <=> InCtx(w)
      /\ \A x : Is(todo'[w], 1, x) <=> Is(todo[w], 1, x)
  BY DEF Says, InCtx
<1>3. (Entering(w)' <=> Entering(w)) /\ (Ready(w)' <=> Ready(w)) /\ (Leaving(w)' <=> Leaving(w))
  BY <1>2 DEF Entering, Ready, Leaving
<1>4. ~(Says(w, "install") /\ ~Is(todo[w], 1, "get_adapter"))
  <2> SUFFICES ASSUME Says(w, "install"), ~Is(todo[w], 1, "get_adapter")
               PROVE  FALSE
    OBVIOUS
  <2>1. Lone \/ loop = w
    BY <1>1 DEF FitOf, PendingFit
  <2>2. todo[w] # <<>>
    BY DEF Says
  <2>3. CASE Lone
    BY <2>2, <2>3, OthersIdle
  <2>4. CASE loop = w
    <3>1. w # Nothing
      BY StoreAssumption DEF StoreAssumption
    <3> QED BY <2>4, <3>1
  <2> QED BY <2>1, <2>3, <2>4
<1>5. PendingFit(w)'
  BY <1>2, <1>4 DEF PendingFit
<1>6. PlaceFit(w)'
  BY <1>1, <1>3 DEF FitOf, PlaceFit
<1>7. InCtx(w)' => FitForm(job'[w].op, todo'[w])
  BY <1>1, <1>2 DEF FitOf
<1> QED
  BY <1>3, <1>5, <1>6, <1>7 DEF FitOf

\* A step of one caller, after which its own program and the layers are in order.
LEMMA FitsBy ==
  ASSUME CtxInv, FitCalm, NEW u \in Users, u \in Crew, loop \in {Nothing, u}, setup' = setup,
         \A w \in Users \ {u} : todo'[w] = todo[w] /\ job'[w] = job[w],
         tracked # Nothing => tracked' = tracked, instance' = tracked', disturbed' \in Nat,
         FitOf(u)', disturbed' = 0 => Bound'
  PROVE  FitCalm'
<1>1. ASSUME NEW w \in Users PROVE FitOf(w)'
  <2>1. CASE w = u
    BY <2>1
  <2>2. CASE w # u
    BY <2>2, FitsOthers
  <2> QED BY <2>1, <2>2
<1> QED
  BY <1>1 DEF FitCalm

\* Where nobody's place changes, nor the layers, these still fit.
LEMMA BoundStays ==
  ASSUME Bound, setup' = setup, Tracked'.virtual = Tracked.virtual, Tracked'.layer = Tracked.layer,
         \A w \in Users : Inside(w)' = Inside(w) /\ (Entering(w)' <=> Entering(w)) /\ (Leaving(w)' <=> Leaving(w))
  PROVE  Bound'
<1>1. Insides' = Insides
  <2>1. [w \in Users |-> Inside(w)'] = [w \in Users |-> Inside(w)]
    OBVIOUS
  <2> QED BY <2>1, InsidesAre
<1>2. Counted'
  BY <1>1 DEF Bound, Counted
<1>3. Lone' = Lone
  BY DEF Lone, Crew
<1>4. ASSUME Layered PROVE Layered'
  <2>1. \A w \in Users : Crosses(w)' <=> Crosses(w)
    BY DEF Crosses
  <2>2. \A u, w \in Users : Crosses(u)' /\ Crosses(w)' => u = w
    BY <1>4, <2>1 DEF Layered
  <2>3. \A u \in Users : Entering(u)' => Tracked'.layer = Tracked'.virtual - 1 /\ LayersOf(Tracked'.virtual) = Tracked'.virtual
    BY <1>4 DEF Layered
  <2>4. \A u \in Users : Leaving(u)' => Tracked'.layer = Tracked'.virtual + 1 /\ LayersOf(Tracked'.virtual + 1) = Tracked'.virtual + 1
    BY <1>4 DEF Layered
  <2>5. (\A u \in Users : ~Crosses(u)') => Tracked'.layer = LayersOf(Tracked'.virtual)
    BY <1>4, <2>1 DEF Layered
  <2> QED BY <2>2, <2>3, <2>4, <2>5 DEF Layered, LayersOf
<1> QED
  BY <1>2, <1>3, <1>4 DEF Bound

\* The two together, for a step that changes no place.
LEMMA FitsStay ==
  ASSUME CtxInv, FitCalm, NEW u \in Users, u \in Crew, loop \in {Nothing, u}, setup' = setup,
         \A w \in Users \ {u} : todo'[w] = todo[w] /\ job'[w] = job[w] /\ depth'[w] = depth[w],
         tracked # Nothing => tracked' = tracked, instance' = tracked', disturbed' \in Nat,
         FitOf(u)', Tracked'.virtual = Tracked.virtual, Tracked'.layer = Tracked.layer,
         disturbed' = 0 => /\ disturbed = 0 /\ Inside(u)' = Inside(u)
                           /\ (Entering(u)' <=> Entering(u)) /\ (Leaving(u)' <=> Leaving(u))
  PROVE  FitCalm'
<1>1. ASSUME disturbed' = 0 PROVE Bound'
  <2>1. ASSUME NEW w \in Users
        PROVE  Inside(w)' = Inside(w) /\ (Entering(w)' <=> Entering(w)) /\ (Leaving(w)' <=> Leaving(w))
    <3>1. CASE w = u
      BY <1>1, <3>1
    <3>2. CASE w # u
      <4>1. (Entering(w)' <=> Entering(w)) /\ (Ready(w)' <=> Ready(w)) /\ (Leaving(w)' <=> Leaving(w))
        BY <3>2, FitsOthers
      <4>2. Inside(w)' = Inside(w)
        BY <3>2, <4>1 DEF Inside
      <4> QED BY <4>1, <4>2
    <3> QED BY <3>1, <3>2
  <2> QED BY <1>1, <2>1, BoundStays DEF FitCalm
<1> QED
  BY <1>1, FitsBy

\* Nothing has the counting out of a block behind it.
LEMMA NothingLeaves ==
  ASSUME NEW a \in Words
  PROVE  ~Follows(TRUE, a, "virt_exit")
BY DEF Follows, Words, StoreSteps, CtxSteps, Ends, Haves

\* The shape of a program of the wrapper.
LEMMA ShapeIs ==
  ASSUME CtxInv, NEW u \in Users, todo[u] # <<>>
  PROVE  InCtx(u) => Shape(setup.kind, TRUE, todo[u])
<1>1. PICK b : b = InCtx(u)
  OBVIOUS
<1>2. Shape(setup.kind, b, todo[u])
  BY <1>1 DEF CtxInv, Under
<1>3. InCtx(u) => b = TRUE
  BY <1>1 DEF InCtx
<1> QED
  BY <1>2, <1>3

\* A program of the wrapper goes on, or is done.
LEMMA FitGoes ==
  ASSUME CtxInv, FitCalm, NEW u \in Users, todo[u] # <<>>, InCtx(u), NEW n \in 1..Len(todo[u]), Runs(u, n),
         job'[u].op = job[u].op
  PROVE  /\ InCtx(u)' /\ FitForm(job'[u].op, todo'[u]) /\ \A w \in Users \ {u} : todo'[w] = todo[w]
         /\ \A x : (\A i \in 1..n : todo[u][i] # x) => (Says(u, x)' <=> Says(u, x))
         /\ todo'[u] = <<>> => /\ job[u].op = "enter" => todo[u][n] = "entered"
                               /\ job[u].op = "exit" => todo[u][n] = "exited"
         /\ todo'[u] # <<>> => /\ n < Len(todo[u]) /\ todo'[u][1] = todo[u][n + 1] /\ Is(todo'[u], 1, todo[u][n + 1])
                               /\ Follows(TRUE, todo[u][n], todo[u][n + 1])
         /\ ~Is(todo'[u], 1, "virt_exit")
         /\ \A x : Says(u, x)' <=> \E i \in n + 1..Len(todo[u]) : todo[u][i] = x
<1>1. /\ todo[u] \in Seq(Words) /\ Len(todo[u]) \in Nat /\ n \in Nat /\ n <= Len(todo[u]) /\ FitForm(job[u].op, todo[u])
      /\ Shape(setup.kind, TRUE, todo[u]) /\ todo'[u] = Drop(todo[u], n)
      /\ \A w \in Users \ {u} : todo'[w] = todo[w]
  <2>1. todo \in [Users -> Seq(Words)] /\ todo' = [todo EXCEPT ![u] = Drop(todo[u], n)]
    BY DEF CtxInv, CallTypes, Runs
  <2>2. Shape(setup.kind, TRUE, todo[u])
    BY ShapeIs
  <2>3. FitForm(job[u].op, todo[u])
    BY DEF FitCalm, FitOf
  <2>4. todo[u] \in Seq(Words) /\ todo'[u] = Drop(todo[u], n) /\ \A w \in Users \ {u} : todo'[w] = todo[w]
    BY <2>1
  <2>5. Len(todo[u]) \in Nat /\ n \in Nat /\ n <= Len(todo[u])
    BY <2>4
  <2> QED BY <2>2, <2>3, <2>4, <2>5
<1>2. InCtx(u)' /\ FitForm(job'[u].op, todo'[u])
  BY <1>1, FormDrop DEF InCtx
<1>3. /\ Len(todo'[u]) = Len(todo[u]) - n /\ todo'[u] \in Seq(Words)
      /\ \A i \in 1..Len(todo[u]) - n : todo'[u][i] = todo[u][n + i]
  BY <1>1 DEF Drop
<1>4. \A x : Says(u, x)' <=> \E i \in n + 1..Len(todo[u]) : todo[u][i] = x
  <2>1. ASSUME NEW x, Says(u, x)' PROVE \E i \in n + 1..Len(todo[u]) : todo[u][i] = x
    <3>1. PICK i \in 1..Len(todo[u]) - n : todo'[u][i] = x
      BY <1>3, <2>1 DEF Says
    <3>2. n + i \in n + 1..Len(todo[u]) /\ todo[u][n + i] = x
      BY <1>1, <1>3, <3>1
    <3> QED BY <3>2
  <2>2. ASSUME NEW x, NEW i \in n + 1..Len(todo[u]), todo[u][i] = x PROVE Says(u, x)'
    <3>1. i - n \in 1..Len(todo[u]) - n /\ n + (i - n) = i
      BY <1>1
    <3>2. todo'[u][i - n] = x
      BY <1>3, <2>2, <3>1
    <3> QED BY <1>3, <3>1, <3>2 DEF Says
  <2> QED BY <2>1, <2>2
<1>5. ASSUME NEW x, \A i \in 1..n : todo[u][i] # x
      PROVE  Says(u, x)' <=> Says(u, x)
  <2>1. \A i \in 1..Len(todo[u]) : i \in 1..n \/ i \in n + 1..Len(todo[u])
    BY <1>1
  <2>2. \A i \in n + 1..Len(todo[u]) : i \in 1..Len(todo[u])
    BY <1>1
  <2> QED BY <1>4, <1>5, <2>1, <2>2 DEF Says
<1>6. ASSUME todo'[u] = <<>>
      PROVE  (job[u].op = "enter" => todo[u][n] = "entered") /\ (job[u].op = "exit" => todo[u][n] = "exited")
  <2>1. n = Len(todo[u])
    BY <1>1, <1>3, <1>6
  <2> QED BY <1>1, <2>1 DEF FitForm
<1>7. ASSUME todo'[u] # <<>>
      PROVE  /\ n < Len(todo[u]) /\ todo'[u][1] = todo[u][n + 1] /\ Is(todo'[u], 1, todo[u][n + 1])
             /\ Follows(TRUE, todo[u][n], todo[u][n + 1])
  <2>1. n < Len(todo[u]) /\ 1 \in 1..Len(todo[u]) - n
    BY <1>1, <1>3, <1>7
  <2>2. todo'[u][1] = todo[u][n + 1] /\ Is(todo'[u], 1, todo[u][n + 1])
    BY <1>3, <2>1 DEF Is
  <2>3. Follows(TRUE, todo[u][n], todo[u][n + 1])
    BY <1>1, <2>1 DEF Shape
  <2> QED BY <2>1, <2>2, <2>3
<1>8. ~Is(todo'[u], 1, "virt_exit")
  <2> SUFFICES ASSUME Is(todo'[u], 1, "virt_exit")
               PROVE  FALSE
    OBVIOUS
  <2>1. todo'[u] # <<>> /\ todo'[u][1] = "virt_exit"
    <3>1. 1 <= Len(todo'[u]) /\ todo'[u][1] = "virt_exit"
      BY DEF Is
    <3>2. Len(<<>>) = 0
      OBVIOUS
    <3> QED BY <3>1, <3>2
  <2>2. Follows(TRUE, todo[u][n], "virt_exit")
    <3>1. todo[u][n + 1] = "virt_exit" /\ Follows(TRUE, todo[u][n], todo[u][n + 1])
      BY <1>7, <2>1
    <3> QED BY <3>1
  <2>3. todo[u][n] \in Words
    BY <1>1
  <2> QED BY <2>2, <2>3, NothingLeaves
<1> QED
  BY <1>1, <1>2, <1>4, <1>5, <1>6, <1>7, <1>8

\* The steps of the adapters are none of the wrapper's.
LEMMA PlainApart ==
  /\ PlainWords \cap (Finding \cup Foreign \cup {"virt_enter", "virt_exit", "entered", "exited", "none"}) = {}
  /\ PlainWords \subseteq CtxSteps
BY DEF PlainWords, ConnectWords, CloseWords, Finding, Foreign, CtxSteps

\* A call that is over is nowhere.
LEMMA DoneFit ==
  ASSUME NEW u \in Users, todo'[u] = <<>>
  PROVE  FitOf(u)' /\ ~Entering(u)' /\ ~Ready(u)' /\ ~Leaving(u)' /\ \A x : ~Says(u, x)'
<1>1. Len(<<>>) = 0 /\ \A i \in 1..0 : FALSE
  OBVIOUS
<1>2. (\A x : ~Says(u, x)') /\ \A x : ~Is(todo'[u], 1, x)
  BY <1>1 DEF Says, Is
<1>3. ~Entering(u)' /\ ~Ready(u)' /\ ~Leaving(u)'
  BY <1>2 DEF Entering, Ready, Leaving
<1>4. FitForm(job'[u].op, todo'[u])
  BY <1>1 DEF FitForm
<1> QED
  BY <1>2, <1>3, <1>4 DEF FitOf, PendingFit, PlaceFit

\* A step of an adapter.
LEMMA PlainFit ==
  ASSUME CtxInv, FitCalm, NEW u \in Users, InCtx(u), NEW h \in PlainWords, At(u, h),
         UNCHANGED <<setup, job, instance, tracked, tracker, depth>>, disturbed' \in Nat, disturbed' = 0 => disturbed = 0,
         \/ \E n \in 1..Len(todo[u]) : Runs(u, n) /\ \A i \in 1..n : todo[u][i] \in PlainWords
         \/ todo' = [todo EXCEPT ![u] = <<>>] /\ (job[u].op \in {"enter", "exit"} => disturbed' # 0)
  PROVE  FitCalm'
<1>1. h \notin Finding \cup Foreign \cup {"virt_enter", "virt_exit", "entered", "exited", "none"}
  BY PlainApart
<1>2. /\ todo[u] # <<>> /\ Len(todo[u]) \in Nat \ {0} /\ todo[u][1] = h /\ u \in Crew /\ loop \in {Nothing, u}
      /\ \A x : Is(todo[u], 1, x) <=> x = h
  <2>1. todo[u] # <<>> /\ Len(todo[u]) \in Nat \ {0} /\ todo[u][1] = h /\ u \in Crew
    BY <1>1, Heads
  <2> QED BY <2>1 DEF At, Is
<1>3. instance' = tracked' /\ Tracked' = Tracked /\ FitOf(u) /\ Inside(u)' = depth[u] + IF Entering(u)' \/ Ready(u)' THEN 1 ELSE 0
  BY DEF FitCalm, Tracked, Inside
<1>4. ~Ready(u)
  BY <1>1, <1>2 DEF Ready
<1>5. CASE \E n \in 1..Len(todo[u]) : Runs(u, n) /\ \A i \in 1..n : todo[u][i] \in PlainWords
  <2>1. PICK n \in 1..Len(todo[u]) : Runs(u, n) /\ \A i \in 1..n : todo[u][i] \in PlainWords
    BY <1>5
  <2>2. /\ InCtx(u)' /\ FitForm(job'[u].op, todo'[u]) /\ \A w \in Users \ {u} : todo'[w] = todo[w]
        /\ \A x : (\A i \in 1..n : todo[u][i] # x) => (Says(u, x)' <=> Says(u, x))
        /\ todo'[u] = <<>> => /\ job[u].op = "enter" => todo[u][n] = "entered"
                              /\ job[u].op = "exit" => todo[u][n] = "exited"
        /\ ~Is(todo'[u], 1, "virt_exit")
    BY <1>2, <2>1, FitGoes
  <2>3. \A x \in {"install", "virt_enter"} : Says(u, x)' <=> Says(u, x)
    <3>1. \A x \in {"install", "virt_enter"} : \A i \in 1..n : todo[u][i] # x
      BY <2>1, PlainApart DEF Finding
    <3> QED BY <2>2, <3>1
  <2>4. job[u].op \in {"enter", "exit"} => todo'[u] # <<>>
    <3>1. n \in 1..n
      BY <1>2
    <3>2. todo[u][n] \notin {"entered", "exited"}
      BY <2>1, <3>1, PlainApart
    <3> QED BY <2>2, <3>2
  <2>5. Entering(u)' <=> Entering(u)
    BY <1>2, <2>3, <2>4 DEF Entering
  <2>6. ~Ready(u)' /\ (Leaving(u)' <=> Leaving(u))
    BY <1>1, <1>2, <2>2, <2>4 DEF Ready, Leaving
  <2>7. PendingFit(u)'
    <3> SUFFICES ASSUME Says(u, "install")'
                 PROVE  tracked' = Nothing /\ Lone'
      BY DEF PendingFit
    <3>1. Says(u, "install") /\ ~Is(todo[u], 1, "get_adapter")
      BY <1>1, <1>2, <2>3 DEF Finding
    <3>2. tracked = Nothing /\ Lone
      BY <1>1, <1>2, <1>3, <3>1 DEF FitOf, PendingFit, Finding
    <3> QED BY <3>2 DEF Lone, Crew
  <2>8. PlaceFit(u)'
    BY <1>3, <2>5, <2>6 DEF FitOf, PlaceFit
  <2>9. FitOf(u)'
    BY <2>2, <2>7, <2>8 DEF FitOf
  <2>10. Inside(u)' = Inside(u)
    BY <1>3, <1>4, <2>5, <2>6 DEF Inside
  <2> QED BY <1>2, <1>3, <2>2, <2>5, <2>6, <2>9, <2>10, FitsStay
<1>6. CASE todo' = [todo EXCEPT ![u] = <<>>] /\ (job[u].op \in {"enter", "exit"} => disturbed' # 0)
  <2>1. todo'[u] = <<>> /\ \A w \in Users \ {u} : todo'[w] = todo[w]
    BY <1>6 DEF CtxInv, CallTypes
  <2>2. FitOf(u)' /\ ~Entering(u)' /\ ~Ready(u)' /\ ~Leaving(u)'
    BY <2>1, DoneFit
  <2>3. disturbed' = 0 => ~Entering(u) /\ ~Leaving(u) /\ Inside(u)' = Inside(u)
    <3>1. disturbed' = 0 => ~Entering(u) /\ ~Leaving(u)
      BY <1>6 DEF Entering, Leaving
    <3> QED BY <1>3, <1>4, <2>2, <3>1 DEF Inside
  <2> QED BY <1>2, <1>3, <2>1, <2>2, <2>3, FitsStay
<1> QED
  BY <1>5, <1>6

\* The shape of a program of the store, as a step leaves it.
LEMMA ShapeApart ==
  ASSUME CtxInv', NEW u \in Users
  PROVE  todo'[u] # <<>> /\ ~InCtx(u)' => Shape(setup'.kind, FALSE, todo'[u])
<1>1. PICK b : b = InCtx(u)'
  OBVIOUS
<1>2. todo'[u] # <<>> => Shape(setup'.kind, b, todo'[u])
  <2>1. Under(u)'
    BY DEF CtxInv
  <2> QED BY <1>1, <2>1 DEF Under
<1>3. ~InCtx(u)' => b = FALSE
  <2>1. ~InCtx(u)' => InCtx(u)' = FALSE
    BY DEF InCtx
  <2> QED BY <1>1, <2>1
<1> QED
  BY <1>2, <1>3

\* A step of a call on the store itself, which has nothing of the wrapper.
LEMMA ApartFit ==
  ASSUME CtxInv, CtxInv', FitCalm, NEW u \in Users, u \in Crew, loop \in {Nothing, u}, ~InCtx(u)', todo[u] = <<>> \/ ~InCtx(u),
         UNCHANGED <<setup, instance, tracked, tracker, depth>>, disturbed' \in Nat, disturbed' = 0 => disturbed = 0,
         \A w \in Users \ {u} : todo'[w] = todo[w] /\ job'[w] = job[w]
  PROVE  FitCalm'
<1>1. job'[u].op \notin {"enter", "exit"} /\ (todo[u] # <<>> => job[u].op \notin {"enter", "exit"})
  BY DEF InCtx, CtxOps
<1>2. /\ ~Entering(u)' /\ ~Ready(u)' /\ ~Leaving(u)' /\ ~Entering(u) /\ ~Ready(u) /\ ~Leaving(u)
  <2>1. ~Is(<<>>, 1, "virt_exit")
    BY DEF Is
  <2> QED BY <1>1, <2>1 DEF Entering, Ready, Leaving
<1>3. ~Says(u, "install")'
  <2> SUFFICES ASSUME Says(u, "install")'
               PROVE  FALSE
    OBVIOUS
  <2>1. PICK i \in 1..Len(todo'[u]) : todo'[u][i] = "install"
    BY DEF Says
  <2>2. todo'[u] # <<>>
    BY <2>1
  <2>3. Shape(setup'.kind, FALSE, todo'[u])
    BY <2>2, ShapeApart
  <2>6. Fits(setup'.kind, FALSE, todo'[u], i)
    BY <2>1, <2>3 DEF Shape
  <2>7. "install" \in StoreSteps
    BY <2>1, <2>6 DEF Fits
  <2> QED BY <2>7 DEF StoreSteps
<1>4. FitOf(u)'
  BY <1>2, <1>3 DEF FitOf, PendingFit, PlaceFit
<1>5. instance' = tracked' /\ Tracked' = Tracked /\ Inside(u)' = Inside(u)
  BY <1>2 DEF FitCalm, Tracked, Inside
<1> QED
  BY <1>2, <1>4, <1>5, FitsStay

\* What a call takes off its program.
LEMMA RunsBy ==
  ASSUME CtxInv, NEW u \in Users, NEW n \in Nat, n + 1 <= Len(todo[u]), Skip(u, n)
  PROVE  Runs(u, n + 1) /\ n + 1 \in 1..Len(todo[u])
<1>1. Len(todo[u]) \in Nat
  BY DEF CtxInv, CallTypes
<1> QED
  BY <1>1 DEF Skip, Continue, Proceed, Runs

\* The head of a program of the wrapper.
LEMMA CtxHeads ==
  ASSUME CtxInv, NEW u \in Users, InCtx(u), NEW h, At(u, h), h # "none"
  PROVE  /\ h \in CtxSteps /\ h \in CtxWords(job[u].op) /\ Fits(setup.kind, TRUE, todo[u], 1) /\ Shape(setup.kind, TRUE, todo[u])
         /\ todo[u] # <<>> /\ todo[u] \in Seq(Words) /\ Len(todo[u]) \in Nat \ {0} /\ todo[u][1] = h /\ u \in Crew
         /\ loop \in {Nothing, u} /\ \A x : Is(todo[u], 1, x) <=> x = h
<1>1. /\ todo[u] # <<>> /\ todo[u] \in Seq(Words) /\ Len(todo[u]) \in Nat \ {0} /\ todo[u][1] = h /\ u \in Crew
      /\ loop \in {Nothing, u}
  BY Heads DEF At
<1>2. 1 \in 1..Len(todo[u]) /\ \A x : Is(todo[u], 1, x) <=> x = h
  BY <1>1 DEF Is
<1>3. Shape(setup.kind, TRUE, todo[u])
  BY <1>1, ShapeIs
<1>4. Fits(setup.kind, TRUE, todo[u], 1)
  BY <1>2, <1>3 DEF Shape
<1>5. h \in CtxSteps
  BY <1>1, <1>4 DEF Fits
<1>6. h \in CtxWords(job[u].op)
  <2>1. \A i \in 1..Len(todo[u]) : todo[u][i] \in CtxWords(job[u].op)
    BY <1>1 DEF CtxInv, Under
  <2> QED BY <1>1, <1>2, <2>1
<1> QED
  BY <1>1, <1>2, <1>3, <1>4, <1>5, <1>6

\* One step of those of an adapter.
LEMMA PlainOne ==
  ASSUME CtxInv, NEW u \in Users, InCtx(u), NEW h \in PlainWords, At(u, h), Go(u)
  PROVE  \E n \in 1..Len(todo[u]) : Runs(u, n) /\ \A i \in 1..n : todo[u][i] \in PlainWords
<1>1. Len(todo[u]) \in Nat \ {0} /\ todo[u][1] = h
  <2>1. h # "none"
    BY PlainApart
  <2> QED BY <2>1, CtxHeads
<1>2. Skip(u, 0) /\ 0 \in Nat /\ 0 + 1 <= Len(todo[u])
  BY <1>1 DEF Go
<1>3. Runs(u, 0 + 1) /\ 0 + 1 \in 1..Len(todo[u])
  BY <1>2, RunsBy
<1>4. \A i \in 1..0 + 1 : i = 1
  OBVIOUS
<1>5. \A i \in 1..0 + 1 : todo[u][i] \in PlainWords
  BY <1>1, <1>4
<1> QED
  BY <1>3, <1>5

\* Some of them at once.
LEMMA PlainSome ==
  ASSUME CtxInv, NEW u \in Users, NEW n \in Nat, n + 1 <= Len(todo[u]), Skip(u, n),
         \A i \in 1..n + 1 : todo[u][i] \in PlainWords
  PROVE  \E m \in 1..Len(todo[u]) : Runs(u, m) /\ \A i \in 1..m : todo[u][i] \in PlainWords
BY RunsBy

\* The steps of the store that a call of the wrapper takes.
LEMMA StoreWords ==
  ASSUME CtxInv, NEW u \in Users, InCtx(u), StoreStep(u)
  PROVE  /\ \E h \in PlainWords : At(u, h)
         /\ \/ \E n \in 1..Len(todo[u]) : Runs(u, n) /\ \A i \in 1..n : todo[u][i] \in PlainWords
            \/ Raise(u)
<1> DEFINE Runs1 == \E n \in 1..Len(todo[u]) : Runs(u, n) /\ \A i \in 1..n : todo[u][i] \in PlainWords
<1>1. {"lookup", "connect", "store", "seek", "shut", "delete"} \subseteq PlainWords
  BY DEF PlainWords, ConnectWords, CloseWords
<1>2. ASSUME NEW h \in {"promise", "own", "drop", "walk", "sweep", "purge"}, At(u, h)
      PROVE  FALSE
  <2>1. h # "none"
    OBVIOUS
  <2>2. h \in CtxSteps
    BY <1>2, <2>1, CtxHeads
  <2> QED BY <2>2 DEF CtxSteps
<1>3. CASE Lookup(u) \/ Seek(u)
  <2>1. PICK h \in {"lookup", "seek"} : At(u, h)
    BY <1>3 DEF Lookup, Seek
  <2>2. Go(u) \/ Skip(u, 2)
    BY <1>3 DEF Lookup, Seek
  <2>3. todo[u] \in Seq(Words) /\ todo[u][1] = h /\ Fits(setup.kind, TRUE, todo[u], 1) /\ h \in PlainWords
    <3>1. h # "none"
      OBVIOUS
    <3> QED BY <1>1, <2>1, <3>1, CtxHeads
  <2>4. 3 <= Len(todo[u]) /\ \A i \in 1..3 : todo[u][i] \in PlainWords
    <3>1. 3 <= Len(todo[u]) /\ \A i \in 1..3 : todo[u][i] \in {"lookup", "seek", "connect", "store", "shut", "delete"}
      BY <2>3, StoreSkips
    <3> QED BY <1>1, <3>1
  <2>5. CASE Skip(u, 2)
    <3>1. 2 \in Nat /\ 2 + 1 <= Len(todo[u]) /\ \A i \in 1..2 + 1 : todo[u][i] \in PlainWords
      BY <2>4
    <3> QED BY <2>1, <2>3, <2>5, <3>1, PlainSome
  <2>6. CASE Go(u)
    BY <2>1, <2>3, <2>6, PlainOne
  <2> QED BY <2>2, <2>5, <2>6
<1>4. CASE Connect(u) \/ Store(u) \/ Delete(u) \/ Shut(u) \/ ConnectFails(u)
  <2>1. PICK h \in {"connect", "store", "delete", "shut"} : At(u, h)
    BY <1>4 DEF Connect, Store, Delete, Shut, ConnectFails
  <2>2. Go(u) \/ Raise(u)
    BY <1>4 DEF Connect, Store, Delete, Shut, ConnectFails
  <2>3. h \in PlainWords
    BY <1>1
  <2> QED BY <2>1, <2>2, <2>3, PlainOne
<1>5. CASE Promise(u) \/ Own(u) \/ DropThread(u) \/ Walk(u) \/ Sweep(u) \/ Purge(u)
  BY <1>2, <1>5 DEF Promise, Own, DropThread, Walk, Sweep, Purge
<1> QED
  BY <1>3, <1>4, <1>5 DEF StoreStep

\* A step of the store.
LEMMA FitStore ==
  ASSUME CtxInv, CtxInv', FitCalm, NEW u \in Users, StoreStepHere(u)
  PROVE  FitCalm'
<1>1. /\ StoreStep(u) /\ UNCHANGED <<setup, job, instance, tracked, tracker, depth>>
      /\ disturbed' = IF job[u].op \in {"enter", "exit"} /\ answer'[u] = Raised THEN disturbed + 1 ELSE disturbed
  BY DEF StoreStepHere, StoreStep
<1>2. disturbed \in Nat
  BY DEF FitCalm
<1>3. disturbed' \in Nat /\ (disturbed' = 0 => disturbed = 0)
  BY <1>1, <1>2
<1>4. CASE InCtx(u)
  <2>1. PICK h \in PlainWords : At(u, h)
    BY <1>1, <1>4, StoreWords
  <2>2. CASE \E n \in 1..Len(todo[u]) : Runs(u, n) /\ \A i \in 1..n : todo[u][i] \in PlainWords
    BY <1>1, <1>3, <1>4, <2>1, <2>2, PlainFit
  <2>3. CASE Raise(u)
    <3>1. todo' = [todo EXCEPT ![u] = <<>>]
      BY <2>3 DEF Raise
    <3>2. answer'[u] = Raised
      BY <2>3 DEF Raise, CtxInv, CallTypes
    <3>3. job[u].op \in {"enter", "exit"} => disturbed' # 0
      BY <1>1, <1>2, <3>2
    <3> QED BY <1>1, <1>3, <1>4, <2>1, <3>1, <3>3, PlainFit
  <2> QED BY <1>1, <1>4, <2>2, <2>3, StoreWords
<1>5. CASE ~InCtx(u)
  <2>1. PICK h \in StoreSteps : At(u, h)
    BY <1>1 DEF StoreStep, Lookup, Connect, ConnectFails, Store, Promise, Seek, Own, Shut, Delete, DropThread, Walk, Sweep,
                Purge, StoreSteps
  <2>2. h # "none"
    BY DEF StoreSteps
  <2>3. u \in Crew /\ loop \in {Nothing, u}
    BY <2>1, <2>2, Heads DEF At
  <2>4. \E s : todo' = [todo EXCEPT ![u] = s]
    BY <1>1 DEF StoreStep, Lookup, Connect, ConnectFails, Store, Promise, Seek, Own, Shut, Delete, DropThread, Walk, Sweep,
                Purge, Clears, IterationEnds, Go, Skip, Continue, Proceed, Raise
  <2>5. \A w \in Users \ {u} : todo'[w] = todo[w] /\ job'[w] = job[w]
    BY <1>1, <2>4 DEF CtxInv, CallTypes
  <2>6. ~InCtx(u)'
    BY <1>1, <1>5 DEF InCtx
  <2> QED BY <1>1, <1>3, <1>5, <2>3, <2>5, <2>6, ApartFit
<1> QED
  BY <1>4, <1>5

\* A step of an adapter.
LEMMA FitAdapter ==
  ASSUME CtxInv, FitCalm, NEW u \in Users, AdapterStep(u)
  PROVE  FitCalm'
<1>1. /\ UNCHANGED <<setup, job, instance, tracked, tracker, depth, disturbed>>
      /\ \/ HaveAttr(u) \/ HavePool(u) \/ KeepPool(u) \/ AwaitPool(u) \/ KeepAttr(u)
         \/ ClearAttr(u) \/ ClearPool(u) \/ Command(u) \/ ShutAttr(u)
  BY DEF AdapterStep, ShutAttr, ctxVars
<1>2. PICK h \in {"have_attr", "have_pool", "keep_pool", "await_pool", "keep_attr", "clear_attr", "clear_pool",
                  "command", "shut_attr"} : At(u, h)
  BY <1>1 DEF HaveAttr, HavePool, KeepPool, AwaitPool, KeepAttr, ClearAttr, ClearPool, Command, ShutAttr
<1>3. h # "none" /\ h \notin StoreSteps \cup Searches /\ h \in PlainWords
  BY DEF StoreSteps, Searches, PlainWords, ConnectWords, CloseWords
<1>4. InCtx(u) /\ disturbed \in Nat
  BY <1>2, <1>3, OnIs DEF FitCalm
<1>5. {"have_attr", "lookup", "connect", "store", "keep_attr", "await_pool", "have_pool", "keep_pool", "shut_attr", "clear_attr"}
         \subseteq PlainWords
  BY DEF PlainWords, ConnectWords, CloseWords
<1>6. todo[u] \in Seq(Words) /\ Len(todo[u]) \in Nat \ {0} /\ todo[u][1] = h /\ Fits(setup.kind, TRUE, todo[u], 1)
  BY <1>2, <1>3, <1>4, CtxHeads
<1>7. \E n \in 1..Len(todo[u]) : Runs(u, n) /\ \A i \in 1..n : todo[u][i] \in PlainWords
  <2>1. CASE Go(u)
    BY <1>2, <1>3, <1>4, <2>1, PlainOne
  <2>2. CASE HaveAttr(u) /\ ~Go(u)
    <3>1. Skip(u, CASE setup.kind = "redis" -> 4 [] OTHER -> 2) /\ At(u, "have_attr")
      BY <2>2 DEF HaveAttr
    <3>2. todo[u][1] = "have_attr"
      <4>1. "have_attr" # "none"
        OBVIOUS
      <4> QED BY <1>4, <3>1, <4>1, CtxHeads
    <3>3. CASE setup.kind = "redis"
      <4>1. Skip(u, 4)
        BY <3>1, <3>3
      <4>2. 5 <= Len(todo[u]) /\ \A i \in 1..5 : todo[u][i] \in {"have_attr", "lookup", "connect", "store", "keep_attr"}
        BY <1>6, <3>2, <3>3, AdapterSkips
      <4>3. \A i \in 1..5 : todo[u][i] \in PlainWords
        BY <1>5, <4>2
      <4>4. 4 \in Nat /\ 4 + 1 <= Len(todo[u]) /\ \A i \in 1..4 + 1 : todo[u][i] \in PlainWords
        BY <4>2, <4>3
      <4> QED BY <4>1, <4>4, PlainSome
    <3>4. CASE setup.kind # "redis"
      <4>1. Skip(u, 2)
        BY <3>1, <3>4
      <4>2. 3 <= Len(todo[u]) /\ \A i \in 1..3 : todo[u][i] \in {"have_attr", "connect", "await_pool", "keep_attr"}
        BY <1>6, <3>2, <3>4, AdapterSkips
      <4>3. \A i \in 1..3 : todo[u][i] \in PlainWords
        BY <1>5, <4>2
      <4>4. 2 \in Nat /\ 2 + 1 <= Len(todo[u]) /\ \A i \in 1..2 + 1 : todo[u][i] \in PlainWords
        BY <4>2, <4>3
      <4> QED BY <4>1, <4>4, PlainSome
    <3> QED BY <3>3, <3>4
  <2>3. CASE HavePool(u) /\ ~Go(u)
    <3>1. Skip(u, 4) /\ At(u, "have_pool")
      BY <2>3 DEF HavePool
    <3>2. todo[u][1] = "have_pool"
      <4>1. "have_pool" # "none"
        OBVIOUS
      <4> QED BY <1>4, <3>1, <4>1, CtxHeads
    <3>3. 5 <= Len(todo[u]) /\ \A i \in 1..5 : todo[u][i] \in {"have_pool", "lookup", "connect", "store", "keep_pool"}
      <4>1. todo[u] \in Seq(Words) /\ Fits(setup.kind, TRUE, todo[u], 1)
        BY <1>6
      <4>2. \A kind, s : s \in Seq(Words) /\ Fits(kind, TRUE, s, 1) /\ s[1] = "have_pool" =>
              5 <= Len(s) /\ \A i \in 1..5 : s[i] \in {"have_pool", "lookup", "connect", "store", "keep_pool"}
        BY AdapterSkips
      <4> QED BY <3>2, <4>1, <4>2
    <3>4. \A i \in 1..5 : todo[u][i] \in PlainWords
      BY <1>5, <3>3
    <3>5. 4 \in Nat /\ 4 + 1 <= Len(todo[u]) /\ \A i \in 1..4 + 1 : todo[u][i] \in PlainWords
      BY <3>3, <3>4
    <3> QED BY <3>1, <3>5, PlainSome
  <2>4. CASE ShutAttr(u) /\ ~Go(u)
    <3>1. Proceed(u, Drop(todo[u], 2), FALSE) /\ At(u, "shut_attr")
      BY <2>4 DEF ShutAttr
    <3>2. todo[u][1] = "shut_attr"
      <4>1. "shut_attr" # "none"
        OBVIOUS
      <4> QED BY <1>4, <3>1, <4>1, CtxHeads
    <3>3. 2 \in 1..Len(todo[u]) /\ \A i \in 1..2 : todo[u][i] \in PlainWords
      <4>1. 2 <= Len(todo[u]) /\ \A i \in 1..2 : todo[u][i] \in {"shut_attr", "clear_attr"}
        BY <1>6, <3>2, AdapterSkips
      <4> QED BY <1>5, <1>6, <4>1
    <3>4. Runs(u, 2)
      BY <3>1 DEF Proceed, Runs
    <3> QED BY <3>3, <3>4
  <2> QED BY <1>1, <2>1, <2>2, <2>3, <2>4 DEF KeepPool, AwaitPool, KeepAttr, ClearAttr, ClearPool, Command
<1> QED
  BY <1>1, <1>2, <1>3, <1>4, <1>7, PlainFit

\* Which calls have the wrapper's steps.
LEMMA WordsApart ==
  ASSUME NEW op
  PROVE  /\ op = "exit" => {"get_adapter", "make", "install", "virt_enter", "entered"} \cap CtxWords(op) = {}
         /\ op # "exit" => {"virt_exit", "exited"} \cap CtxWords(op) = {}
         /\ op # "enter" => {"virt_enter", "entered"} \cap CtxWords(op) = {}
<1>1. {"get_adapter", "make", "install", "virt_enter", "entered"} \cap Leaves = {}
  BY DEF Leaves, PlainWords, ConnectWords, CloseWords
<1>2. {"virt_exit", "exited"} \cap (Stays \cup Enters \cup Shares) = {}
  BY DEF Stays, Enters, Shares
<1>3. {"virt_enter", "entered"} \cap (Stays \cup Leaves \cup Shares) = {}
  BY <1>1 DEF Stays, Shares
<1>4. CtxWords(op) \in {Leaves, Enters, Shares, Stays} /\ (op = "exit" => CtxWords(op) = Leaves)
      /\ (op # "exit" => CtxWords(op) \in {Enters, Shares, Stays}) /\ (op # "enter" => CtxWords(op) \in {Leaves, Shares, Stays})
  BY DEF CtxWords
<1> QED
  BY <1>1, <1>2, <1>3, <1>4

\* A call takes up another adapter.
LEMMA SetOnIs ==
  ASSUME CtxInv, NEW u \in Users, NEW a, SetOn(u, a) \/ (job' = job /\ a = job[u].on)
  PROVE  job'[u].op = job[u].op /\ job'[u].on = a /\ \A w \in Users \ {u} : job'[w] = job[w]
<1>1. /\ job \in [Users -> [op : setup.ops \cup {"none"}, tid : Threads \cup {Nothing}, on : Int \cup {Nothing}]]
      /\ job[u] \in [op : setup.ops \cup {"none"}, tid : Threads \cup {Nothing}, on : Int \cup {Nothing}]
  BY DEF CtxInv, CallTypes
<1>2. CASE SetOn(u, a)
  BY <1>1, <1>2 DEF SetOn
<1>3. CASE job' = job /\ a = job[u].on
  BY <1>3
<1> QED
  BY <1>2, <1>3

\* The layers are numbers.
LEMMA TrackedIs ==
  ASSUME CtxInv
  PROVE  /\ Tracked.virtual \in Nat /\ Tracked.layer \in Int
         /\ tracked # Nothing => tracked \in Adapters /\ Tracked = tracker[tracked]
         /\ tracker \in [Adapters -> [layer : Int, virtual : Nat, contexts : Int]]
<1>1. tracker \in [Adapters -> [layer : Int, virtual : Nat, contexts : Int]]
  BY DEF CtxInv, AdapterTypes
<1>2. tracked # Nothing => tracked \in Adapters /\ Tracked = tracker[tracked]
  BY ContextsAssumption DEF CtxInv, AdapterTypes, Valid, Adapters, Tracked, ContextsAssumption
<1>3. NoLayers.virtual = 0 /\ NoLayers.layer = 0
  BY DEF NoLayers
<1> QED
  BY <1>1, <1>2, <1>3 DEF Tracked

\* A task goes on where nothing is awaited.
LEMMA KeepsLoop ==
  ASSUME CtxInv, NEW u \in Users, NEW h, At(u, h), Go(u), h \notin {"connect", "shut", "shut_attr", "await_pool"},
         setup.kind \in Async, todo'[u] # <<>>, todo'[u][1] # "connect"
  PROVE  loop' = u
<1> DEFINE r == Drop(todo[u], 0 + 1)
<1>1. Proceed(u, r, Step(u) # "connect" /\ Awaits(Step(u)))
  BY DEF Go, Skip, Continue
<1>2. todo'[u] = r /\ todo[u] \in Seq(Words)
  BY <1>1 DEF Proceed, CtxInv, CallTypes
<1>3. r \in Seq(Words)
  BY <1>2 DEF Drop
<1>4. Head(r) = r[1] /\ Head(r) # "connect" /\ r # <<>>
  BY <1>2, <1>3
<1>5. ~Awaits(Step(u))
  BY DEF At, Awaits
<1>6. setup.kind \notin Sync
  BY DEF Sync, Async
<1> HIDE DEF r
<1> QED
  BY <1>1, <1>4, <1>5, <1>6 DEF Proceed

\* What is known where one of the wrapper's calls goes on, or jumps.
LEMMA WrapGoes ==
  ASSUME CtxInv, FitCalm, NEW u \in Users, NEW h \in Wraps, At(u, h), NEW n \in Nat, n + 1 <= Len(todo[u]), Skip(u, n),
         job'[u].op = job[u].op
  PROVE  /\ InCtx(u)' /\ FitForm(job'[u].op, todo'[u]) /\ \A w \in Users \ {u} : todo'[w] = todo[w]
         /\ todo'[u] = <<>> => /\ job[u].op = "enter" => todo[u][n + 1] = "entered"
                               /\ job[u].op = "exit" => todo[u][n + 1] = "exited"
         /\ todo'[u] # <<>> => /\ n + 1 < Len(todo[u]) /\ todo'[u][1] = todo[u][n + 2] /\ Is(todo'[u], 1, todo[u][n + 2])
                               /\ Follows(TRUE, todo[u][n + 1], todo[u][n + 2])
         /\ ~Is(todo'[u], 1, "virt_exit")
         /\ \A x : Says(u, x)' <=> \E i \in n + 2..Len(todo[u]) : todo[u][i] = x
<1>1. h # "none" /\ h \notin StoreSteps
  BY WrapsApart
<1>2. InCtx(u) /\ todo[u] # <<>>
  BY <1>1, WrapperHeads
<1>3. PICK m \in 1..Len(todo[u]) : m = n + 1 /\ Runs(u, m) /\ m + 1 = n + 2
  BY RunsBy
<1>4. /\ InCtx(u)' /\ FitForm(job'[u].op, todo'[u]) /\ \A w \in Users \ {u} : todo'[w] = todo[w]
      /\ todo'[u] = <<>> => /\ job[u].op = "enter" => todo[u][m] = "entered"
                            /\ job[u].op = "exit" => todo[u][m] = "exited"
      /\ todo'[u] # <<>> => /\ m < Len(todo[u]) /\ todo'[u][1] = todo[u][m + 1] /\ Is(todo'[u], 1, todo[u][m + 1])
                            /\ Follows(TRUE, todo[u][m], todo[u][m + 1])
      /\ ~Is(todo'[u], 1, "virt_exit")
      /\ \A x : Says(u, x)' <=> \E i \in m + 1..Len(todo[u]) : todo[u][i] = x
  BY <1>2, <1>3, FitGoes
<1> QED
  BY <1>3, <1>4

\* Where one of the wrapper's calls is.
LEMMA WrapHere ==
  ASSUME CtxInv, FitCalm, NEW u \in Users, NEW h \in Wraps, At(u, h)
  PROVE  /\ todo[u] # <<>> /\ todo[u] \in Seq(Words) /\ Len(todo[u]) \in Nat \ {0} /\ todo[u][1] = h /\ InCtx(u) /\ u \in Crew
         /\ loop \in {Nothing, u} /\ Fits(setup.kind, TRUE, todo[u], 1) /\ setup.kind \in Wrapped
         /\ (\A x : Is(todo[u], 1, x) <=> x = h) /\ Says(u, h) /\ 0 \in Nat /\ 0 + 1 <= Len(todo[u])
         /\ FitForm(job[u].op, todo[u]) /\ PendingFit(u) /\ PlaceFit(u)
         /\ \A i \in 1..Len(todo[u]) : todo[u][i] \in CtxWords(job[u].op)
         /\ \A i \in 1..Len(todo[u]) - 1 : Follows(TRUE, todo[u][i], todo[u][i + 1])
         /\ h \in {"get_adapter", "make", "install", "virt_enter", "entered"} => job[u].op # "exit"
         /\ h \in {"virt_exit", "exited"} => job[u].op = "exit"
         /\ h \in {"virt_enter", "entered"} => job[u].op = "enter"
         /\ DOMAIN depth = Users /\ depth[u] \in Nat /\ disturbed \in Nat /\ instance = tracked
<1>1. h # "none" /\ h \notin StoreSteps
  BY WrapsApart
<1>2. /\ todo[u] # <<>> /\ todo[u] \in Seq(Words) /\ Len(todo[u]) \in Nat \ {0} /\ todo[u][1] = h
      /\ InCtx(u) /\ setup.kind \in Wrapped /\ Fits(setup.kind, TRUE, todo[u], 1)
      /\ \A i \in 1..Len(todo[u]) - 1 : Follows(TRUE, todo[u][i], todo[u][i + 1])
      /\ \A i \in 1..Len(todo[u]) : todo[u][i] \in CtxWords(job[u].op)
  BY <1>1, WrapperHeads
<1>3. u \in Crew /\ loop \in {Nothing, u} /\ (\A x : Is(todo[u], 1, x) <=> x = h) /\ h \in CtxWords(job[u].op)
  BY <1>1, <1>2, CtxHeads
<1>4. 1 \in 1..Len(todo[u]) /\ 0 \in Nat /\ 0 + 1 <= Len(todo[u])
  BY <1>2
<1>5. Says(u, h)
  BY <1>2, <1>4 DEF Says
<1>6. FitForm(job[u].op, todo[u]) /\ PendingFit(u) /\ PlaceFit(u) /\ disturbed \in Nat /\ instance = tracked
  BY <1>2 DEF FitCalm, FitOf
<1>7. DOMAIN depth = Users /\ depth[u] \in Nat
  BY DEF CtxInv, AdapterTypes
<1>8. /\ h \in {"get_adapter", "make", "install", "virt_enter", "entered"} => job[u].op # "exit"
      /\ h \in {"virt_exit", "exited"} => job[u].op = "exit"
      /\ h \in {"virt_enter", "entered"} => job[u].op = "enter"
  BY <1>3, WordsApart
<1> QED
  BY <1>2, <1>3, <1>4, <1>5, <1>6, <1>7, <1>8

\* A step of a call that is neither entering nor leaving a block, before or after it.
LEMMA FitsOut ==
  ASSUME CtxInv, FitCalm, NEW u \in Users, NEW h \in {"get_adapter", "make", "install"}, At(u, h),
         NEW n \in Nat, n + 1 <= Len(todo[u]), Skip(u, n), todo[u][n + 1] \in Finding, job'[u].op = job[u].op,
         UNCHANGED <<setup, depth, disturbed>>, \A w \in Users \ {u} : job'[w] = job[w],
         tracked # Nothing => tracked' = tracked, instance' = tracked', Tracked' = Tracked, PendingFit(u)'
  PROVE  FitCalm'
<1>1. h \in Wraps
  BY DEF Wraps
<1>2. /\ todo[u] # <<>> /\ Len(todo[u]) \in Nat \ {0} /\ u \in Crew /\ loop \in {Nothing, u} /\ job[u].op # "exit"
      /\ FitForm(job[u].op, todo[u]) /\ disturbed \in Nat
  BY <1>1, WrapHere
<1>3. /\ FitForm(job'[u].op, todo'[u]) /\ \A w \in Users \ {u} : todo'[w] = todo[w]
      /\ \A x : Says(u, x)' <=> \E i \in n + 2..Len(todo[u]) : todo[u][i] = x
  BY <1>1, WrapGoes
<1>4. ASSUME job[u].op = "enter" PROVE Says(u, "virt_enter") /\ Says(u, "virt_enter")'
  <2>1. n + 1 \in 1..Len(todo[u]) /\ (n + 1) + 1 = n + 2
    BY <1>2
  <2>2. \E i \in (n + 1) + 1..Len(todo[u]) : todo[u][i] = "virt_enter"
    BY <1>2, <1>4, <2>1 DEF FitForm
  <2>3. \A i \in n + 2..Len(todo[u]) : i \in 1..Len(todo[u])
    BY <1>2
  <2> QED BY <1>3, <2>1, <2>2, <2>3 DEF Says
<1>5. ~Entering(u) /\ ~Ready(u) /\ ~Leaving(u) /\ ~Entering(u)' /\ ~Ready(u)' /\ ~Leaving(u)'
  BY <1>2, <1>4 DEF Entering, Ready, Leaving
<1>6. FitOf(u)'
  BY <1>3, <1>5 DEF FitOf, PlaceFit
<1>7. Inside(u)' = Inside(u)
  BY <1>5 DEF Inside
<1> QED
  BY <1>2, <1>3, <1>5, <1>6, <1>7, FitsStay

\* get_adapter: the one there is is taken, or one is made before another task runs.
LEMMA FitGetAdapter ==
  ASSUME CtxInv, Nesting, FitCalm, NEW u \in Users, GetAdapter(u)
  PROVE  FitCalm'
<1>1. /\ At(u, "get_adapter") /\ UNCHANGED <<setup, instance, tracked, tracker, depth, disturbed>>
      /\ IF instance = Nothing THEN Go(u) /\ UNCHANGED job ELSE SetOn(u, instance) /\ Skip(u, Len(Construct) + 1)
  BY DEF GetAdapter, ctxVars
<1>2. "get_adapter" \in Wraps /\ "get_adapter" \in Finding /\ Tracked' = Tracked
  BY <1>1 DEF Wraps, Finding, Tracked
<1>3. /\ todo[u] # <<>> /\ Len(todo[u]) \in Nat \ {0} /\ todo[u][1] = "get_adapter" /\ Fits(setup.kind, TRUE, todo[u], 1)
      /\ 0 \in Nat /\ 0 + 1 <= Len(todo[u]) /\ instance = tracked /\ FitForm(job[u].op, todo[u])
  BY <1>1, <1>2, WrapHere
<1>4. CASE instance = Nothing
  <2>1. Go(u) /\ Skip(u, 0) /\ job' = job
    BY <1>1, <1>4 DEF Go
  <2>2. job'[u].op = job[u].op /\ todo[u][0 + 1] \in Finding
    BY <1>2, <1>3, <2>1
  <2>3. /\ todo'[u] # <<>> => /\ todo'[u][1] = todo[u][0 + 2] /\ Is(todo'[u], 1, todo[u][0 + 2])
                              /\ Follows(TRUE, todo[u][0 + 1], todo[u][0 + 2])
    BY <1>1, <1>2, <1>3, <2>1, <2>2, WrapGoes
  <2>4. todo'[u] # <<>> => todo'[u][1] = "make" /\ Is(todo'[u], 1, "make")
    <3> SUFFICES ASSUME todo'[u] # <<>>
                 PROVE  todo'[u][1] = "make" /\ Is(todo'[u], 1, "make")
      OBVIOUS
    <3>1. PICK b : b = todo[u][0 + 2]
      OBVIOUS
    <3>2. Follows(TRUE, "get_adapter", b)
      <4>1. todo[u][0 + 1] = "get_adapter"
        BY <1>3
      <4>2. Follows(TRUE, todo[u][0 + 1], b)
        BY <2>3, <3>1
      <4> QED BY <4>1, <4>2
    <3>3. b = "make"
      BY <3>2 DEF Follows
    <3> QED BY <2>3, <3>1, <3>3
  <2>5. PendingFit(u)'
    <3> SUFFICES ASSUME Says(u, "install")'
                 PROVE  tracked' = Nothing /\ (Lone' \/ (loop' = u /\ Is(todo'[u], 1, "make")))
      BY DEF PendingFit
    <3>1. todo'[u] # <<>>
      BY DoneFit
    <3>2. CASE Lone
      BY <1>1, <1>3, <1>4, <3>2 DEF Lone, Crew
    <3>3. CASE ~Lone
      <4>1. setup.kind \in Async
        BY <3>3 DEF Nesting
      <4>2. loop' = u
        BY <1>1, <2>1, <2>4, <3>1, <4>1, KeepsLoop
      <4> QED BY <1>1, <1>3, <1>4, <2>4, <3>1, <4>2
    <3> QED BY <3>2, <3>3
  <2> QED BY <1>1, <1>2, <1>3, <2>1, <2>2, <2>5, FitsOut
<1>5. CASE instance # Nothing
  <2>1. SetOn(u, instance) /\ Skip(u, Len(Construct) + 1)
    BY <1>1, <1>5
  <2>2. job'[u].op = job[u].op /\ \A w \in Users \ {u} : job'[w] = job[w]
    BY <2>1, SetOnIs
  <2>3. PICK n \in Nat : n = Len(Construct) + 1 /\ n + 1 <= Len(todo[u]) /\ todo[u][n + 1] = "install"
    <3>1. Looks(todo[u], 1, MakeLen(setup.kind) + 1, "install")
      BY <1>3 DEF Fits
    <3>2. PICK k \in Nat : k = MakeLen(setup.kind) + 1 /\ k = Len(Construct) + 1
      BY Lengths DEF MakeLen
    <3>3. 1 + k <= Len(todo[u]) /\ todo[u][1 + k] = "install" /\ 1 + k = k + 1
      BY <3>1, <3>2 DEF Looks
    <3> QED BY <3>2, <3>3
  <2>4. Skip(u, n)
    BY <2>1, <2>3
  <2>5. ~Says(u, "install")'
    <3> SUFFICES ASSUME Says(u, "install")'
                 PROVE  FALSE
      OBVIOUS
    <3>1. PICK i \in n + 2..Len(todo[u]) : todo[u][i] = "install"
      BY <1>1, <1>2, <2>2, <2>3, <2>4, WrapGoes
    <3>2. i \in 1..Len(todo[u]) /\ n + 1 \in 1..Len(todo[u]) /\ i # n + 1
      BY <1>3, <2>3
    <3> QED BY <1>3, <2>3, <3>1, <3>2 DEF FitForm
  <2>6. PendingFit(u)'
    BY <2>5 DEF PendingFit
  <2>7. todo[u][n + 1] \in Finding
    BY <2>3 DEF Finding
  <2> QED BY <1>1, <1>2, <1>3, <2>2, <2>3, <2>4, <2>6, <2>7, FitsOut
<1> QED
  BY <1>4, <1>5

\* An adapter is made; that of a task is installed next.
LEMMA FitMake ==
  ASSUME CtxInv, Nesting, FitCalm, NEW u \in Users, Make(u)
  PROVE  FitCalm'
<1>1. /\ At(u, "make") /\ UNCHANGED <<setup, instance, tracked, tracker, depth, disturbed>>
      /\ SetOn(u, adapters + 1) /\ Go(u) /\ Skip(u, 0)
  BY DEF Make, Go
<1>2. "make" \in Wraps /\ "make" \in Finding /\ Tracked' = Tracked
  BY <1>1 DEF Wraps, Finding, Tracked
<1>3. /\ todo[u] # <<>> /\ Len(todo[u]) \in Nat \ {0} /\ todo[u][1] = "make" /\ Fits(setup.kind, TRUE, todo[u], 1)
      /\ 0 \in Nat /\ 0 + 1 <= Len(todo[u]) /\ instance = tracked /\ FitForm(job[u].op, todo[u]) /\ PendingFit(u)
      /\ \A x : Is(todo[u], 1, x) <=> x = "make"
  BY <1>1, <1>2, WrapHere
<1>4. job'[u].op = job[u].op /\ (\A w \in Users \ {u} : job'[w] = job[w]) /\ todo[u][0 + 1] \in Finding
  BY <1>1, <1>2, <1>3, SetOnIs
<1>5. /\ todo'[u] # <<>> => todo'[u][1] = todo[u][0 + 2] /\ Is(todo'[u], 1, todo[u][0 + 2])
      /\ \A x : Says(u, x)' <=> \E i \in 0 + 2..Len(todo[u]) : todo[u][i] = x
  BY <1>1, <1>2, <1>3, <1>4, WrapGoes
<1>6. PendingFit(u)'
  <2> SUFFICES ASSUME Says(u, "install")'
               PROVE  tracked' = Nothing /\ (Lone' \/ (loop' = u /\ Is(todo'[u], 1, "install")))
    BY DEF PendingFit
  <2>1. Says(u, "install") /\ todo'[u] # <<>>
    <3>1. PICK i \in 0 + 2..Len(todo[u]) : todo[u][i] = "install"
      BY <1>5
    <3>2. i \in 1..Len(todo[u])
      OBVIOUS
    <3> QED BY <3>1, <3>2, DoneFit DEF Says
  <2>2. tracked = Nothing
    BY <1>3, <2>1 DEF PendingFit
  <2>3. CASE Lone
    BY <1>1, <2>2, <2>3 DEF Lone, Crew
  <2>4. CASE ~Lone
    <3>1. setup.kind \in Async /\ setup.kind # "redis"
      BY <2>4 DEF Nesting, Async
    <3>2. PICK a \in {"install", "share", "unset"} : Looks(todo[u], 1, 1, a)
      BY <1>3, <3>1 DEF Fits
    <3>3. 2 \in 1..Len(todo[u]) /\ todo[u][2] = a
      BY <1>3, <3>2 DEF Looks
    <3>4. a = "install"
      BY <1>3, <3>3 DEF FitForm, Foreign
    <3>5. todo'[u][1] = "install" /\ Is(todo'[u], 1, "install")
      <4>1. 0 + 2 = 2
        OBVIOUS
      <4> QED BY <1>5, <2>1, <3>3, <3>4, <4>1
    <3>6. loop' = u
      BY <1>1, <2>1, <3>1, <3>5, KeepsLoop
    <3> QED BY <1>1, <2>2, <3>5, <3>6
  <2> QED BY <2>3, <2>4
<1> QED
  BY <1>1, <1>2, <1>3, <1>4, <1>6, FitsOut

\* It is installed where there is none: nobody is in a block.
LEMMA FitInstall ==
  ASSUME CtxInv, Nesting, FitCalm, NEW u \in Users, Install(u)
  PROVE  FitCalm'
<1>1. /\ At(u, "install") /\ UNCHANGED <<setup, job, depth, disturbed>> /\ Go(u) /\ Skip(u, 0)
      /\ instance' = job[u].on /\ tracked' = job[u].on /\ tracker' = [tracker EXCEPT ![job[u].on] = NoLayers]
  BY DEF Install, Go, On
<1>2. "install" \in Wraps /\ "install" \in Finding /\ "install" # "none" /\ "install" \notin StoreSteps \cup Searches
  BY DEF Wraps, Finding, StoreSteps, Searches
<1>3. /\ todo[u] # <<>> /\ Len(todo[u]) \in Nat \ {0} /\ todo[u][1] = "install" /\ Says(u, "install")
      /\ 0 \in Nat /\ 0 + 1 <= Len(todo[u]) /\ FitForm(job[u].op, todo[u]) /\ PendingFit(u)
      /\ \A x : Is(todo[u], 1, x) <=> x = "install"
  BY <1>1, <1>2, WrapHere
<1>4. job'[u].op = job[u].op /\ (\A w \in Users \ {u} : job'[w] = job[w]) /\ todo[u][0 + 1] \in Finding
  BY <1>1, <1>2, <1>3
<1>5. \A x : Says(u, x)' <=> \E i \in 0 + 2..Len(todo[u]) : todo[u][i] = x
  BY <1>1, <1>2, <1>3, <1>4, WrapGoes
<1>6. PendingFit(u)'
  <2>1. ~Says(u, "install")'
    <3> SUFFICES ASSUME Says(u, "install")'
                 PROVE  FALSE
      OBVIOUS
    <3>1. PICK i \in 0 + 2..Len(todo[u]) : todo[u][i] = "install"
      BY <1>5
    <3>2. i \in 1..Len(todo[u]) /\ 1 \in 1..Len(todo[u]) /\ i # 1
      BY <1>3
    <3> QED BY <1>3, <3>1, <3>2 DEF FitForm
  <2> QED BY <2>1 DEF PendingFit
<1>7. tracked = Nothing
  BY <1>3 DEF PendingFit
<1>8. Tracked' = Tracked
  <2>1. job[u].on \in Adapters /\ DOMAIN tracker = Adapters
    BY <1>1, <1>2, OnIs DEF CtxInv, AdapterTypes
  <2>2. Tracked = NoLayers
    BY <1>7 DEF Tracked
  <2>3. Tracked' = NoLayers
    BY <1>1, <2>1 DEF Tracked
  <2> QED BY <2>2, <2>3
<1> QED
  BY <1>1, <1>2, <1>3, <1>4, <1>6, <1>7, <1>8, FitsOut

-----------------------------------------------------------------------------
\* How the number of blocks follows those of the callers.
LEMMA CountMore ==
  ASSUME CtxInv, Counted, NEW u \in Users, Inside(u)' = Inside(u) + 1, \A w \in Users \ {u} : Inside(w)' = Inside(w),
         Tracked'.virtual = Tracked.virtual + 1
  PROVE  Counted'
<1> DEFINE f == [w \in Users |-> Inside(w)]
           g == [w \in Users |-> Inside(w)']
<1>1. f[u] \in Nat /\ g[u] = f[u] + 1 /\ \A w \in Users \ {u} : g[w] = f[w]
  BY InsideIs
<1>2. Insides = Piles(f) /\ Insides' = Piles(g)
  BY InsidesAre
<1> HIDE DEF f, g
<1>3. IsFiniteSet(Insides) => IsFiniteSet(Insides') /\ Cardinality(Insides') = Cardinality(Insides) + 1
  BY <1>1, <1>2, PilesCount
<1> QED
  BY <1>3 DEF Counted

\* One block less.
LEMMA CountLess ==
  ASSUME CtxInv, Counted, NEW u \in Users, Inside(u)' \in Nat, Inside(u) = Inside(u)' + 1,
         \A w \in Users \ {u} : Inside(w)' = Inside(w), Tracked'.virtual = Tracked.virtual - 1
  PROVE  Counted'
<1> DEFINE f == [w \in Users |-> Inside(w)]
           g == [w \in Users |-> Inside(w)']
<1>1. g[u] \in Nat /\ f[u] = g[u] + 1 /\ \A w \in Users \ {u} : f[w] = g[w]
  OBVIOUS
<1>2. Insides = Piles(f) /\ Insides' = Piles(g)
  BY InsidesAre
<1> HIDE DEF f, g
<1>3. IsFiniteSet(Insides) => /\ IsFiniteSet(Insides') /\ Cardinality(Insides') \in Nat
                              /\ Cardinality(Insides) = Cardinality(Insides') + 1
  BY <1>1, <1>2, PilesCount
<1> QED
  BY <1>3 DEF Counted

\* As many.
LEMMA CountSame ==
  ASSUME Counted, \A w \in Users : Inside(w)' = Inside(w), Tracked'.virtual = Tracked.virtual
  PROVE  Counted'
<1>1. [w \in Users |-> Inside(w)'] = [w \in Users |-> Inside(w)]
  OBVIOUS
<1>2. Insides' = Insides
  BY <1>1, InsidesAre
<1> QED
  BY <1>2 DEF Counted

\* The layers, where nobody else is entering or leaving the object.
LEMMA LayeredBy ==
  ASSUME NEW u \in Users, \A w \in Users \ {u} : ~Crosses(w)',
         Entering(u)' => Tracked'.layer = Tracked'.virtual - 1 /\ LayersOf(Tracked'.virtual) = Tracked'.virtual,
         Leaving(u)' => Tracked'.layer = Tracked'.virtual + 1 /\ LayersOf(Tracked'.virtual + 1) = Tracked'.virtual + 1,
         ~Crosses(u)' => Tracked'.layer = LayersOf(Tracked'.virtual)
  PROVE  Layered'
<1>2. LayersOf(Tracked.virtual)' = LayersOf(Tracked'.virtual) /\ LayersOf(Tracked.virtual + 1)' = LayersOf(Tracked'.virtual + 1)
  BY DEF LayersOf
<1>3. \A w \in Users \ {u} : ~Entering(w)' /\ ~Leaving(w)'
  BY DEF Crosses
<1>4. \A v, w \in Users : Crosses(v)' /\ Crosses(w)' => v = w
  OBVIOUS
<1>5. \A w \in Users : Entering(w)' => Tracked'.layer = Tracked'.virtual - 1 /\ LayersOf(Tracked'.virtual) = Tracked'.virtual
  BY <1>3
<1>6. \A w \in Users : Leaving(w)' => Tracked'.layer = Tracked'.virtual + 1 /\ LayersOf(Tracked'.virtual + 1) = Tracked'.virtual + 1
  BY <1>3
<1>7. (\A w \in Users : ~Crosses(w)') => Tracked'.layer = LayersOf(Tracked'.virtual)
  OBVIOUS
<1> QED
  BY <1>2, <1>4, <1>5, <1>6, <1>7 DEF Layered

\* While one caller takes a step, the others are in as many blocks, and cross the object's bounds as before.
LEMMA OthersFit ==
  ASSUME CtxInv, FitCalm, NEW u \in Users, u \in Crew, loop \in {Nothing, u}, setup' = setup,
         \A w \in Users \ {u} : todo'[w] = todo[w] /\ job'[w] = job[w] /\ depth'[w] = depth[w],
         tracked # Nothing => tracked' = tracked
  PROVE  \A w \in Users \ {u} : Inside(w)' = Inside(w) /\ (Crosses(w)' <=> Crosses(w))
<1> TAKE w \in Users \ {u}
<1>1. (Entering(w)' <=> Entering(w)) /\ (Ready(w)' <=> Ready(w)) /\ (Leaving(w)' <=> Leaving(w))
  BY FitsOthers
<1> QED
  BY <1>1 DEF Inside, Crosses

\* Who is entering or leaving the object has that to say.
LEMMA CrossingIs ==
  ASSUME CtxInv, FitCalm, NEW w \in Users, Crosses(w)
  PROVE  Crossing(w)
<1>1. job[w].op \in {"enter", "exit"} /\ todo[w] # <<>>
  BY DEF Crosses, Entering, Leaving
<1>2. FitForm(job[w].op, todo[w])
  BY <1>1 DEF FitCalm, FitOf, InCtx, CtxOps
<1>3. todo[w] \in Seq(Words)
  BY DEF CtxInv, CallTypes
<1>4. Len(todo[w]) \in DOMAIN todo[w]
  BY <1>1, <1>3
<1>5. todo[w][Len(todo[w])] \in {"entered", "exited"}
  BY <1>1, <1>2 DEF FitForm
<1> QED
  BY <1>4, <1>5 DEF Crossing

\* A call that comes to the end of a block is over.
LEMMA WrapEnds ==
  ASSUME CtxInv, FitCalm, NEW u \in Users, NEW h \in Wraps, At(u, h), NEW n \in Nat, n + 1 <= Len(todo[u]), Skip(u, n),
         job'[u].op = job[u].op, todo[u][n + 1] \in {"entered", "exited"}
  PROVE  todo'[u] = <<>> /\ \A w \in Users \ {u} : todo'[w] = todo[w]
<1>1. /\ \A w \in Users \ {u} : todo'[w] = todo[w]
      /\ todo'[u] # <<>> => Follows(TRUE, todo[u][n + 1], todo[u][n + 2])
  BY WrapGoes
<1>2. ~Follows(TRUE, todo[u][n + 1], todo[u][n + 2])
  BY DEF Follows, Ends
<1> QED
  BY <1>1, <1>2

\* A block more: the object is entered while there are layers left.
LEMMA FitVirtEnter ==
  ASSUME CtxInv, FitCalm, NEW u \in Users, VirtEnterStep(u)
  PROVE  FitCalm'
<1> DEFINE d == Tracked.virtual
<1>1. /\ At(u, "virt_enter") /\ "virt_enter" \in Wraps /\ SetOn(u, tracked) /\ UNCHANGED <<setup, instance, tracked>>
      /\ disturbed' = IF \E w \in Users \ {u} : Crossing(w) THEN disturbed + 1 ELSE disturbed
  BY DEF VirtEnterStep, Wraps
<1>2. /\ todo[u] # <<>> /\ todo[u] \in Seq(Words) /\ Len(todo[u]) \in Nat \ {0} /\ todo[u][1] = "virt_enter"
      /\ u \in Crew /\ loop \in {Nothing, u} /\ setup.kind \in Wrapped /\ 0 \in Nat /\ 0 + 1 <= Len(todo[u])
      /\ Fits(setup.kind, TRUE, todo[u], 1) /\ Says(u, "virt_enter") /\ PendingFit(u)
      /\ (\A x : Is(todo[u], 1, x) <=> x = "virt_enter")
      /\ \A i \in 1..Len(todo[u]) - 1 : Follows(TRUE, todo[u][i], todo[u][i + 1])
      /\ job[u].op = "enter" /\ DOMAIN depth = Users /\ depth[u] \in Nat /\ disturbed \in Nat /\ instance = tracked
  BY <1>1, WrapHere
<1>3. job'[u].op = "enter" /\ job'[u].op = job[u].op /\ job'[u].on = tracked /\ \A w \in Users \ {u} : job'[w] = job[w]
  BY <1>1, <1>2, SetOnIs
<1>4. tracked # Nothing /\ ~Says(u, "install")
  <2>1. tracked # Nothing
    BY <1>2 DEF CtxInv, Under
  <2> QED BY <1>2, <2>1 DEF PendingFit
<1>5. tracked \in Adapters /\ Tracked = tracker[tracked] /\ d \in Nat /\ DOMAIN tracker = Adapters
  BY <1>4, TrackedIs
<1>6. PICK l \in [layer : Int, virtual : Nat, contexts : Int] : l = tracker[tracked]
  BY <1>5, TrackedIs
<1>7. /\ tracker' = [tracker EXCEPT ![tracked] = VirtEnter(l)]
      /\ IF EntersObject(VirtEnter(l), MaxLayers) THEN Go(u) /\ UNCHANGED depth
         ELSE Skip(u, Len(Enter) + 1) /\ depth' = [depth EXCEPT ![u] = depth[u] + 1]
  BY <1>6 DEF VirtEnterStep
<1>8. /\ Tracked' = VirtEnter(l) /\ VirtEnter(l).layer = l.layer /\ VirtEnter(l).virtual = l.virtual + 1 /\ Tracked = l
      /\ EntersObject(VirtEnter(l), MaxLayers) <=> (MaxLayers = 0 \/ l.layer < MaxLayers)
  BY <1>1, <1>4, <1>5, <1>6, <1>7 DEF Tracked, VirtEnter, EntersObject
<1>9. ~Entering(u) /\ ~Ready(u) /\ ~Leaving(u) /\ Inside(u) = depth[u] /\ ~Crosses(u)
  <2>1. ~Entering(u) /\ ~Ready(u) /\ ~Leaving(u)
    BY <1>2 DEF Entering, Ready, Leaving
  <2> QED BY <1>2, <2>1 DEF Inside, Crosses
<1>10. disturbed' \in Nat /\ (disturbed' = 0 => disturbed = 0 /\ \A w \in Users : ~Crosses(w))
  <2>1. disturbed' = 0 => disturbed = 0 /\ \A w \in Users \ {u} : ~Crossing(w)
    BY <1>1, <1>2
  <2>2. disturbed' \in Nat
    BY <1>1, <1>2
  <2> QED BY <1>9, <2>1, <2>2, CrossingIs
<1>11. ASSUME disturbed' = 0, Lone \/ MaxLayers = 1
       PROVE  Tracked.layer = LayersOf(d)
  BY <1>10, <1>11 DEF FitCalm, Bound, Layered
<1>12. ASSUME disturbed' = 0, \A w \in Users \ {u} : todo'[w] = todo[w] /\ depth'[w] = depth[w], Inside(u)' = depth[u] + 1
       PROVE  Counted' /\ \A w \in Users \ {u} : ~Crosses(w)'
  <2>1. \A w \in Users \ {u} : Inside(w)' = Inside(w) /\ (Crosses(w)' <=> Crosses(w))
    BY <1>1, <1>2, <1>3, <1>12, OthersFit
  <2>2. Counted
    BY <1>10, <1>12 DEF FitCalm, Bound
  <2>3. Inside(u)' = Inside(u) + 1 /\ Tracked'.virtual = Tracked.virtual + 1
    BY <1>8, <1>9, <1>12
  <2> QED BY <1>10, <1>12, <2>1, <2>2, <2>3, CountMore
<1>13. Lone' = Lone
  BY <1>1 DEF Lone, Crew
<1>14. CASE EntersObject(VirtEnter(l), MaxLayers)
  <2>1. Go(u) /\ Skip(u, 0) /\ depth' = depth
    BY <1>7, <1>14 DEF Go
  <2>2. /\ InCtx(u)' /\ FitForm(job'[u].op, todo'[u]) /\ \A w \in Users \ {u} : todo'[w] = todo[w]
        /\ todo'[u] = <<>> => todo[u][0 + 1] = "entered"
        /\ \A x : Says(u, x)' <=> \E i \in 0 + 2..Len(todo[u]) : todo[u][i] = x
    <3>1. At(u, "virt_enter") /\ "virt_enter" \in Wraps /\ 0 \in Nat /\ 0 + 1 <= Len(todo[u]) /\ Skip(u, 0) /\ job'[u].op = job[u].op
      BY <1>1, <1>2, <1>3, <2>1
    <3>2. job[u].op = "enter"
      BY <1>2
    <3> QED BY <3>1, <3>2, WrapGoes
  <2>3. todo'[u] # <<>>
    BY <1>2, <2>2
  <2>4. ~Says(u, "virt_enter")' /\ ~Says(u, "install")'
    <3>1. ASSUME NEW i \in 0 + 2..Len(todo[u])
          PROVE  i \in 1..Len(todo[u]) /\ i - 1 \in 1..Len(todo[u]) - 1 /\ i - 1 \in 1..Len(todo[u]) /\ (i - 1) + 1 = i
      BY <1>2
    <3>2. ASSUME NEW i \in 0 + 2..Len(todo[u])
          PROVE  todo[u][i] # "virt_enter" /\ todo[u][i] # "install"
      <4>3. PICK j \in 1..Len(todo[u]) - 1 : j \in 1..Len(todo[u]) /\ j + 1 = i
        BY <3>1
      <4>1. todo[u][i] # "install" /\ todo[u][j] # "install"
        BY <1>4, <3>1, <4>3 DEF Says
      <4>2. todo[u][j] \in Words /\ Follows(TRUE, todo[u][j], todo[u][i])
        <5>1. Follows(TRUE, todo[u][j], todo[u][j + 1])
          BY <1>2
        <5>2. todo[u][j] \in Words
          BY <1>2
        <5> QED BY <4>3, <5>1, <5>2
      <4> QED BY <4>1, <4>2, OnlyInstallEnters
    <3> QED BY <2>2, <3>2
  <2>5. Entering(u)' /\ ~Leaving(u)' /\ ~Ready(u)'
    BY <1>3, <2>3, <2>4 DEF Entering, Leaving, Ready
  <2>6. FitOf(u)'
    <3>1. PendingFit(u)' /\ PlaceFit(u)'
      BY <1>1, <1>3, <1>4, <2>4 DEF PendingFit, PlaceFit
    <3> QED BY <2>2, <3>1 DEF FitOf
  <2>7. Inside(u)' = depth[u] + 1
    BY <2>1, <2>5 DEF Inside
  <2>8. ASSUME disturbed' = 0 PROVE Bound'
    <3>1. Counted' /\ \A w \in Users \ {u} : ~Crosses(w)'
      BY <1>12, <2>1, <2>2, <2>7, <2>8
    <3>2. ASSUME Lone \/ MaxLayers = 1 PROVE Layered'
      <4>1. l.virtual = d /\ l.layer = LayersOf(d)
        BY <1>8, <1>11, <2>8, <3>2
      <4>2. LayersOf(d) = d /\ LayersOf(d + 1) = d + 1
        BY <1>5, <1>8, <1>14, <4>1, LayerCounts
      <4>3. Tracked'.layer = Tracked'.virtual - 1 /\ LayersOf(Tracked'.virtual) = Tracked'.virtual
        BY <1>5, <1>8, <4>1, <4>2
      <4>4. Crosses(u)'
        BY <2>5 DEF Crosses
      <4> QED BY <2>5, <3>1, <4>3, <4>4, LayeredBy
    <3> QED BY <1>13, <3>1, <3>2 DEF Bound
  <2> QED BY <1>1, <1>2, <1>3, <1>10, <2>2, <2>6, <2>8, FitsBy
<1>15. CASE ~EntersObject(VirtEnter(l), MaxLayers)
  <2>1. Skip(u, Len(Enter) + 1) /\ depth'[u] = depth[u] + 1 /\ \A w \in Users \ {u} : depth'[w] = depth[w]
    BY <1>2, <1>7, <1>15
  <2>2. PICK n \in Nat : n = Len(Enter) + 1 /\ n + 1 <= Len(todo[u]) /\ todo[u][n + 1] = "entered"
    <3>1. /\ Looks(todo[u], 1, EnterLen(setup.kind) + 1, "entered")
          /\ EnterLen(setup.kind) \in Nat /\ Len(Enter) = EnterLen(setup.kind)
      BY <1>2, Lengths DEF Fits, EnterLen
    <3>2. 1 + (EnterLen(setup.kind) + 1) = (EnterLen(setup.kind) + 1) + 1 /\ EnterLen(setup.kind) + 1 \in Nat
      BY <3>1
    <3> QED BY <3>1, <3>2 DEF Looks
  <2>3. todo'[u] = <<>> /\ \A w \in Users \ {u} : todo'[w] = todo[w]
    BY <1>1, <1>3, <2>1, <2>2, WrapEnds
  <2>4. FitOf(u)' /\ ~Entering(u)' /\ ~Ready(u)' /\ ~Leaving(u)'
    BY <2>3, DoneFit
  <2>5. Inside(u)' = depth[u] + 1 /\ ~Crosses(u)'
    BY <1>2, <2>1, <2>4 DEF Inside, Crosses
  <2>6. ASSUME disturbed' = 0 PROVE Bound'
    <3>1. Counted' /\ \A w \in Users \ {u} : ~Crosses(w)'
      BY <1>12, <2>1, <2>3, <2>5, <2>6
    <3>2. ASSUME Lone \/ MaxLayers = 1 PROVE Layered'
      <4>1. l.virtual = d /\ l.layer = LayersOf(d)
        BY <1>8, <1>11, <2>6, <3>2
      <4>2. LayersOf(d + 1) = LayersOf(d)
        BY <1>5, <1>8, <1>15, <4>1, LayerCounts
      <4>3. Tracked'.layer = LayersOf(Tracked'.virtual)
        BY <1>5, <1>8, <4>1, <4>2
      <4> QED BY <2>4, <3>1, <4>3, LayeredBy
    <3> QED BY <1>13, <3>1, <3>2 DEF Bound
  <2> QED BY <1>1, <1>2, <1>3, <1>10, <2>3, <2>4, <2>6, FitsBy
<1> QED
  BY <1>14, <1>15

\* A block has been entered: it is the caller's own, and the layer is counted.
LEMMA FitEntered ==
  ASSUME CtxInv, FitCalm, NEW u \in Users, EnteredStep(u)
  PROVE  FitCalm'
<1> DEFINE v == Tracked.virtual
<1>1. /\ At(u, "entered") /\ "entered" \in Wraps /\ UNCHANGED <<setup, job, instance, tracked, disturbed>> /\ Go(u) /\ Skip(u, 0)
      /\ depth' = [depth EXCEPT ![u] = @ + 1] /\ tracker' = [tracker EXCEPT ![job[u].on] = Entered(@)]
  BY DEF EnteredStep, Wraps, On, Go
<1>2. /\ todo[u] # <<>> /\ todo[u] \in Seq(Words) /\ Len(todo[u]) \in Nat \ {0} /\ todo[u][1] = "entered"
      /\ u \in Crew /\ loop \in {Nothing, u} /\ 0 \in Nat /\ 0 + 1 <= Len(todo[u]) /\ PlaceFit(u)
      /\ \A i \in 1..Len(todo[u]) - 1 : Follows(TRUE, todo[u][i], todo[u][i + 1])
      /\ job[u].op = "enter" /\ DOMAIN depth = Users /\ depth[u] \in Nat /\ disturbed \in Nat /\ instance = tracked
  BY <1>1, WrapHere
<1>3. todo[u][0 + 1] = "entered" /\ job'[u].op = job[u].op /\ \A w \in Users \ {u} : job'[w] = job[w]
  BY <1>1, <1>2
<1>4. todo'[u] = <<>> /\ \A w \in Users \ {u} : todo'[w] = todo[w]
  BY <1>1, <1>2, <1>3, WrapEnds
<1>5. Entering(u) /\ ~Ready(u) /\ ~Leaving(u)
  <2>1. ~Says(u, "virt_enter")
    <3>1. ~(1 < Len(todo[u]))
      <4> SUFFICES ASSUME 1 < Len(todo[u]) PROVE FALSE
        OBVIOUS
      <4>1. 1 \in 1..Len(todo[u]) - 1
        BY <1>2
      <4>2. Follows(TRUE, todo[u][1], todo[u][1 + 1])
        BY <1>2, <4>1
      <4>3. Follows(TRUE, "entered", todo[u][1 + 1])
        BY <1>2, <4>2
      <4> QED BY <4>3 DEF Follows, Ends
    <3>2. \A i \in 1..Len(todo[u]) : i = 1
      BY <1>2, <3>1
    <3> QED BY <1>2, <3>2 DEF Says
  <2> QED BY <1>2, <2>1 DEF Entering, Ready, Leaving
<1>6. FitOf(u)' /\ ~Entering(u)' /\ ~Ready(u)' /\ ~Leaving(u)'
  BY <1>4, DoneFit
<1>7. depth'[u] = depth[u] + 1 /\ \A w \in Users \ {u} : depth'[w] = depth[w]
  BY <1>1, <1>2
<1>8. Inside(u)' = Inside(u) /\ Crosses(u) /\ ~Crosses(u)'
  BY <1>2, <1>5, <1>6, <1>7 DEF Inside, Crosses
<1>9. job[u].on = tracked /\ tracked \in Adapters /\ Tracked = tracker[tracked] /\ v \in Nat /\ tracked # Nothing
  BY <1>5, <1>2, TrackedIs DEF PlaceFit
<1>10. PICK l \in [layer : Int, virtual : Nat, contexts : Int] : l = tracker[tracked] /\ DOMAIN tracker = Adapters
  BY <1>9, TrackedIs
<1>11. Tracked' = Entered(l) /\ Entered(l).layer = l.layer + 1 /\ Entered(l).virtual = l.virtual /\ Tracked = l
  BY <1>1, <1>9, <1>10 DEF Tracked, Entered
<1>12. \A w \in Users \ {u} : Inside(w)' = Inside(w) /\ (Crosses(w)' <=> Crosses(w))
  BY <1>1, <1>2, <1>4, <1>7, OthersFit
<1>13. ASSUME disturbed' = 0 PROVE Bound'
  <2>1. Bound
    BY <1>1, <1>13 DEF FitCalm
  <2>2. Counted'
    <3>1. \A w \in Users : Inside(w)' = Inside(w)
      BY <1>8, <1>12
    <3> QED BY <1>11, <2>1, <3>1, CountSame DEF Bound
  <2>3. ASSUME Lone \/ MaxLayers = 1 PROVE Layered'
    <3>1. Layered
      BY <2>1, <2>3 DEF Bound
    <3>2. \A w \in Users \ {u} : ~Crosses(w)'
      BY <1>8, <1>12, <3>1 DEF Layered
    <3>3. l.layer = v - 1 /\ LayersOf(v) = v /\ l.virtual = v
      BY <1>5, <1>11, <3>1 DEF Layered
    <3>4. Tracked'.layer = LayersOf(Tracked'.virtual)
      BY <1>9, <1>10, <1>11, <3>3
    <3> QED BY <1>6, <3>2, <3>4, LayeredBy
  <2>4. Lone' = Lone
    BY <1>1 DEF Lone, Crew
  <2> QED BY <2>2, <2>3, <2>4 DEF Bound
<1> QED
  BY <1>1, <1>2, <1>4, <1>6, <1>13, FitsBy

\* The object has been left: the layer is counted out.
LEMMA FitExited ==
  ASSUME CtxInv, FitCalm, NEW u \in Users, ExitedStep(u)
  PROVE  FitCalm'
<1> DEFINE v == Tracked.virtual
<1>1. /\ At(u, "exited") /\ "exited" \in Wraps /\ UNCHANGED <<setup, job, instance, tracked, depth, disturbed>>
      /\ tracker' = [tracker EXCEPT ![job[u].on] = Exited(tracker[job[u].on])]
      /\ Raise(u) \/ (Go(u) /\ Skip(u, 0))
  BY DEF ExitedStep, Wraps, On, Go
<1>2. /\ todo[u] # <<>> /\ Len(todo[u]) \in Nat \ {0} /\ todo[u][1] = "exited"
      /\ u \in Crew /\ loop \in {Nothing, u} /\ 0 \in Nat /\ 0 + 1 <= Len(todo[u]) /\ PlaceFit(u)
      /\ \A x : Is(todo[u], 1, x) <=> x = "exited"
      /\ job[u].op = "exit" /\ DOMAIN depth = Users /\ depth[u] \in Nat /\ disturbed \in Nat /\ instance = tracked
  BY <1>1, WrapHere
<1>3. todo[u][0 + 1] = "exited" /\ job'[u].op = job[u].op /\ \A w \in Users \ {u} : job'[w] = job[w]
  BY <1>1, <1>2
<1>4. todo'[u] = <<>> /\ \A w \in Users \ {u} : todo'[w] = todo[w]
  <2>1. CASE Raise(u)
    BY <2>1 DEF Raise, CtxInv, CallTypes
  <2>2. CASE Skip(u, 0)
    BY <1>1, <1>2, <1>3, <2>2, WrapEnds
  <2> QED BY <1>1, <2>1, <2>2
<1>5. Leaving(u) /\ ~Ready(u) /\ ~Entering(u)
  BY <1>2 DEF Entering, Ready, Leaving
<1>6. FitOf(u)' /\ ~Entering(u)' /\ ~Ready(u)' /\ ~Leaving(u)'
  BY <1>4, DoneFit
<1>8. Inside(u)' = Inside(u) /\ Crosses(u) /\ ~Crosses(u)'
  BY <1>1, <1>5, <1>6 DEF Inside, Crosses
<1>9. job[u].on = tracked /\ tracked \in Adapters /\ Tracked = tracker[tracked] /\ v \in Nat /\ tracked # Nothing
  BY <1>5, <1>2, TrackedIs DEF PlaceFit
<1>10. PICK l \in [layer : Int, virtual : Nat, contexts : Int] : l = tracker[tracked] /\ DOMAIN tracker = Adapters
  BY <1>9, TrackedIs
<1>11. Tracked' = Exited(l) /\ Exited(l).layer = l.layer - 1 /\ Exited(l).virtual = l.virtual /\ Tracked = l
  BY <1>1, <1>9, <1>10 DEF Tracked, Exited
<1>12. \A w \in Users \ {u} : Inside(w)' = Inside(w) /\ (Crosses(w)' <=> Crosses(w))
  BY <1>1, <1>2, <1>4, OthersFit
<1>13. ASSUME disturbed' = 0 PROVE Bound'
  <2>1. Bound
    BY <1>1, <1>13 DEF FitCalm
  <2>2. Counted'
    <3>1. \A w \in Users : Inside(w)' = Inside(w)
      BY <1>8, <1>12
    <3> QED BY <1>11, <2>1, <3>1, CountSame DEF Bound
  <2>3. ASSUME Lone \/ MaxLayers = 1 PROVE Layered'
    <3>1. Layered
      BY <2>1, <2>3 DEF Bound
    <3>2. \A w \in Users \ {u} : ~Crosses(w)'
      BY <1>8, <1>12, <3>1 DEF Layered
    <3>3. l.layer = v + 1 /\ LayersOf(v + 1) = v + 1 /\ l.virtual = v
      BY <1>5, <1>11, <3>1 DEF Layered
    <3>5. LayersOf(v) = v
      BY <1>9, <3>3, LayerCounts
    <3>4. Tracked'.layer = LayersOf(Tracked'.virtual)
      BY <1>9, <1>10, <1>11, <3>3, <3>5
    <3> QED BY <1>6, <3>2, <3>4, LayeredBy
  <2>4. Lone' = Lone
    BY <1>1 DEF Lone, Crew
  <2> QED BY <2>2, <2>3, <2>4 DEF Bound
<1> QED
  BY <1>1, <1>2, <1>3, <1>4, <1>6, <1>13, FitsBy

\* Nobody crosses while a caller is about to leave a block: of tasks that share one layer there would be two in it.
LEMMA NobodyCrosses ==
  ASSUME CtxInv, Bound, NEW u \in Users, u \in Crew, Ready(u), Lone \/ MaxLayers = 1
  PROVE  \A w \in Users : ~Crosses(w)
<1> DEFINE f == [w \in Users |-> Inside(w)]
           v == Tracked.virtual
<1>1. IsFiniteSet(Piles(f)) /\ v = Cardinality(Piles(f)) /\ v \in Nat
  BY InsidesAre, TrackedIs DEF Bound, Counted
<1>2. \A w \in Users : f[w] = Inside(w) /\ (Entering(w) \/ Ready(w) => f[w] \in Nat \ {0})
  BY InsideIs
<1> HIDE DEF f
<1>3. ~Crosses(u)
  BY DEF Crosses, Entering, Leaving, Ready
<1> SUFFICES ASSUME NEW w \in Users, w # u, Crosses(w)
             PROVE  FALSE
  BY <1>3
<1>4. CASE Lone
  <2>1. todo[w] = <<>>
    BY <1>4, OthersIdle
  <2> QED BY <2>1 DEF Crosses, Entering, Leaving
<1>5. CASE MaxLayers = 1
  <2>1. Layered
    BY DEF Bound
  <2>2. \A d \in Nat : LayersOf(d) <= 1
    BY <1>5 DEF LayersOf
  <2>3. CASE Entering(w)
    <3>1. v >= 2
      BY <1>1, <1>2, <2>3, PilesOfTwo
    <3>2. LayersOf(v) = v
      BY <2>1, <2>3 DEF Layered
    <3> QED BY <1>1, <2>2, <3>1, <3>2
  <2>4. CASE Leaving(w)
    <3>1. v >= 1
      BY <1>1, <1>2, PilesOfOne
    <3>2. LayersOf(v + 1) = v + 1 /\ v + 1 \in Nat
      BY <1>1, <2>1, <2>4 DEF Layered
    <3>3. v + 1 <= 1
      BY <2>2, <3>2
    <3> QED BY <1>1, <3>1, <3>3
  <2> QED BY <2>3, <2>4 DEF Crosses
<1> QED
  BY <1>4, <1>5

\* A block less: the object is left once there are more layers than blocks.
LEMMA FitVirtExit ==
  ASSUME CtxInv, FitCalm, NEW u \in Users, VirtExitStep(u)
  PROVE  FitCalm'
<1> DEFINE v == Tracked.virtual
<1>1. /\ At(u, "virt_exit") /\ "virt_exit" \in Wraps /\ UNCHANGED <<setup, job, instance, tracked, depth, disturbed>>
  BY DEF VirtExitStep, Wraps
<1>2. /\ todo[u] # <<>> /\ Len(todo[u]) \in Nat \ {0} /\ todo[u][1] = "virt_exit" /\ setup.kind \in Wrapped
      /\ u \in Crew /\ loop \in {Nothing, u} /\ 0 \in Nat /\ 0 + 1 <= Len(todo[u]) /\ PlaceFit(u)
      /\ (\A x : Is(todo[u], 1, x) <=> x = "virt_exit") /\ Fits(setup.kind, TRUE, todo[u], 1)
      /\ \A i \in 1..Len(todo[u]) : todo[u][i] \in CtxWords(job[u].op)
      /\ job[u].op = "exit" /\ DOMAIN depth = Users /\ depth[u] \in Nat /\ disturbed \in Nat /\ instance = tracked
  BY <1>1, WrapHere
<1>3. job'[u].op = job[u].op /\ \A w \in Users \ {u} : job'[w] = job[w] /\ depth'[w] = depth[w]
  BY <1>1
<1>4. Ready(u) /\ ~Entering(u) /\ ~Leaving(u) /\ ~Crosses(u) /\ Inside(u) = depth[u] + 1
  BY <1>2 DEF Ready, Entering, Leaving, Crosses, Inside
<1>5. job[u].on = tracked /\ tracked \in Adapters /\ Tracked = tracker[tracked] /\ v \in Nat /\ tracked # Nothing
  BY <1>4, <1>2, TrackedIs DEF PlaceFit
<1>6. PICK l \in [layer : Int, virtual : Nat, contexts : Int] : l = tracker[tracked] /\ DOMAIN tracker = Adapters
  BY <1>5, TrackedIs
<1>7. /\ tracker' = [tracker EXCEPT ![tracked] = VirtExit(l)] /\ Tracked = l
      /\ IF LeavesObject(l) THEN Go(u) ELSE Skip(u, Len(Exit) + 1)
  BY <1>5, <1>6 DEF VirtExitStep, On
<1>8. Tracked' = VirtExit(l) /\ VirtExit(l).layer = l.layer /\ (v >= 1 => VirtExit(l).virtual = v - 1)
  BY <1>1, <1>5, <1>6, <1>7 DEF Tracked, VirtExit
<1>9. disturbed = 0 => v >= 1 /\ Bound
  <2> SUFFICES ASSUME disturbed = 0 PROVE v >= 1 /\ Bound
    OBVIOUS
  <2>1. Bound
    BY DEF FitCalm
  <2> DEFINE f == [w \in Users |-> Inside(w)]
  <2>2. IsFiniteSet(Piles(f)) /\ v = Cardinality(Piles(f))
    BY <2>1, InsidesAre DEF Bound, Counted
  <2>3. f[u] \in Nat \ {0}
    BY <1>2, <1>4
  <2> HIDE DEF f
  <2> QED BY <2>1, <2>2, <2>3, PilesOfOne
<1>10. ASSUME disturbed' = 0, \A w \in Users \ {u} : todo'[w] = todo[w], Inside(u)' = depth[u]
       PROVE  /\ Counted' /\ Tracked'.virtual = v - 1 /\ v - 1 \in Nat /\ Tracked'.layer = l.layer
              /\ Lone \/ MaxLayers = 1 => /\ \A w \in Users \ {u} : ~Crosses(w)'
                                          /\ l.layer = LayersOf(v)
  <2>1. \A w \in Users \ {u} : Inside(w)' = Inside(w) /\ (Crosses(w)' <=> Crosses(w))
    BY <1>1, <1>2, <1>3, <1>10, OthersFit
  <2>2. Bound /\ v >= 1
    BY <1>1, <1>9, <1>10
  <2>3. Tracked'.virtual = v - 1 /\ v - 1 \in Nat /\ Tracked'.layer = l.layer
    BY <1>5, <1>8, <2>2
  <2>4. Counted'
    BY <1>2, <1>4, <1>10, <2>1, <2>2, <2>3, CountLess DEF Bound
  <2>5. ASSUME Lone \/ MaxLayers = 1
        PROVE  (\A w \in Users \ {u} : ~Crosses(w)') /\ l.layer = LayersOf(v)
    <3>1. \A w \in Users : ~Crosses(w)
      BY <1>2, <1>4, <2>2, <2>5, NobodyCrosses
    <3> QED BY <1>7, <2>1, <2>2, <2>5, <3>1 DEF Bound, Layered
  <2> QED BY <2>3, <2>4, <2>5
<1>11. LeavesObject(l) <=> v >= 1 /\ v - 1 < l.layer
  BY <1>7 DEF LeavesObject
<1>12. Lone' = Lone
  BY <1>1 DEF Lone, Crew
<1>13. CASE LeavesObject(l)
  <2>1. Go(u) /\ Skip(u, 0)
    BY <1>7, <1>13 DEF Go
  <2>2. /\ InCtx(u)' /\ FitForm(job'[u].op, todo'[u]) /\ \A w \in Users \ {u} : todo'[w] = todo[w]
        /\ todo'[u] = <<>> => todo[u][0 + 1] = "exited"
        /\ ~Is(todo'[u], 1, "virt_exit")
        /\ \A x : Says(u, x)' <=> \E i \in 0 + 2..Len(todo[u]) : todo[u][i] = x
    <3>1. At(u, "virt_exit") /\ "virt_exit" \in Wraps /\ 0 \in Nat /\ 0 + 1 <= Len(todo[u]) /\ Skip(u, 0) /\ job'[u].op = job[u].op
      BY <1>1, <1>2, <1>3, <2>1
    <3>2. job[u].op = "exit"
      BY <1>2
    <3> QED BY <3>1, <3>2, WrapGoes
  <2>3. todo'[u] # <<>>
    BY <1>2, <2>2
  <2>4. Leaving(u)' /\ ~Ready(u)' /\ ~Entering(u)' /\ Crosses(u)' /\ Inside(u)' = depth[u]
    BY <1>1, <1>2, <2>2, <2>3 DEF Leaving, Ready, Entering, Crosses, Inside
  <2>5. ~Says(u, "install")'
    <3>1. \A i \in 0 + 2..Len(todo[u]) : i \in 1..Len(todo[u])
      OBVIOUS
    <3>2. \A i \in 1..Len(todo[u]) : todo[u][i] # "install"
      BY <1>2, WordsApart
    <3> QED BY <2>2, <3>1, <3>2
  <2>6. FitOf(u)'
    BY <1>1, <1>5, <2>2, <2>5 DEF FitOf, PendingFit, PlaceFit
  <2>7. ASSUME disturbed' = 0 PROVE Bound'
    <3>1. ASSUME Lone \/ MaxLayers = 1 PROVE Layered'
      <4>1. /\ Tracked'.virtual = v - 1 /\ v - 1 \in Nat /\ Tracked'.layer = l.layer /\ l.layer = LayersOf(v)
            /\ \A w \in Users \ {u} : ~Crosses(w)'
        BY <1>10, <2>2, <2>4, <2>7, <3>1
      <4>2. PICK d \in Nat : d = v - 1 /\ d + 1 = v
        BY <4>1, <1>5
      <4>3. d < LayersOf(d + 1)
        BY <1>11, <1>13, <4>1, <4>2
      <4>4. LayersOf(d + 1) = d + 1
        BY <4>3, LayerCounts
      <4>5. Tracked'.layer = Tracked'.virtual + 1 /\ LayersOf(Tracked'.virtual + 1) = Tracked'.virtual + 1
        BY <4>1, <4>2, <4>4
      <4> QED BY <2>4, <4>1, <4>5, LayeredBy
    <3> QED BY <1>10, <1>12, <2>2, <2>4, <2>7, <3>1 DEF Bound
  <2> QED BY <1>1, <1>2, <1>3, <2>2, <2>6, <2>7, FitsBy
<1>14. CASE ~LeavesObject(l)
  <2>1. Skip(u, Len(Exit) + 1)
    BY <1>7, <1>14
  <2>2. PICK n \in Nat : n = Len(Exit) + 1 /\ n + 1 <= Len(todo[u]) /\ todo[u][n + 1] = "exited"
    <3>1. Looks(todo[u], 1, ExitLen(setup.kind) + 1, "exited") /\ ExitLen(setup.kind) \in Nat /\ Len(Exit) = ExitLen(setup.kind)
      BY <1>2, Lengths DEF Fits, ExitLen, EnterLen
    <3>2. 1 + (ExitLen(setup.kind) + 1) = (ExitLen(setup.kind) + 1) + 1 /\ ExitLen(setup.kind) + 1 \in Nat
      BY <3>1
    <3> QED BY <3>1, <3>2 DEF Looks
  <2>3. todo'[u] = <<>> /\ \A w \in Users \ {u} : todo'[w] = todo[w]
    BY <1>1, <1>3, <2>1, <2>2, WrapEnds
  <2>4. FitOf(u)' /\ ~Entering(u)' /\ ~Ready(u)' /\ ~Leaving(u)'
    BY <2>3, DoneFit
  <2>5. Inside(u)' = depth[u] /\ ~Crosses(u)'
    BY <1>1, <1>2, <2>4 DEF Inside, Crosses
  <2>6. ASSUME disturbed' = 0 PROVE Bound'
    <3>1. ASSUME Lone \/ MaxLayers = 1 PROVE Layered'
      <4>1. /\ Tracked'.virtual = v - 1 /\ v - 1 \in Nat /\ Tracked'.layer = l.layer /\ l.layer = LayersOf(v)
            /\ \A w \in Users \ {u} : ~Crosses(w)'
        BY <1>10, <2>3, <2>5, <2>6, <3>1
      <4>2. PICK d \in Nat : d = v - 1 /\ d + 1 = v /\ v >= 1
        BY <4>1, <1>5
      <4>3. ~(d < LayersOf(d + 1))
        BY <1>11, <1>14, <4>1, <4>2
      <4>4. LayersOf(d + 1) = LayersOf(d)
        BY <4>3, LayerCounts
      <4>5. Tracked'.layer = LayersOf(Tracked'.virtual)
        BY <4>1, <4>2, <4>4
      <4> QED BY <2>4, <4>1, <4>5, LayeredBy
    <3> QED BY <1>10, <1>12, <2>3, <2>5, <2>6, <3>1 DEF Bound
  <2> QED BY <1>1, <1>2, <1>3, <2>3, <2>4, <2>6, FitsBy
<1> QED
  BY <1>13, <1>14

\* The wrapper's steps: the callers swap no adapter, so those of the module and of reset_adapter are in none of the calls.
LEMMA FitWrapperStep ==
  ASSUME CtxInv, Nesting, FitCalm, NEW u \in Users, WrapperStep(u)
  PROVE  FitCalm'
<1>1. \A h \in Foreign : ~At(u, h)
  <2> SUFFICES ASSUME NEW h \in Foreign, At(u, h)
               PROVE  FALSE
    OBVIOUS
  <2>1. h \notin StoreSteps \cup {"none"}
    BY DEF Foreign, StoreSteps
  <2>2. Len(todo[u]) \in Nat \ {0} /\ todo[u][1] = h /\ InCtx(u)
    BY <2>1, WrapperHeads
  <2>3. FitForm(job[u].op, todo[u])
    BY <2>2 DEF FitCalm, FitOf
  <2>4. 1 \in 1..Len(todo[u])
    BY <2>2
  <2> QED BY <2>2, <2>3, <2>4 DEF FitForm
<1>2. ~SharedAdapter(u) /\ ~Share(u) /\ ~Unset(u)
  BY <1>1 DEF SharedAdapter, Share, Unset, Foreign
<1> QED
  BY <1>2, FitGetAdapter, FitMake, FitInstall, FitVirtEnter, FitEntered, FitVirtExit, FitExited DEF WrapperStep

\* A method of the wrapper and a block begin with the search for the adapter, the end of a block with the counting.
LEMMA FirstWord ==
  ASSUME setup.kind \in Wrapped, NEW op \in CtxOps \ Swaps
  PROVE  /\ CtxPrograms[op] \in Seq(Words) /\ Len(CtxPrograms[op]) \in Nat \ {0}
         /\ op \in {"call", "enter"} => CtxPrograms[op][1] = "get_adapter"
         /\ op = "exit" => CtxPrograms[op][1] = "virt_exit"
<1>1. PICK a, b : Begins(op, a) /\ Block(CtxPrograms[op], a, b, CtxWords(op))
  BY CtxProgramBlocks
<1>2. CtxPrograms[op] \in Seq(Words) /\ Len(CtxPrograms[op]) > 0 /\ CtxPrograms[op][1] = a
  BY <1>1 DEF Block, Shape
<1>3. Len(CtxPrograms[op]) \in Nat \ {0}
  BY <1>2
<1>4. (op = "enter" => a = "get_adapter") /\ (op = "exit" => a = "virt_exit")
  BY <1>1 DEF Begins
<1>5. ASSUME op = "call" PROVE CtxPrograms[op][1] = "get_adapter"
  <2>1. get_adapter \in Seq(Words) /\ Len(get_adapter) > 0 /\ get_adapter[1] = "get_adapter"
    BY AdapterBlocks DEF Block, Shape
  <2>2. Block(Enter, "shut_attr", "keep_attr", PlainWords)
    BY PlainBlocks
  <2>3. PICK c \in Haves : Block(Use, c, "command", PlainWords)
    BY PlainBlocks
  <2>4. PICK d : Block(Exit, "shut_attr", d, PlainWords)
    BY PlainBlocks
  <2>5. Enter \in Seq(Words) /\ Use \in Seq(Words) /\ Exit \in Seq(Words)
    BY <2>2, <2>3, <2>4 DEF Block, Shape
  <2>6. CtxPrograms[op] = ((get_adapter \o Enter) \o Use) \o Exit
    BY <1>5 DEF CtxPrograms, wrapper_call
  <2>7. \A s, t \in Seq(Words) : Len(s) > 0 => s \o t \in Seq(Words) /\ Len(s \o t) > 0 /\ (s \o t)[1] = s[1]
    OBVIOUS
  <2>8. PICK p \in Seq(Words) : p = get_adapter \o Enter /\ Len(p) > 0 /\ p[1] = "get_adapter"
    BY <2>1, <2>5, <2>7
  <2>9. PICK q \in Seq(Words) : q = p \o Use /\ Len(q) > 0 /\ q[1] = "get_adapter"
    BY <2>5, <2>7, <2>8
  <2>10. (q \o Exit)[1] = "get_adapter"
    BY <2>5, <2>7, <2>9
  <2> QED BY <2>6, <2>8, <2>9, <2>10
<1> QED
  BY <1>2, <1>3, <1>4, <1>5

\* A call of the wrapper or of an adapter begins: a block that is to be left is counted until it is.
LEMMA FitCtxAsk ==
  ASSUME CtxInv, Nesting, FitCalm, NEW u \in Users, setup.kind \in Wrapped, NEW op \in setup.ops \cap CtxOps, CtxAsk(u, op)
  PROVE  FitCalm'
<1>1. op \in CtxOps \ Swaps
  BY DEF Nesting, Does
<1>2. PICK s : s = CtxPrograms[op]
  OBVIOUS
<1>3. /\ s \in Seq(Words) /\ Len(s) \in Nat \ {0} /\ 1 \in 1..Len(s) /\ s # <<>>
      /\ op \in {"call", "enter"} => s[1] = "get_adapter"
      /\ op = "exit" => s[1] = "virt_exit"
  BY <1>1, <1>2, FirstWord
<1>4. FitForm(op, s) /\ \A i \in 1..Len(s) : s[i] = "install" => op \in {"enter", "call"}
  BY <1>1, <1>2, FormPrograms
<1>5. PICK j : j = [op |-> op, tid |-> setup.home[u], on |-> IF op = "exit" THEN tracked ELSE instance]
  OBVIOUS
<1>6. /\ job' = [job EXCEPT ![u] = j] /\ todo' = [todo EXCEPT ![u] = s] /\ todo[u] = <<>> /\ loop = Nothing
      /\ depth' = IF op = "exit" THEN [depth EXCEPT ![u] = @ - 1] ELSE depth
      /\ op = "exit" => depth[u] > 0
      /\ UNCHANGED <<setup, instance, tracked, tracker, disturbed>>
      /\ u \in Crew
  BY <1>2, <1>5 DEF CtxAsk, Crew
<1>7. /\ DOMAIN job = Users /\ DOMAIN todo = Users /\ DOMAIN depth = Users /\ depth[u] \in Nat
      /\ depth[u] > 0 => tracked # Nothing
  BY DEF CtxInv, CallTypes, AdapterTypes
<1>8. /\ todo'[u] = s /\ job'[u] = j /\ j.op = op /\ (op = "exit" => j.on = tracked)
      /\ \A w \in Users \ {u} : todo'[w] = todo[w] /\ job'[w] = job[w] /\ depth'[w] = depth[w]
      /\ depth'[u] = IF op = "exit" THEN depth[u] - 1 ELSE depth[u]
  BY <1>5, <1>6, <1>7
<1>9. (\A x : Says(u, x)' <=> \E i \in 1..Len(s) : s[i] = x) /\ \A x : Is(todo'[u], 1, x) <=> s[1] = x
  BY <1>3, <1>8 DEF Says, Is
<1>10. ~Entering(u) /\ ~Ready(u) /\ ~Leaving(u)
  <2>1. ~Is(<<>>, 1, "virt_exit")
    BY DEF Is
  <2> QED BY <1>6, <2>1 DEF Entering, Ready, Leaving
<1>11. ~Entering(u)'
  <2> SUFFICES ASSUME op = "enter" PROVE Says(u, "virt_enter")'
    BY <1>8 DEF Entering
  <2>1. s[1] \in Finding
    BY <1>3 DEF Finding
  <2>2. PICK i \in 1 + 1..Len(s) : s[i] = "virt_enter"
    BY <1>3, <1>4, <2>1 DEF FitForm
  <2>3. i \in 1..Len(s)
    BY <1>3
  <2> QED BY <1>9, <2>2, <2>3
<1>12. (Ready(u)' <=> op = "exit") /\ ~Leaving(u)'
  BY <1>3, <1>8, <1>9 DEF Ready, Leaving
<1>13. PendingFit(u)'
  BY <1>3, <1>4, <1>9 DEF PendingFit
<1>14. PlaceFit(u)'
  BY <1>6, <1>7, <1>8, <1>11, <1>12 DEF PlaceFit
<1>15. FitOf(u)'
  BY <1>4, <1>8, <1>13, <1>14 DEF FitOf
<1>16. Inside(u)' = Inside(u)
  BY <1>7, <1>8, <1>10, <1>11, <1>12 DEF Inside
<1>17. Tracked' = Tracked /\ instance' = tracked' /\ disturbed' \in Nat
  BY <1>6 DEF FitCalm, Tracked
<1> QED
  BY <1>6, <1>8, <1>10, <1>11, <1>12, <1>15, <1>16, <1>17, FitsStay

\* A call on the store itself.
LEMMA FitAsk ==
  ASSUME CtxInv, CtxInv', FitCalm, NEW u \in Users, AskSome(u), UNCHANGED ctxVars
  PROVE  FitCalm'
<1>1. PICK op \in setup.ops \cap (DOMAIN Kind \cup DOMAIN Common), t \in Threads : Ask(u, op, t)
  BY DEF AskSome
<1>2. setup.kind \in Sync \cup Async
  BY StoreAssumption DEF StoreAssumption, CtxInv, CallTypes
<1>3. op \notin CtxOps
  BY <1>2, OpsApart
<1>4. PICK s : s = Program(op)
  OBVIOUS
<1>5. /\ job' = [job EXCEPT ![u] = [op |-> op, tid |-> t, on |-> Nothing]] /\ todo' = [todo EXCEPT ![u] = s]
      /\ todo[u] = <<>> /\ loop = Nothing /\ u \in Crew
      /\ UNCHANGED <<setup, instance, tracked, tracker, depth, disturbed>>
  BY <1>1, <1>4 DEF Ask, ctxVars, Crew
<1>6. DOMAIN job = Users /\ DOMAIN todo = Users
  BY DEF CtxInv, CallTypes
<1>7. job'[u].op = op /\ \A w \in Users \ {u} : todo'[w] = todo[w] /\ job'[w] = job[w]
  BY <1>5, <1>6
<1>8. ~InCtx(u)'
  BY <1>3, <1>7 DEF InCtx
<1>9. disturbed' \in Nat /\ (disturbed' = 0 => disturbed = 0)
  BY <1>5 DEF FitCalm
<1> QED
  BY <1>5, <1>7, <1>8, <1>9, ApartFit

\* Every step keeps what is known of the blocks and the layers.
LEMMA FitStep ==
  ASSUME CtxInv, FitInv, [CtxNext]_allVars
  PROVE  FitInv'
<1>1. setup' = setup
  BY DEF CtxNext, AskSome, Ask, CtxAsk, StoreStepHere, StoreStep, AdapterStep, ShutAttr, WrapperStep, GetAdapter,
         SharedAdapter, Make, Install, Share, Unset, VirtEnterStep, EnteredStep, VirtExitStep, ExitedStep, allVars, vars
<1>2. Nesting' = Nesting
  BY <1>1 DEF Nesting, Does, Lone, Crew
<1>3. SUFFICES ASSUME Nesting, FitCalm
               PROVE  FitCalm'
  BY <1>2 DEF FitInv
<1>4. CtxInv'
  BY CtxStep
<1>5. CASE UNCHANGED allVars
  <2>1. UNCHANGED <<setup, job, todo, tracker, depth, disturbed, instance, tracked, loop>>
    BY <1>5 DEF allVars, vars, ctxVars
  <2>2. ASSUME NEW u \in Users
        PROVE  /\ FitOf(u)' /\ Inside(u)' = Inside(u)
               /\ (Entering(u)' <=> Entering(u)) /\ (Leaving(u)' <=> Leaving(u))
    <3>1. FitOf(u)
      BY <1>3 DEF FitCalm
    <3>2. (Entering(u)' <=> Entering(u)) /\ (Ready(u)' <=> Ready(u)) /\ (Leaving(u)' <=> Leaving(u))
      BY <2>1 DEF Entering, Ready, Leaving, Says
    <3>3. PendingFit(u)'
      BY <2>1, <3>1 DEF FitOf, PendingFit, Says, Lone, Crew
    <3>4. PlaceFit(u)'
      BY <2>1, <3>1, <3>2 DEF FitOf, PlaceFit
    <3>5. InCtx(u)' => FitForm(job'[u].op, todo'[u])
      BY <2>1, <3>1 DEF FitOf, InCtx
    <3>6. Inside(u)' = Inside(u)
      BY <2>1, <3>2 DEF Inside
    <3> QED BY <3>2, <3>3, <3>4, <3>5, <3>6 DEF FitOf
  <2>3. Tracked' = Tracked
    BY <2>1 DEF Tracked
  <2>4. Bound => Bound'
    BY <2>1, <2>2, <2>3, BoundStays
  <2> QED BY <1>3, <2>1, <2>2, <2>4 DEF FitCalm
<1>6. ASSUME NEW u \in Users, AskSome(u) /\ UNCHANGED ctxVars
      PROVE  FitCalm'
  BY <1>3, <1>4, <1>6, FitAsk
<1>7. ASSUME NEW u \in Users, setup.kind \in Wrapped, NEW op \in setup.ops \cap CtxOps, CtxAsk(u, op)
      PROVE  FitCalm'
  BY <1>3, <1>7, FitCtxAsk
<1>8. ASSUME NEW u \in Users, StoreStepHere(u) \/ AdapterStep(u) \/ WrapperStep(u)
      PROVE  FitCalm'
  BY <1>3, <1>4, <1>8, FitStore, FitAdapter, FitWrapperStep
<1> QED
  BY <1>5, <1>6, <1>7, <1>8 DEF CtxNext

\* At the start nobody is in a block, and there are no layers.
LEMMA FitStart ==
  ASSUME Init
  PROVE  FitInv
<1>1. StoreInit /\ CtxInit
  BY DEF Init
<1>2. ASSUME NEW u \in Users
      PROVE  FitOf(u) /\ ~Entering(u) /\ ~Ready(u) /\ ~Leaving(u) /\ Inside(u) = 0
  <2>1. todo[u] = <<>> /\ depth[u] = 0
    BY <1>1, <1>2 DEF StoreInit, CtxInit
  <2>2. Len(<<>>) = 0 /\ \A i \in 1..0 : FALSE
    OBVIOUS
  <2>3. (\A x : ~Says(u, x)) /\ \A x : ~Is(todo[u], 1, x)
    BY <2>1, <2>2 DEF Says, Is
  <2>4. ~Entering(u) /\ ~Ready(u) /\ ~Leaving(u)
    BY <2>1, <2>3 DEF Entering, Ready, Leaving
  <2>5. FitForm(job[u].op, todo[u])
    BY <2>1, <2>2 DEF FitForm
  <2>6. Inside(u) = 0
    BY <2>1, <2>4 DEF Inside
  <2> QED BY <2>3, <2>4, <2>5, <2>6 DEF FitOf, PendingFit, PlaceFit
<1>3. Tracked = NoLayers
  <2>1. tracked # Nothing => tracked \in Adapters
    BY <1>1, ContextsAssumption DEF CtxInit, Adapters, ContextsAssumption
  <2> QED BY <1>1, <2>1 DEF CtxInit, Tracked
<1>4. NoLayers.virtual = 0 /\ NoLayers.layer = 0 /\ LayersOf(0) = 0
  BY ContextsAssumption DEF LayersOf, NoLayers, ContextsAssumption
<1>5. Counted
  <2>1. \A w \in Users : [v \in Users |-> Inside(v)][w] = 0
    BY <1>2
  <2>2. Insides = {} /\ IsFiniteSet({}) /\ Cardinality({}) = 0
    BY <2>1, PilesEmpty, InsidesAre
  <2> QED BY <1>3, <1>4, <2>2 DEF Counted
<1>6. Layered
  BY <1>2, <1>3, <1>4 DEF Layered, Crosses
<1>7. instance = tracked /\ disturbed \in Nat
  BY <1>1 DEF CtxInit
<1> QED
  BY <1>2, <1>5, <1>6, <1>7 DEF FitInv, FitCalm, Bound

\* With one caller or with tasks, once all are at rest, the blocks they are in are counted, and there are as many
\* layers as max_layers admits of them, or with the default of one, for tasks; and that for any number of either.
THEOREM LayersFit == Spec => []LayersFitBlocks
<1>1. Init => CtxInv /\ FitInv
  BY CtxStart, FitStart
<1>2. CtxInv /\ FitInv /\ [CtxNext]_allVars => (CtxInv /\ FitInv)'
  BY CtxStep, FitStep
<1>3. CtxInv /\ FitInv => LayersFitBlocks
  <2> SUFFICES ASSUME CtxInv, FitInv, AtRest, disturbed = 0, ~Does(Swaps), tracked # Nothing, Lone \/ setup.kind \in Async
               PROVE  LET l == tracker[tracked]
                          blocks == Cardinality(UNION {{u} \X (1..depth[u]) : u \in Users})
                      IN  l.virtual = blocks /\ (Lone \/ MaxLayers = 1 => l.layer = LayersOf(blocks))
    BY DEF LayersFitBlocks
  <2>1. FitCalm /\ Bound
    BY DEF FitInv, Nesting, FitCalm
  <2>2. ASSUME NEW u \in Users PROVE ~Entering(u) /\ ~Ready(u) /\ ~Leaving(u) /\ Inside(u) = depth[u]
    <3>1. todo[u] = <<>> /\ ~Is(<<>>, 1, "virt_exit")
      BY DEF AtRest, Is
    <3>2. ~Entering(u) /\ ~Ready(u) /\ ~Leaving(u)
      BY <3>1 DEF Entering, Ready, Leaving
    <3> QED BY <3>2, InsideIs
  <2>3. Insides = Piles(depth)
    <3>1. \A w \in Users : [v \in Users |-> Inside(v)][w] = depth[w]
      BY <2>2
    <3> QED BY <3>1, PilesSame, InsidesAre
  <2>4. tracker[tracked] = Tracked
    BY TrackedIs
  <2>5. Tracked.virtual = Cardinality(Piles(depth))
    BY <2>1, <2>3 DEF Bound, Counted
  <2>6. Lone \/ MaxLayers = 1 => Tracked.layer = LayersOf(Tracked.virtual)
    BY <2>1, <2>2 DEF Bound, Layered, Crosses
  <2> QED BY <2>4, <2>5, <2>6 DEF Piles
<1> QED
  BY <1>1, <1>2, <1>3, PTL DEF Spec

-----------------------------------------------------------------------------
(* What was closed is not left in the store *)
\* The setups that StoredIsOpen speaks of.
OneHome == \A u, w \in Crew : setup.home[u] = setup.home[w]
Orderly ==
  /\ Does({"close_all"}) => Lone
  /\ setup.kind \in Managers => ~setup.foreign
  /\ Does(CtxOps) => OneHome

\* What a call of close_all has left to do.
Sweeps == {<<"own", "shut", "sweep">>, <<"shut", "sweep">>, <<"walk", "sweep">>, <<"shut", "walk", "sweep">>, <<"sweep">>}
Clearing(u) ==
  /\ todo[u] \in Sweeps
  /\ todo[u] = <<"shut", "sweep">> => setup.kind \in Managers
  /\ todo[u] = <<"shut", "walk", "sweep">> => walk[u] # Nothing

\* What is left of a call: behind a close comes the deletion, and a manager stays with its own thread.
WordsStored(u) ==
  todo[u] # <<>> =>
    /\ todo[u][Len(todo[u])] \notin {"clear_attr", "clear_pool"}
    /\ IF job[u].op = "close_all" THEN Clearing(u)
       ELSE /\ Is(todo[u], 1, "shut") => Is(todo[u], 2, "delete")
            /\ Says(u, "own") => ~Says(u, "sweep")
            /\ ~Says(u, "walk")
    /\ Says(u, "own") => setup.kind \in Managers
    /\ setup.kind \in Managers => job[u].tid = setup.home[u]

\* A connection is stored once, in the thread whose calls hold it; one that is about to be stored is nowhere else.
Real == 1..made
Unique == \A t, s \in Threads : conns[t] = conns[s] /\ conns[t] \in Real => t = s
AttrStored ==
  Does(CtxOps) => \A a \in Adapters, t \in Threads :
    conns[t] \in Real /\ (conns[t] = attr[a] \/ conns[t] = pool[a]) => \E u \in Crew : t = setup.home[u]
HoldStored(u) ==
  /\ todo[u] # <<>> /\ job[u].op # "close_all" =>
       \A t \in Threads : conns[t] = rd[u] /\ rd[u] \in Real => t = job[u].tid
  /\ Is(todo[u], 1, "store") =>
       /\ rd[u] \in open
       /\ \A t \in Threads : conns[t] # rd[u]
       /\ \A a \in Adapters : attr[a] # rd[u] /\ pool[a] # rd[u]
       /\ \A w \in Users \ {u} : rd[w] # rd[u]

\* Who is about to delete the thread's entry, and who clears them all.
Tending == {"clear_attr", "clear_pool", "seek", "delete"}
Tends(u, t) ==
  /\ todo[u] # <<>> /\ job[u].tid = t /\ job[u].op # "close_all"
  /\ todo[u][1] \in Tending \/ (todo[u][1] = "shut" /\ rd[u] # Coroutine)
Sweeping(u) ==
  /\ todo[u] # <<>> /\ job[u].op = "close_all"
  /\ Is(todo[u], 1, "sweep") => \A t \in Threads : Passed(u, t) => conns[t] = Nothing
Closed(t) == conns[t] \in Real \ open
ClosedGo == \A t \in Threads : Closed(t) => \E u \in Users : Tends(u, t) \/ Sweeping(u)

StoredCalm == Unique /\ AttrStored /\ ClosedGo /\ \A u \in Users : WordsStored(u) /\ HoldStored(u)
StoredInv == Orderly => StoredCalm

-----------------------------------------------------------------------------
\* What a step does to the connections beside closing one.
Mild(u) ==
  /\ made' \in {made, made + 1}
  /\ \A t \in Threads : \/ conns'[t] \in {conns[t], Nothing, Coroutine}
                        \/ conns'[t] = rd[u] /\ Is(todo[u], 1, "store") /\ t = job[u].tid
  /\ \A a \in Adapters : \/ attr'[a] \in {attr[a], Nothing}
                         \/ attr'[a] = rd[u] /\ InCtx(u) /\ todo[u] # <<>>
  /\ \A a \in Adapters : \/ pool'[a] \in {pool[a], Nothing}
                         \/ pool'[a] = rd[u] /\ InCtx(u) /\ todo[u] # <<>>
  /\ \A c \in open : c \in open' \/ c = rd[u] \/ \E a \in Adapters : c = attr[a]
  /\ \/ rd'[u] = Nothing
     \/ /\ todo[u] # <<>> /\ job'[u].tid = job[u].tid /\ job'[u].op = job[u].op
        /\ \/ rd'[u] = rd[u]
           \/ /\ UNCHANGED <<conns, attr, pool>>
              /\ \/ rd'[u] = made + 1
                 \/ rd'[u] = conns[job[u].tid]
                 \/ InCtx(u) /\ \E a \in Adapters : rd'[u] \in {attr[a], pool[a]}
  /\ Is(todo'[u], 1, "store") =>
       /\ rd'[u] = made + 1 /\ made' = made + 1 /\ made + 1 \in open'
       /\ UNCHANGED <<conns, attr, pool>>
  /\ \A w \in Users \ {u} : todo'[w] = todo[w] /\ rd'[w] = rd[w] /\ job'[w] = job[w]

\* What a caller was about to delete it has deleted, or still is; so for what it has closed.
Onward(u) == \A t \in Threads : Closed(t)' => (Closed(t) /\ ~Tends(u, t)) \/ Tends(u, t)'

\* A call is on the thread of all who call an adapter.
LEMMA HomesAgree ==
  ASSUME CtxInv, Orderly, NEW u \in Users, todo[u] # <<>>, InCtx(u)
  PROVE  Does(CtxOps) /\ u \in Crew /\ job[u].tid = setup.home[u] /\ \A w \in Crew : setup.home[w] = job[u].tid
<1>1. u \in Crew /\ job[u].tid = setup.home[u]
  BY DEF CtxInv, Under
<1>2. job[u].op \in setup.ops \cup {"none"} /\ "none" \notin CtxOps
  BY DEF CtxInv, CallTypes, CtxOps
<1>3. Does(CtxOps)
  BY <1>2 DEF InCtx, Does
<1> QED
  BY <1>1, <1>3 DEF Orderly, OneHome

\* One who closes everything is alone.
LEMMA ClearsAlone ==
  ASSUME CtxInv, Orderly, NEW u \in Users, todo[u] # <<>>, job[u].op = "close_all"
  PROVE  Lone /\ u \in Crew /\ ~InCtx(u) /\ \A w \in Users \ {u} : todo[w] = <<>>
<1>1. u \in Crew /\ job[u].op \in setup.ops \cup {"none"}
  BY DEF CtxInv, CallTypes, Under
<1>2. Lone
  BY <1>1 DEF Orderly, Does
<1> QED
  BY <1>1, <1>2, OthersIdle DEF InCtx, CtxOps

\* Nothing holds a connection that is not yet made.
LEMMA Unborn ==
  ASSUME CtxInv
  PROVE  /\ made \in Nat /\ made + 1 \notin Real /\ Nothing \notin Real /\ Coroutine \notin Real /\ open \subseteq Real
         /\ Nothing \notin 1..made + 1 /\ Coroutine \notin 1..made + 1
         /\ Nothing # made + 1 /\ Coroutine # made + 1 /\ Real \subseteq 1..made + 1
         /\ \A c \in Held : c # made + 1 /\ (c \in 1..made + 1 => c \in Real)
         /\ \A t \in Threads : conns[t] \in Held
         /\ \A u \in Users : rd[u] \in Held
         /\ \A a \in Adapters : attr[a] \in Held /\ pool[a] \in Held
         /\ Nothing # Coroutine
<1>1. /\ made \in Nat /\ open \subseteq 1..made
      /\ conns \in [Threads -> Held] /\ rd \in [Users -> Held]
      /\ attr \in [Adapters -> Held] /\ pool \in [Adapters -> Held]
      /\ Held = 1..made \cup {Nothing, -1} /\ Coroutine = -1 /\ Nothing \notin Int
  BY StoreAssumption DEF StoreAssumption, CtxInv, ConnTypes, Held, Coroutine
<1>2. /\ made + 1 \notin 1..made /\ Nothing \notin 1..made /\ -1 \notin 1..made /\ Nothing # made + 1 /\ -1 # made + 1
      /\ 1..made \subseteq 1..made + 1 /\ -1 \notin 1..made + 1 /\ Nothing \notin 1..made + 1 /\ Nothing # -1
      /\ \A c \in 1..made : c # made + 1
  BY <1>1
<1> QED
  BY <1>1, <1>2 DEF Real

\* The connections stay apart.
LEMMA MildApart ==
  ASSUME CtxInv, Orderly, StoredCalm, NEW u \in Users, job[u].op # "close_all" \/ todo[u] = <<>>, Mild(u), setup' = setup
  PROVE  Unique' /\ AttrStored' /\ \A w \in Users : HoldStored(w)'
<1> USE DEF Mild
<1>1. \A t \in Threads : conns'[t] \in Real' =>
        /\ conns'[t] \in Real
        /\ conns'[t] = conns[t] \/ (conns'[t] = rd[u] /\ Is(todo[u], 1, "store") /\ t = job[u].tid)
  <2>1. Real' = Real \/ Real' = 1..made + 1
    BY DEF Real
  <2>2. /\ \A c \in Held : c \in Real' => c \in Real
        /\ Nothing \notin Real' /\ Coroutine \notin Real'
    BY <2>1, Unborn
  <2> TAKE t \in Threads
  <2> HAVE conns'[t] \in Real'
  <2>3. conns'[t] = conns[t] \/ (conns'[t] = rd[u] /\ Is(todo[u], 1, "store") /\ t = job[u].tid)
    BY <2>2
  <2>4. conns[t] \in Held /\ rd[u] \in Held
    BY Unborn
  <2> QED BY <2>2, <2>3, <2>4
<1>2. Unique'
  BY <1>1 DEF StoredCalm, Unique, HoldStored
<1>3. ASSUME NEW t \in Threads, conns'[t] \in Real', conns'[t] = rd[u], job[u].op # "close_all", todo[u] # <<>>
      PROVE  t = job[u].tid
  BY <1>1, <1>3 DEF StoredCalm, HoldStored
<1>4. AttrStored'
  <2> SUFFICES ASSUME Does(CtxOps), NEW a \in Adapters, NEW t \in Threads, conns'[t] \in Real',
                      conns'[t] = attr'[a] \/ conns'[t] = pool'[a]
               PROVE  \E w \in Crew : t = setup.home[w]
    BY DEF AttrStored, Does, Crew
  <2>1. CASE conns'[t] = rd[u] /\ InCtx(u) /\ todo[u] # <<>>
    <3>1. job[u].op # "close_all"
      BY <2>1
    <3>2. t = job[u].tid
      BY <1>3, <2>1, <3>1
    <3> QED BY <2>1, <3>2, HomesAgree
  <2>2. CASE ~(conns'[t] = rd[u] /\ InCtx(u) /\ todo[u] # <<>>)
    <3>1. conns'[t] \in Real /\ conns'[t] # Nothing
      BY <1>1, Unborn
    <3>2. conns'[t] = attr[a] \/ conns'[t] = pool[a]
      BY <2>2, <3>1
    <3>3. conns'[t] = conns[t]
      BY <1>1, <3>2 DEF StoredCalm, HoldStored
    <3> QED BY <3>1, <3>2, <3>3 DEF StoredCalm, AttrStored
  <2> QED BY <2>1, <2>2
<1>5. ASSUME NEW w \in Users, NEW t \in Threads, w # u, todo'[w] # <<>>, job'[w].op # "close_all", conns'[t] = rd'[w],
             rd'[w] \in Real'
      PROVE  t = job'[w].tid
  <2>1. todo[w] # <<>> /\ job[w].op # "close_all" /\ conns'[t] = rd[w] /\ job'[w] = job[w]
    BY <1>5
  <2>2. conns'[t] = conns[t]
    BY <1>1, <1>5, <2>1 DEF StoredCalm, HoldStored
  <2>3. rd[w] \in Real
    BY <1>1, <1>5, <2>1, <2>2
  <2>4. HoldStored(w)
    BY DEF StoredCalm
  <2> QED BY <2>1, <2>2, <2>3, <2>4 DEF HoldStored
<1>6. ASSUME NEW t \in Threads, todo'[u] # <<>>, job'[u].op # "close_all", conns'[t] = rd'[u], rd'[u] \in Real'
      PROVE  t = job'[u].tid
  <2>1. conns'[t] \in Real /\ rd'[u] # Nothing /\ rd'[u] # made + 1
    BY <1>1, <1>6, Unborn
  <2>2. todo[u] # <<>> /\ job'[u].tid = job[u].tid /\ job[u].op # "close_all"
    BY <1>6, <2>1
  <2>3. CASE rd'[u] = rd[u]
    BY <1>3, <1>6, <2>2, <2>3
  <2>4. CASE conns' = conns /\ rd'[u] = conns[job[u].tid]
    <3>1. job[u].tid \in Threads
      BY <2>2 DEF CtxInv, Under
    <3> QED BY <1>6, <2>1, <2>2, <2>4, <3>1 DEF StoredCalm, Unique
  <2>5. CASE conns' = conns /\ InCtx(u) /\ \E a \in Adapters : rd'[u] \in {attr[a], pool[a]}
    <3>1. Does(CtxOps) /\ \A w \in Crew : setup.home[w] = job[u].tid
      BY <2>2, <2>5, HomesAgree
    <3> QED BY <1>6, <2>1, <2>2, <2>5, <3>1 DEF StoredCalm, AttrStored
  <2> QED BY <2>1, <2>2, <2>3, <2>4, <2>5
<1>7. ASSUME NEW w \in Users, w # u, Is(todo'[w], 1, "store")
      PROVE  /\ rd'[w] \in open'
             /\ \A t \in Threads : conns'[t] # rd'[w]
             /\ \A a \in Adapters : attr'[a] # rd'[w] /\ pool'[a] # rd'[w]
             /\ \A v \in Users \ {w} : rd'[v] # rd'[w]
  <2>1. todo'[w] = todo[w] /\ rd'[w] = rd[w] /\ Is(todo[w], 1, "store")
    BY <1>7
  <2>2. /\ rd[w] \in open /\ \A t \in Threads : conns[t] # rd[w]
        /\ \A a \in Adapters : attr[a] # rd[w] /\ pool[a] # rd[w]
        /\ \A v \in Users \ {w} : rd[v] # rd[w]
    BY <2>1 DEF StoredCalm, HoldStored
  <2>3. rd[u] # rd[w] /\ rd[w] # Nothing /\ rd[w] # Coroutine /\ rd[w] # made + 1
    BY <1>7, <2>2, Unborn
  <2>4. rd'[u] # rd[w]
    <3>1. todo[u] # <<>> => job[u].tid \in Threads
      BY DEF CtxInv, Under
    <3> QED BY <2>2, <2>3, <3>1
  <2>5. \A t \in Threads : conns'[t] # rd[w]
    BY <2>2, <2>3
  <2>6. \A a \in Adapters : attr'[a] # rd[w] /\ pool'[a] # rd[w]
    BY <2>2, <2>3
  <2>7. rd[w] \in open'
    BY <2>2, <2>3
  <2>8. \A v \in Users \ {w} : rd'[v] # rd[w]
    <3> TAKE v \in Users \ {w}
    <3>1. CASE v = u
      BY <2>4, <3>1
    <3>2. CASE v # u
      BY <2>2, <3>2
    <3> QED BY <3>1, <3>2
  <2> QED BY <2>1, <2>5, <2>6, <2>7, <2>8
<1>8. ASSUME Is(todo'[u], 1, "store")
      PROVE  /\ rd'[u] \in open'
             /\ \A t \in Threads : conns'[t] # rd'[u]
             /\ \A a \in Adapters : attr'[a] # rd'[u] /\ pool'[a] # rd'[u]
             /\ \A v \in Users \ {u} : rd'[v] # rd'[u]
  <2>1. rd'[u] = made + 1 /\ made + 1 \in open' /\ UNCHANGED <<conns, attr, pool>>
    BY <1>8
  <2> QED BY <2>1, Unborn
<1>9. \A w \in Users : HoldStored(w)'
  BY <1>5, <1>6, <1>7, <1>8 DEF HoldStored
<1> QED
  BY <1>2, <1>4, <1>9

-----------------------------------------------------------------------------
\* The head of a program, and the functions that a step changes.
LEMMA Front ==
  ASSUME CtxInv, NEW u \in Users, NEW h, At(u, h), h # "none"
  PROVE  /\ \A w : Is(todo[u], 1, w) <=> w = h
         /\ 0 \in Nat /\ 0 + 1 <= Len(todo[u]) /\ todo[u][1] = h /\ todo[u] # <<>> /\ todo[u] \in Seq(Words)
         /\ Fits(setup.kind, InCtx(u), todo[u], 1) /\ job[u].tid \in Threads /\ u \in Crew /\ setup.home[u] \in Threads
         /\ Says(u, h) /\ h \in Words
<1>1. /\ Len(todo[u]) \in Nat \ {0} /\ todo[u][1] = h /\ todo[u] # <<>> /\ todo[u] \in Seq(Words)
      /\ Fits(setup.kind, InCtx(u), todo[u], 1) /\ job[u].tid \in Threads /\ u \in Crew
  BY Heads
<1>2. 1 <= Len(todo[u]) /\ 0 + 1 <= Len(todo[u]) /\ 1 \in 1..Len(todo[u])
  BY <1>1
<1>3. \A w : Is(todo[u], 1, w) <=> w = h
  BY <1>1, <1>2 DEF Is
<1>4. Says(u, h)
  BY <1>1, <1>2 DEF Says
<1>5. h \in Words
  BY <1>1, <1>2
<1>6. setup.home[u] \in Threads
  BY <1>1, HomeIs DEF CtxInv, CallTypes
<1> QED
  BY <1>1, <1>2, <1>3, <1>4, <1>5, <1>6

\* Only a search for the connection leads to its close, and only a new connection is stored.
LEMMA Leads ==
  ASSUME NEW ctx, NEW a \in Words
  PROVE  /\ Follows(ctx, a, "shut") => a \in {"seek", "own"}
         /\ Follows(ctx, a, "store") => a = "connect"
<1>1. a \in StoreSteps \/ a \in CtxSteps
  BY DEF Words
<1>2. Follows(ctx, a, "shut") => a \in {"seek", "own"}
  BY <1>1 DEF Follows, Ends, Haves, StoreSteps, CtxSteps
<1>3. Follows(ctx, a, "store") => a = "connect"
  BY <1>1 DEF Follows, Ends, Haves, StoreSteps, CtxSteps
<1> QED
  BY <1>2, <1>3

\* A call goes on: behind a close still comes the deletion.
LEMMA StoredRuns ==
  ASSUME CtxInv, NEW u \in Users, WordsStored(u), todo[u] # <<>>, job[u].op # "close_all", NEW n \in 1..Len(todo[u]), Runs(u, n),
         setup' = setup, job'[u].op = job[u].op, job'[u].tid = job[u].tid
  PROVE  /\ WordsStored(u)'
         /\ Is(todo'[u], 1, "store") => todo[u][n] = "connect"
         /\ \A v \in Users \ {u} : todo'[v] = todo[v]
         /\ n < Len(todo[u]) => Is(todo'[u], 1, todo[u][n + 1])
<1>1. /\ todo \in [Users -> Seq(Words)] /\ todo[u] \in Seq(Words) /\ todo'[u] = Drop(todo[u], n)
      /\ Shape(setup.kind, InCtx(u), todo[u])
  BY DEF CtxInv, CallTypes, Runs, Under
<1>2. n \in Nat /\ n <= Len(todo[u]) /\ Len(todo[u]) \in Nat /\ n >= 1
  BY <1>1
<1>3. Len(todo'[u]) = Len(todo[u]) - n /\ \A i \in 1..Len(todo[u]) - n : todo'[u][i] = todo[u][n + i]
  BY <1>1, <1>2 DEF Drop
<1>4. Fits(setup.kind, InCtx(u), todo[u], n) /\ todo[u][n] \in Words
  BY <1>1, <1>2 DEF Shape
<1>5. /\ \A w : Is(todo'[u], 1, w) => Follows(InCtx(u), todo[u][n], w)
      /\ \A v \in Users \ {u} : todo'[v] = todo[v]
      /\ n < Len(todo[u]) => Is(todo'[u], 1, todo[u][n + 1])
  BY Comes
<1>6. \A w : Says(u, w)' => Says(u, w)
  BY Fewer
<1>7. Is(todo'[u], 1, "shut") => Is(todo'[u], 2, "delete")
  <2> HAVE Is(todo'[u], 1, "shut")
  <2>1. todo[u][n] \in {"seek", "own"}
    BY <1>4, <1>5, Leads
  <2>2. Looks(todo[u], n, 2, "delete") \/ (todo[u][n] = "own" /\ Looks(todo[u], n, 2, "sweep"))
    BY <1>4, <2>1 DEF Fits, Pair
  <2>3. ~(todo[u][n] = "own" /\ Looks(todo[u], n, 2, "sweep"))
    <3> SUFFICES ASSUME todo[u][n] = "own", Looks(todo[u], n, 2, "sweep")
                 PROVE  FALSE
      OBVIOUS
    <3>1. n + 2 \in 1..Len(todo[u]) /\ todo[u][n + 2] = "sweep"
      BY <1>2 DEF Looks
    <3>2. Says(u, "own") /\ Says(u, "sweep")
      BY <3>1 DEF Says
    <3> QED BY <3>2 DEF WordsStored
  <2>4. n + 2 <= Len(todo[u]) /\ todo[u][n + 2] = "delete"
    BY <2>2, <2>3 DEF Looks
  <2>5. 2 \in 1..Len(todo[u]) - n /\ 2 <= Len(todo[u]) - n
    BY <1>2, <2>4
  <2> QED BY <1>3, <2>4, <2>5 DEF Is
<1>8. todo'[u] # <<>> => todo'[u][Len(todo'[u])] = todo[u][Len(todo[u])]
  <2> HAVE todo'[u] # <<>>
  <2>1. n # Len(todo[u])
    BY <1>1 DEF Drop
  <2>2. Len(todo[u]) - n \in 1..Len(todo[u]) - n /\ n + (Len(todo[u]) - n) = Len(todo[u])
    BY <1>2, <2>1
  <2> QED BY <1>3, <2>2
<1>9. WordsStored(u)'
  <2> SUFFICES ASSUME todo'[u] # <<>>
               PROVE  WordsStored(u)'
    BY DEF WordsStored
  <2> QED BY <1>6, <1>7, <1>8 DEF WordsStored
<1>10. Is(todo'[u], 1, "store") => todo[u][n] = "connect"
  BY <1>4, <1>5, Leads
<1> QED
  BY <1>5, <1>9, <1>10

\* The same of a call that skips n steps.
LEMMA StoredOn ==
  ASSUME CtxInv, NEW u \in Users, WordsStored(u), todo[u] # <<>>, job[u].op # "close_all", NEW n \in Nat, n + 1 <= Len(todo[u]),
         Skip(u, n), setup' = setup, job'[u].op = job[u].op, job'[u].tid = job[u].tid
  PROVE  /\ WordsStored(u)'
         /\ Is(todo'[u], 1, "store") => todo[u][n + 1] = "connect"
         /\ \A v \in Users \ {u} : todo'[v] = todo[v]
         /\ n + 1 < Len(todo[u]) => Is(todo'[u], 1, todo[u][(n + 1) + 1])
<1>1. Runs(u, n + 1)
  BY DEF Skip, Continue, Proceed, Runs
<1>2. n + 1 \in 1..Len(todo[u])
  <2>1. Len(todo[u]) \in Nat
    BY DEF CtxInv, CallTypes
  <2> QED BY <2>1
<1> QED
  BY <1>1, <1>2, StoredRuns

\* A call that ends has nothing left.
LEMMA StoredEnds ==
  ASSUME CtxInv, NEW u \in Users, Raise(u)
  PROVE  WordsStored(u)' /\ todo'[u] = <<>> /\ ~Is(todo'[u], 1, "store") /\ \A v \in Users \ {u} : todo'[v] = todo[v]
<1>1. todo'[u] = <<>> /\ \A v \in Users \ {u} : todo'[v] = todo[v]
  BY HeldApart DEF Raise
<1> QED
  BY <1>1 DEF WordsStored, Is

\* Who was about to delete nothing, and closes nothing, leaves what is closed to the others.
LEMMA OnwardQuietly ==
  ASSUME CtxInv, NEW u \in Users, \A t \in Threads : ~Tends(u, t), open \subseteq open', made' \in {made, made + 1},
         \A t \in Threads : conns'[t] \in {conns[t], Nothing, Coroutine} \/ conns'[t] \in open'
  PROVE  Onward(u)
<1>1. ASSUME NEW t \in Threads, Closed(t)'
      PROVE  Closed(t)
  <2>1. conns'[t] \in Real' /\ conns'[t] \notin open'
    BY <1>1 DEF Closed
  <2>2. \A c \in Held : c \in Real' => c \in Real
    BY Unborn DEF Real
  <2>3. Nothing \notin Real' /\ Coroutine \notin Real'
    BY Unborn DEF Real
  <2>4. conns'[t] = conns[t] /\ conns[t] \in Held
    BY <2>1, <2>3, Unborn
  <2> QED BY <2>1, <2>2, <2>4 DEF Closed
<1> QED
  BY <1>1 DEF Onward

\* Such a step leaves nothing behind.
LEMMA MildKeeps ==
  ASSUME CtxInv, Orderly, StoredCalm, NEW u \in Users, u \in Crew, job[u].op # "close_all" \/ todo[u] = <<>>,
         Mild(u), Onward(u), WordsStored(u)', setup' = setup
  PROVE  StoredCalm'
<1>1. Unique' /\ AttrStored' /\ \A w \in Users : HoldStored(w)'
  BY MildApart
<1>2. \A w \in Users \ {u} : todo'[w] = todo[w] /\ rd'[w] = rd[w] /\ job'[w] = job[w]
  BY DEF Mild
<1>3. ASSUME NEW w \in Users, todo[w] # <<>>, job[w].op = "close_all"
      PROVE  FALSE
  <2>1. w # u
    BY <1>3
  <2>2. Lone /\ w \in Crew
    BY <1>3, ClearsAlone
  <2> QED BY <2>1, <2>2 DEF Lone
<1>4. ASSUME NEW w \in Users
      PROVE  WordsStored(w)'
  <2>1. CASE w = u
    BY <2>1
  <2>2. CASE w # u
    <3>1. todo'[w] = todo[w] /\ job'[w] = job[w] /\ WordsStored(w)
      BY <1>2, <2>2 DEF StoredCalm
    <3>2. todo[w] # <<>> => job[w].op # "close_all"
      BY <1>3
    <3> QED BY <3>1, <3>2 DEF WordsStored, Says
  <2> QED BY <2>1, <2>2
<1>5. ASSUME NEW t \in Threads, Closed(t)'
      PROVE  \E w \in Users : Tends(w, t)'
  <2>1. CASE Tends(u, t)'
    BY <2>1
  <2>2. CASE ~Tends(u, t)'
    <3>1. Closed(t) /\ ~Tends(u, t)
      BY <1>5, <2>2 DEF Onward
    <3>2. PICK w \in Users : Tends(w, t) \/ Sweeping(w)
      BY <3>1 DEF StoredCalm, ClosedGo
    <3>3. Tends(w, t) /\ w # u
      BY <1>3, <3>1, <3>2 DEF Sweeping
    <3>4. todo'[w] = todo[w] /\ rd'[w] = rd[w] /\ job'[w] = job[w]
      BY <1>2, <3>3
    <3>5. Tends(w, t)'
      BY <3>3, <3>4 DEF Tends
    <3> QED BY <3>5
  <2> QED BY <2>1, <2>2
<1>6. ClosedGo'
  BY <1>5 DEF ClosedGo
<1> QED
  BY <1>1, <1>4, <1>6 DEF StoredCalm

-----------------------------------------------------------------------------
\* A step that only takes a connection in hand, or none, does nothing to the others.
LEMMA MildLook ==
  ASSUME NEW u \in Users, todo[u] # <<>>, UNCHANGED <<conns, made, open, attr, pool>>,
         job'[u].op = job[u].op, job'[u].tid = job[u].tid,
         \/ rd'[u] = rd[u]
         \/ rd'[u] = conns[job[u].tid]
         \/ InCtx(u) /\ \E a \in Adapters : rd'[u] \in {attr[a], pool[a]},
         ~Is(todo'[u], 1, "store"),
         \A w \in Users \ {u} : todo'[w] = todo[w] /\ rd'[w] = rd[w] /\ job'[w] = job[w]
  PROVE  Mild(u)
<1>1. \A t \in Threads : conns'[t] \in {conns[t], Nothing, Coroutine}
  OBVIOUS
<1>2. \A a \in Adapters : attr'[a] \in {attr[a], Nothing} /\ pool'[a] \in {pool[a], Nothing}
  OBVIOUS
<1>3. /\ todo[u] # <<>> /\ job'[u].tid = job[u].tid /\ job'[u].op = job[u].op
      /\ \/ rd'[u] = rd[u]
         \/ /\ UNCHANGED <<conns, attr, pool>>
            /\ \/ rd'[u] = made + 1
               \/ rd'[u] = conns[job[u].tid]
               \/ InCtx(u) /\ \E a \in Adapters : rd'[u] \in {attr[a], pool[a]}
  OBVIOUS
<1>4. made' \in {made, made + 1} /\ \A c \in open : c \in open'
  OBVIOUS
<1> QED
  BY <1>1, <1>2, <1>3, <1>4 DEF Mild

\* The steps of the store, of a call that does not close everything: the thread's connection is looked for.
LEMMA StoredLooks ==
  ASSUME CtxInv, Orderly, StoredCalm, NEW u \in Users, Lookup(u) \/ Seek(u) \/ Own(u), job[u].op # "close_all",
         UNCHANGED <<setup, job, attr, pool>>
  PROVE  Mild(u) /\ Onward(u) /\ WordsStored(u)'
<1>1. PICK h \in {"lookup", "seek", "own"} :
        /\ At(u, h) /\ UNCHANGED <<conns, made, open, walk>>
        /\ rd' = [rd EXCEPT ![u] = conns[IF h = "own" THEN setup.home[u] ELSE job[u].tid]]
        /\ h = "lookup" => Skip(u, 0) \/ Skip(u, 2)
        /\ h = "seek" => IF conns[job[u].tid] = Nothing THEN Skip(u, 2) ELSE Skip(u, 0)
        /\ h = "own" => Skip(u, 0) \/ Skip(u, 1)
  BY DEF Lookup, Seek, Own, Holds, Go
<1>2. h # "none"
  OBVIOUS
<1>3. /\ 0 \in Nat /\ 0 + 1 <= Len(todo[u]) /\ todo[u][1] = h /\ todo[u] # <<>> /\ Says(u, h)
      /\ Fits(setup.kind, InCtx(u), todo[u], 1) /\ job[u].tid \in Threads /\ WordsStored(u)
      /\ \A w : Is(todo[u], 1, w) <=> w = h
  BY <1>1, <1>2, Front DEF StoredCalm
<1>4. /\ h \in {"lookup", "seek"} => 1 + 2 <= Len(todo[u]) /\ 2 \in Nat /\ 2 + 1 <= Len(todo[u])
      /\ h = "own" => 1 + 2 <= Len(todo[u]) /\ 1 \in Nat /\ 1 + 1 <= Len(todo[u])
      /\ h = "lookup" => todo[u][2 + 1] = "store"
      /\ h = "seek" => todo[u][1 + 1] = "shut" /\ todo[u][2 + 1] = "delete" /\ 0 + 1 < Len(todo[u])
      /\ h = "own" => todo[u][1 + 1] = "shut"
  <2>1. Len(todo[u]) \in Nat
    BY DEF CtxInv, CallTypes
  <2> QED BY <1>3, <2>1 DEF Fits, Pair, Looks
<1>5. rd'[u] = conns[job[u].tid] /\ \A w \in Users \ {u} : rd'[w] = rd[w]
  <2>1. h = "own" => job[u].tid = setup.home[u]
    BY <1>3 DEF WordsStored
  <2> QED BY <1>1, <2>1, HeldApart
<1>6. PICK n \in {0, 1, 2} : Skip(u, n) /\ n \in Nat /\ n + 1 <= Len(todo[u]) /\ todo[u][n + 1] # "connect"
                             /\ (h = "seek" /\ conns[job[u].tid] # Nothing => n = 0)
  <2>1. CASE Skip(u, 0) /\ (h = "seek" => conns[job[u].tid] # Nothing)
    BY <1>3, <2>1
  <2>2. CASE h = "own" /\ Skip(u, 1)
    BY <1>4, <2>2
  <2>3. CASE h \in {"lookup", "seek"} /\ Skip(u, 2) /\ (h = "seek" => conns[job[u].tid] = Nothing)
    BY <1>4, <2>3
  <2> QED BY <1>1, <2>1, <2>2, <2>3
<1>7. /\ WordsStored(u)' /\ ~Is(todo'[u], 1, "store") /\ (\A v \in Users \ {u} : todo'[v] = todo[v])
      /\ n + 1 < Len(todo[u]) => Is(todo'[u], 1, todo[u][(n + 1) + 1])
  BY <1>3, <1>6, StoredOn
<1>8. Mild(u)
  BY <1>1, <1>3, <1>5, <1>7, MildLook
<1>9. CASE h # "seek"
  <2>1. \A t \in Threads : ~Tends(u, t)
    BY <1>1, <1>3, <1>9 DEF Tends, Tending
  <2>2. Onward(u)
    BY <1>1, <2>1, OnwardQuietly
  <2> QED BY <1>7, <1>8, <2>2
<1>10. CASE h = "seek"
  <2>1. ASSUME NEW t \in Threads, Closed(t)', Tends(u, t)
        PROVE  Tends(u, t)'
    <3>1. conns[t] \in Real /\ t = job[u].tid
      BY <1>1, <2>1 DEF Closed, Real, Tends
    <3>2. conns[t] # Nothing /\ conns[t] # Coroutine
      BY <3>1, Unborn
    <3>3. n = 0 /\ Is(todo'[u], 1, "shut")
      BY <1>4, <1>6, <1>7, <1>10, <3>1, <3>2
    <3>4. todo'[u] # <<>> /\ todo'[u][1] = "shut"
      <4>1. Len(todo'[u]) >= 1 /\ todo'[u][1] = "shut"
        BY <3>3 DEF Is
      <4>2. Len(<<>>) = 0
        OBVIOUS
      <4> QED BY <4>1, <4>2
    <3> QED BY <1>5, <3>1, <3>2, <3>4 DEF Tends
  <2>2. \A t \in Threads : Closed(t)' => Closed(t)
    BY <1>1 DEF Closed, Real
  <2>3. Onward(u)
    BY <2>1, <2>2 DEF Onward
  <2> QED BY <1>7, <1>8, <2>3
<1> QED
  BY <1>9, <1>10

\* A new connection is in no place yet.
LEMMA StoredConnects ==
  ASSUME CtxInv, StoredCalm, NEW u \in Users, Connect(u), job[u].op # "close_all", UNCHANGED <<setup, job, attr, pool>>
  PROVE  Mild(u) /\ Onward(u) /\ WordsStored(u)'
<1>1. /\ At(u, "connect") /\ conns' = conns /\ made' = made + 1 /\ open' = open \cup {made + 1}
      /\ rd' = [rd EXCEPT ![u] = made + 1] /\ Skip(u, 0)
  BY DEF Connect, Holds, Go
<1>2. /\ 0 \in Nat /\ 0 + 1 <= Len(todo[u]) /\ todo[u][1] = "connect" /\ todo[u] # <<>> /\ WordsStored(u)
  <2>1. "connect" # "none"
    OBVIOUS
  <2> QED BY <1>1, <2>1, Front DEF StoredCalm
<1>3. WordsStored(u)' /\ \A v \in Users \ {u} : todo'[v] = todo[v]
  BY <1>1, <1>2, StoredOn
<1>4. rd'[u] = made + 1 /\ \A v \in Users \ {u} : rd'[v] = rd[v]
  BY <1>1, HeldApart
<1>5. Mild(u)
  BY <1>1, <1>2, <1>3, <1>4 DEF Mild
<1>6. \A t \in Threads : ~Tends(u, t)
  BY <1>2 DEF Tends, Tending
<1>7. Onward(u)
  BY <1>1, <1>6, OnwardQuietly
<1> QED
  BY <1>3, <1>5, <1>7

\* A call fails, and had closed nothing.
LEMMA StoredRaises ==
  ASSUME CtxInv, NEW u \in Users, Raise(u), UNCHANGED <<setup, job, attr, pool, conns, made, open, rd>>,
         todo[u] # <<>>, \A t \in Threads : ~Tends(u, t)
  PROVE  Mild(u) /\ Onward(u) /\ WordsStored(u)'
<1>1. WordsStored(u)' /\ ~Is(todo'[u], 1, "store") /\ \A v \in Users \ {u} : todo'[v] = todo[v]
  BY StoredEnds
<1>2. Mild(u)
  BY <1>1, MildLook
<1>3. Onward(u)
  BY OnwardQuietly
<1> QED
  BY <1>1, <1>2, <1>3

\* An entry is replaced.
LEMMA EntryMild ==
  ASSUME CtxInv, NEW u \in Users, todo[u] # <<>>, NEW t \in Threads, NEW c, conns' = [conns EXCEPT ![t] = c],
         c \in {Nothing, Coroutine} \/ (c = rd[u] /\ Is(todo[u], 1, "store") /\ t = job[u].tid),
         UNCHANGED <<made, open, attr, pool, rd, job>>,
         ~Is(todo'[u], 1, "store"), \A v \in Users \ {u} : todo'[v] = todo[v]
  PROVE  Mild(u) /\ conns'[t] = c /\ \A s \in Threads \ {t} : conns'[s] = conns[s]
<1>1. conns'[t] = c /\ \A s \in Threads \ {t} : conns'[s] = conns[s]
  BY HeldApart
<1>2. \A s \in Threads : \/ conns'[s] \in {conns[s], Nothing, Coroutine}
                         \/ conns'[s] = rd[u] /\ Is(todo[u], 1, "store") /\ s = job[u].tid
  BY <1>1
<1>3. Mild(u)
  <2>1. made' \in {made, made + 1}
    OBVIOUS
  <2>2. \A a \in Adapters : attr'[a] \in {attr[a], Nothing}
    OBVIOUS
  <2>3. \A a \in Adapters : pool'[a] \in {pool[a], Nothing}
    OBVIOUS
  <2>4. \A a \in open : a \in open'
    OBVIOUS
  <2>5. rd'[u] = rd[u] /\ job'[u].tid = job[u].tid /\ job'[u].op = job[u].op
    OBVIOUS
  <2>6. \A w \in Users \ {u} : todo'[w] = todo[w] /\ rd'[w] = rd[w] /\ job'[w] = job[w]
    OBVIOUS
  <2> QED BY <1>2, <2>1, <2>2, <2>3, <2>4, <2>5, <2>6 DEF Mild
<1> QED
  BY <1>1, <1>3

\* A connection is stored, or the coroutine; a thread's store is dropped.
LEMMA StoredEntries ==
  ASSUME CtxInv, StoredCalm, NEW u \in Users, Store(u) \/ Promise(u) \/ DropThread(u), job[u].op # "close_all",
         UNCHANGED <<setup, job, attr, pool>>
  PROVE  Mild(u) /\ Onward(u) /\ WordsStored(u)'
<1>1. PICK h, c :
        /\ h \in {"store", "promise", "drop"} /\ At(u, h) /\ Skip(u, 0) /\ UNCHANGED <<made, open, rd>>
        /\ conns' = [conns EXCEPT ![job[u].tid] = c]
        /\ IF h = "store" THEN c = rd[u] ELSE c \in {Nothing, Coroutine}
  BY DEF Store, Promise, DropThread, Go
<1>2. h # "none" /\ At(u, h)
  BY <1>1
<1>3. /\ 0 \in Nat /\ 0 + 1 <= Len(todo[u]) /\ todo[u][0 + 1] = h /\ todo[u][1] = h /\ todo[u] # <<>> /\ WordsStored(u)
      /\ job[u].tid \in Threads /\ HoldStored(u) /\ Is(todo[u], 1, h)
  <2>1. /\ 0 \in Nat /\ 0 + 1 <= Len(todo[u]) /\ todo[u][1] = h /\ todo[u] # <<>>
        /\ job[u].tid \in Threads /\ Is(todo[u], 1, h)
    BY <1>2, Front
  <2>2. WordsStored(u) /\ HoldStored(u)
    BY DEF StoredCalm
  <2> QED BY <2>1, <2>2
<1>4. WordsStored(u)' /\ ~Is(todo'[u], 1, "store") /\ \A v \in Users \ {u} : todo'[v] = todo[v]
  BY <1>1, <1>3, StoredOn
<1>5. c \in {Nothing, Coroutine} \/ (c = rd[u] /\ Is(todo[u], 1, "store"))
  BY <1>1, <1>3
<1>6. Mild(u) /\ conns'[job[u].tid] = c /\ \A s \in Threads \ {job[u].tid} : conns'[s] = conns[s]
  BY <1>1, <1>3, <1>4, <1>5, EntryMild
<1>7. c \in {Nothing, Coroutine} \/ c \in open
  BY <1>5, <1>3 DEF HoldStored
<1>8. \A t \in Threads : conns'[t] \in {conns[t], Nothing, Coroutine} \/ conns'[t] \in open'
  BY <1>1, <1>6, <1>7
<1>9. \A t \in Threads : ~Tends(u, t)
  BY <1>1, <1>3 DEF Tends, Tending
<1>10. Onward(u)
  BY <1>1, <1>8, <1>9, OnwardQuietly
<1> QED
  BY <1>4, <1>6, <1>10

\* The entry of the thread is deleted.
LEMMA StoredDeletes ==
  ASSUME CtxInv, StoredCalm, NEW u \in Users, Delete(u), job[u].op # "close_all", UNCHANGED <<setup, job, attr, pool>>
  PROVE  Mild(u) /\ Onward(u) /\ WordsStored(u)'
<1>1. /\ At(u, "delete") /\ UNCHANGED <<made, open, rd>> /\ Skip(u, 0)
      /\ conns' = [conns EXCEPT ![job[u].tid] = Nothing]
  BY DEF Delete, Go
<1>2. /\ 0 \in Nat /\ 0 + 1 <= Len(todo[u]) /\ todo[u][0 + 1] = "delete" /\ todo[u] # <<>> /\ WordsStored(u)
      /\ job[u].tid \in Threads
  <2>1. "delete" # "none"
    OBVIOUS
  <2> QED BY <1>1, <2>1, Front DEF StoredCalm
<1>3. WordsStored(u)' /\ ~Is(todo'[u], 1, "store") /\ \A v \in Users \ {u} : todo'[v] = todo[v]
  BY <1>1, <1>2, StoredOn
<1>4. Mild(u) /\ conns'[job[u].tid] = Nothing /\ \A s \in Threads \ {job[u].tid} : conns'[s] = conns[s]
  BY <1>1, <1>2, <1>3, EntryMild
<1>5. ASSUME NEW t \in Threads, Closed(t)'
      PROVE  Closed(t) /\ ~Tends(u, t)
  <2>1. Real' = Real
    BY <1>1 DEF Real
  <2>2. t # job[u].tid
    BY <1>4, <1>5, <2>1, Unborn DEF Closed
  <2>3. Closed(t)
    BY <1>1, <1>4, <1>5, <2>1, <2>2 DEF Closed
  <2> QED BY <2>2, <2>3 DEF Tends
<1>6. Onward(u)
  BY <1>5 DEF Onward
<1> QED
  BY <1>3, <1>4, <1>6

\* The connection is closed; a coroutine is none.
LEMMA StoredShuts ==
  ASSUME CtxInv, StoredCalm, NEW u \in Users, Shut(u), job[u].op # "close_all", UNCHANGED <<setup, job, attr, pool>>
  PROVE  Mild(u) /\ Onward(u) /\ WordsStored(u)'
<1>1. /\ At(u, "shut") /\ UNCHANGED <<conns, made, rd>> /\ open' = open \ {rd[u]}
      /\ (Raise(u) /\ rd[u] = Coroutine) \/ Skip(u, 0)
  BY DEF Shut, Go
<1>2. /\ 0 \in Nat /\ 0 + 1 <= Len(todo[u]) /\ todo[u][0 + 1] = "shut" /\ todo[u][1] = "shut" /\ todo[u] # <<>>
      /\ WordsStored(u) /\ job[u].tid \in Threads /\ Is(todo[u], 1, "shut") /\ HoldStored(u) /\ Len(todo[u]) \in Nat
  <2>1. "shut" # "none"
    OBVIOUS
  <2>2. Len(todo[u]) \in Nat
    BY DEF CtxInv, CallTypes
  <2> QED BY <1>1, <2>1, <2>2, Front DEF StoredCalm
<1>3. 0 + 1 < Len(todo[u]) /\ todo[u][(0 + 1) + 1] = "delete"
  <2>1. Is(todo[u], 2, "delete")
    BY <1>2 DEF WordsStored
  <2> QED BY <1>2, <2>1 DEF Is
<1>4. /\ WordsStored(u)' /\ ~Is(todo'[u], 1, "store") /\ (\A v \in Users \ {u} : todo'[v] = todo[v])
      /\ Is(todo'[u], 1, "delete") \/ rd[u] = Coroutine
  <2>1. CASE Raise(u) /\ rd[u] = Coroutine
    BY <2>1, StoredEnds
  <2>2. CASE Skip(u, 0)
    BY <1>2, <1>3, <2>2, StoredOn
  <2> QED BY <1>1, <2>1, <2>2
<1>5. Mild(u)
  <2>1. made' \in {made, made + 1}
    BY <1>1
  <2>2. \A a \in Adapters : attr'[a] \in {attr[a], Nothing}
    OBVIOUS
  <2>3. \A a \in Adapters : pool'[a] \in {pool[a], Nothing}
    OBVIOUS
  <2>4. \A c \in open : c \in open' \/ c = rd[u]
    BY <1>1
  <2>5. rd'[u] = rd[u] /\ job'[u].tid = job[u].tid /\ job'[u].op = job[u].op
    BY <1>1
  <2>6. \A w \in Users \ {u} : todo'[w] = todo[w] /\ rd'[w] = rd[w] /\ job'[w] = job[w]
    BY <1>1, <1>4
  <2>7. \A t \in Threads : conns'[t] \in {conns[t], Nothing, Coroutine}
    BY <1>1
  <2> QED BY <1>2, <1>4, <2>1, <2>2, <2>3, <2>4, <2>5, <2>6, <2>7 DEF Mild
<1>6. ASSUME NEW t \in Threads, Closed(t)'
      PROVE  (Closed(t) /\ ~Tends(u, t)) \/ Tends(u, t)'
  <2>1. conns[t] \in Real /\ (conns[t] \in open => conns[t] = rd[u]) /\ conns[t] # Coroutine
    BY <1>1, <1>6, Unborn DEF Closed, Real
  <2>2. CASE rd[u] # Coroutine /\ t = job[u].tid
    <3>1. todo'[u] # <<>> /\ todo'[u][1] = "delete"
      <4>1. Len(todo'[u]) >= 1 /\ todo'[u][1] = "delete"
        BY <1>4, <2>2 DEF Is
      <4>2. Len(<<>>) = 0
        OBVIOUS
      <4> QED BY <4>1, <4>2
    <3>2. Tends(u, t)'
      BY <2>2, <3>1 DEF Tends, Tending
    <3> QED BY <3>2
  <2>3. CASE ~(rd[u] # Coroutine /\ t = job[u].tid)
    <3>1. ~Tends(u, t)
      BY <1>2, <2>3 DEF Tends, Tending
    <3>2. conns[t] \notin open
      BY <1>2, <2>1, <2>3 DEF HoldStored
    <3> QED BY <2>1, <3>1, <3>2 DEF Closed
  <2> QED BY <2>2, <2>3
<1>7. Onward(u)
  BY <1>6 DEF Onward
<1> QED
  BY <1>4, <1>5, <1>7

\* clean_threadstore of all threads, or of everything.
LEMMA StoredSweeps ==
  ASSUME CtxInv, StoredCalm, NEW u \in Users, Sweep(u) \/ Purge(u), job[u].op # "close_all", UNCHANGED <<setup, job, attr, pool>>
  PROVE  Mild(u) /\ Onward(u) /\ WordsStored(u)'
<1>1. PICK h \in {"sweep", "purge"} :
        /\ At(u, h) /\ UNCHANGED <<made, open, rd>>
        /\ \/ Raise(u) /\ conns' = conns
           \/ Skip(u, 0) /\ conns' = conns
           \/ /\ Raise(u) \/ Continue(u, todo[u])
              /\ \E t \in Threads : conns' = [conns EXCEPT ![t] = Nothing]
  <2>1. CASE Sweep(u)
    <3>1. At(u, "sweep") /\ UNCHANGED <<made, open>> /\ Clears(u)
      BY <2>1 DEF Sweep
    <3>2. CASE IterationEnds(u)
      BY <3>1, <3>2 DEF IterationEnds, Go
    <3>3. CASE ~IterationEnds(u)
      <4>1. /\ NextEntry(u) /\ conns' = [conns EXCEPT ![order[Visited(u)]] = Nothing] /\ rd' = rd
            /\ Continue(u, todo[u])
        BY <3>1, <3>3 DEF Clears
      <4>2. order[Visited(u)] \in Threads
        BY <4>1, NextTypes
      <4> QED BY <3>1, <4>1, <4>2
    <3> QED BY <3>2, <3>3
  <2>2. CASE Purge(u)
    <3>1. At(u, "purge") /\ UNCHANGED <<made, open, rd>>
      BY <2>2 DEF Purge
    <3>2. CASE Ahead(1) = {}
      BY <2>2, <3>1, <3>2 DEF Purge, Go
    <3>3. CASE Ahead(1) # {}
      <4>1. Raise(u) /\ conns' = [conns EXCEPT ![order[First(Ahead(1))]] = Nothing]
        BY <2>2, <3>3 DEF Purge
      <4>2. order[First(Ahead(1))] \in Threads
        <5>1. 1 \in Nat \ {0}
          OBVIOUS
        <5> QED BY <3>3, <5>1, NextIs
      <4> QED BY <3>1, <4>1, <4>2
    <3> QED BY <3>2, <3>3
  <2> QED BY <2>1, <2>2
<1>2. h # "none"
  OBVIOUS
<1>3. /\ 0 \in Nat /\ 0 + 1 <= Len(todo[u]) /\ todo[u][0 + 1] = h /\ todo[u][1] = h /\ todo[u] # <<>> /\ WordsStored(u)
      /\ ~Is(todo[u], 1, "store")
  <2>1. \A w : Is(todo[u], 1, w) <=> w = h
    BY <1>1, <1>2, Front
  <2>2. ~Is(todo[u], 1, "store")
    BY <2>1
  <2>3. /\ 0 \in Nat /\ 0 + 1 <= Len(todo[u]) /\ todo[u][0 + 1] = h /\ todo[u][1] = h /\ todo[u] # <<>> /\ WordsStored(u)
    BY <1>1, <1>2, Front DEF StoredCalm
  <2> QED BY <2>2, <2>3
<1>4. \A t \in Threads : ~Tends(u, t)
  BY <1>1, <1>3 DEF Tends, Tending
<1>5. CASE Raise(u) /\ conns' = conns
  BY <1>1, <1>3, <1>4, <1>5, StoredRaises
<1>6. CASE Skip(u, 0) /\ conns' = conns
  <2>1. WordsStored(u)' /\ ~Is(todo'[u], 1, "store") /\ \A v \in Users \ {u} : todo'[v] = todo[v]
    BY <1>1, <1>3, <1>6, StoredOn
  <2>2. Mild(u)
    BY <1>1, <1>3, <1>6, <2>1, MildLook
  <2>3. Onward(u)
    BY <1>1, <1>4, <1>6, OnwardQuietly
  <2> QED BY <2>1, <2>2, <2>3
<1>7. CASE /\ Raise(u) \/ Continue(u, todo[u])
           /\ \E t \in Threads : conns' = [conns EXCEPT ![t] = Nothing]
  <2>1. PICK t \in Threads : conns' = [conns EXCEPT ![t] = Nothing]
    BY <1>7
  <2>2. WordsStored(u)' /\ ~Is(todo'[u], 1, "store") /\ \A v \in Users \ {u} : todo'[v] = todo[v]
    <3>1. CASE Raise(u)
      BY <3>1, StoredEnds
    <3>2. CASE Continue(u, todo[u])
      <4>1. todo' = [todo EXCEPT ![u] = todo[u]]
        BY <3>2 DEF Continue, Proceed
      <4>2. todo'[u] = todo[u] /\ \A v \in Users \ {u} : todo'[v] = todo[v]
        BY <4>1, HeldApart
      <4>3. WordsStored(u)'
        BY <1>3, <4>2 DEF WordsStored, Says
      <4> QED BY <1>3, <4>2, <4>3
    <3> QED BY <1>7, <3>1, <3>2
  <2>3. Mild(u) /\ conns'[t] = Nothing /\ \A s \in Threads \ {t} : conns'[s] = conns[s]
    BY <1>1, <1>3, <2>1, <2>2, EntryMild
  <2>4. \A s \in Threads : conns'[s] \in {conns[s], Nothing, Coroutine}
    BY <2>3
  <2>5. Onward(u)
    BY <1>1, <1>4, <2>4, OnwardQuietly
  <2> QED BY <2>2, <2>3, <2>5
<1> QED
  BY <1>1, <1>5, <1>6, <1>7

\* A step of the store, of a call that does not close everything.
LEMMA StoredSteps ==
  ASSUME CtxInv, Orderly, StoredCalm, NEW u \in Users, StoreStepHere(u), job[u].op # "close_all"
  PROVE  u \in Crew /\ Mild(u) /\ Onward(u) /\ WordsStored(u)' /\ setup' = setup
<1>1. UNCHANGED <<setup, job, attr, pool>>
  BY DEF StoreStepHere, StoreStep
<1>2. u \in Crew /\ todo[u] # <<>> /\ WordsStored(u) /\ \E h : At(u, h) /\ h # "none"
  <2>1. \E h : At(u, h) /\ h # "none"
    BY DEF StoreStepHere, StoreStep, Lookup, Connect, ConnectFails, Store, Promise, Seek, Own, Shut, Delete, DropThread,
       Walk, Sweep, Purge
  <2> QED BY <2>1, Front DEF StoredCalm
<1>3. CASE Lookup(u) \/ Seek(u) \/ Own(u)
  BY <1>1, <1>2, <1>3, StoredLooks
<1>4. CASE Connect(u)
  BY <1>1, <1>2, <1>4, StoredConnects
<1>5. CASE ConnectFails(u)
  <2>1. At(u, "connect") /\ Raise(u) /\ UNCHANGED <<conns, made, open, rd>>
    BY <1>5 DEF ConnectFails, storeVars
  <2>2. todo[u][1] = "connect"
    <3>1. "connect" # "none"
      OBVIOUS
    <3> QED BY <2>1, <3>1, Front
  <2>3. \A t \in Threads : ~Tends(u, t)
    BY <2>2 DEF Tends, Tending
  <2> QED BY <1>1, <1>2, <2>1, <2>3, StoredRaises
<1>6. CASE Store(u) \/ Promise(u) \/ DropThread(u)
  BY <1>1, <1>2, <1>6, StoredEntries
<1>7. CASE Shut(u)
  BY <1>1, <1>2, <1>7, StoredShuts
<1>8. CASE Delete(u)
  BY <1>1, <1>2, <1>8, StoredDeletes
<1>9. CASE Sweep(u) \/ Purge(u)
  BY <1>1, <1>2, <1>9, StoredSweeps
<1>10. ~Walk(u)
  <2> SUFFICES ASSUME At(u, "walk")
               PROVE  FALSE
    BY DEF Walk
  <2>1. Says(u, "walk")
    <3>1. "walk" # "none"
      OBVIOUS
    <3> QED BY <3>1, Front
  <2> QED BY <1>2, <2>1 DEF WordsStored
<1> QED
  BY <1>1, <1>2, <1>3, <1>4, <1>5, <1>6, <1>7, <1>8, <1>9, <1>10 DEF StoreStepHere, StoreStep

-----------------------------------------------------------------------------
\* The connection of an adapter is looked at, or used.
LEMMA StoredHaves ==
  ASSUME CtxInv, StoredCalm, NEW u \in Users, HaveAttr(u) \/ HavePool(u) \/ AwaitPool(u) \/ Command(u), job[u].op # "close_all",
         UNCHANGED <<setup, job, conns, made, open>>
  PROVE  Mild(u) /\ Onward(u) /\ WordsStored(u)'
<1>1. PICK h \in {"have_attr", "have_pool", "await_pool", "command"} :
        /\ At(u, h) /\ UNCHANGED <<attr, pool>>
        /\ rd' = rd \/ \E c \in {attr[job[u].on], pool[job[u].on]} : rd' = [rd EXCEPT ![u] = c]
        /\ Skip(u, 0) \/ (h = "have_attr" /\ Skip(u, IF setup.kind = "redis" THEN 4 ELSE 2)) \/ (h = "have_pool" /\ Skip(u, 4))
  <2>1. CASE HaveAttr(u)
    <3>1. At(u, "have_attr") /\ UNCHANGED <<attr, pool>> /\ rd' = [rd EXCEPT ![u] = attr[job[u].on]]
      BY <2>1 DEF HaveAttr, Holds, On
    <3>2. Skip(u, 0) \/ Skip(u, IF setup.kind = "redis" THEN 4 ELSE 2)
      <4>1. CASE setup.kind = "redis"
        BY <2>1, <4>1 DEF HaveAttr, Go
      <4>2. CASE setup.kind # "redis"
        BY <2>1, <4>2 DEF HaveAttr, Go
      <4> QED BY <4>1, <4>2
    <3> QED BY <3>1, <3>2
  <2>2. CASE HavePool(u)
    BY <2>2 DEF HavePool, Holds, On, Go
  <2>3. CASE AwaitPool(u) \/ Command(u)
    BY <2>3 DEF AwaitPool, Command, Holds, On, Go
  <2> QED BY <2>1, <2>2, <2>3
<1>2. h # "none" /\ h \notin StoreSteps \cup Searches
  BY DEF StoreSteps, Searches
<1>3. /\ 0 \in Nat /\ 0 + 1 <= Len(todo[u]) /\ todo[u][0 + 1] = h /\ todo[u][1] = h /\ todo[u] # <<>> /\ WordsStored(u)
      /\ Fits(setup.kind, InCtx(u), todo[u], 1) /\ InCtx(u) /\ job[u].on \in Adapters
  BY <1>1, <1>2, Front, OnIs DEF StoredCalm
<1>4. /\ h = "have_attr" /\ setup.kind # "redis" => 2 \in Nat /\ 2 + 1 <= Len(todo[u]) /\ todo[u][2 + 1] = "keep_attr"
      /\ h = "have_attr" /\ setup.kind = "redis" => 4 \in Nat /\ 4 + 1 <= Len(todo[u]) /\ todo[u][4 + 1] = "keep_attr"
      /\ h = "have_pool" => 4 \in Nat /\ 4 + 1 <= Len(todo[u]) /\ todo[u][4 + 1] = "keep_pool"
  BY <1>3 DEF Fits, Gain, Pair, Looks
<1>5. PICK n \in {0, 2, 4} : Skip(u, n) /\ n \in Nat /\ n + 1 <= Len(todo[u]) /\ todo[u][n + 1] # "connect"
  <2>1. CASE Skip(u, 0)
    BY <1>3, <2>1
  <2>2. CASE h = "have_attr" /\ setup.kind # "redis" /\ Skip(u, 2)
    BY <1>4, <2>2
  <2>3. CASE Skip(u, 4) /\ ((h = "have_attr" /\ setup.kind = "redis") \/ h = "have_pool")
    BY <1>4, <2>3
  <2> QED BY <1>1, <2>1, <2>2, <2>3
<1>6. WordsStored(u)' /\ ~Is(todo'[u], 1, "store") /\ \A v \in Users \ {u} : todo'[v] = todo[v]
  BY <1>3, <1>5, StoredOn
<1>7. /\ rd'[u] = rd[u] \/ \E a \in Adapters : rd'[u] \in {attr[a], pool[a]}
      /\ \A v \in Users \ {u} : rd'[v] = rd[v]
  BY <1>1, <1>3, HeldApart
<1>8. Mild(u)
  BY <1>1, <1>3, <1>6, <1>7, MildLook
<1>9. \A t \in Threads : ~Tends(u, t)
  BY <1>1, <1>3 DEF Tends, Tending
<1>10. Onward(u)
  BY <1>9, OnwardQuietly
<1> QED
  BY <1>6, <1>8, <1>10

\* An adapter keeps a connection or gives one up; before it closes the thread's it has given up its own.
LEMMA StoredKeeps ==
  ASSUME CtxInv, StoredCalm, NEW u \in Users, KeepPool(u) \/ KeepAttr(u) \/ ClearAttr(u) \/ ClearPool(u),
         job[u].op # "close_all", UNCHANGED <<setup, job, conns, made, open>>
  PROVE  Mild(u) /\ Onward(u) /\ WordsStored(u)'
<1>1. PICK h, c, d :
        /\ h \in {"keep_pool", "keep_attr", "clear_attr", "clear_pool"} /\ At(u, h) /\ Skip(u, 0) /\ UNCHANGED rd
        /\ attr' = attr \/ (attr' = [attr EXCEPT ![job[u].on] = c] /\ c \in {rd[u], Nothing})
        /\ pool' = pool \/ (pool' = [pool EXCEPT ![job[u].on] = d] /\ d \in {rd[u], Nothing})
  BY DEF KeepPool, KeepAttr, ClearAttr, ClearPool, Go, On
<1>2. h # "none" /\ h \notin StoreSteps \cup Searches
  BY <1>1 DEF StoreSteps, Searches
<1>3. /\ 0 \in Nat /\ 0 + 1 <= Len(todo[u]) /\ todo[u][0 + 1] = h /\ todo[u][1] = h /\ todo[u] # <<>> /\ WordsStored(u)
      /\ InCtx(u) /\ job[u].on \in Adapters /\ Len(todo[u]) \in Nat /\ Shape(setup.kind, InCtx(u), todo[u])
  <2>1. Len(todo[u]) \in Nat
    BY DEF CtxInv, CallTypes
  <2> QED BY <1>1, <1>2, <2>1, Front, OnIs, Heads DEF StoredCalm
<1>4. /\ WordsStored(u)' /\ ~Is(todo'[u], 1, "store") /\ (\A v \in Users \ {u} : todo'[v] = todo[v])
      /\ 0 + 1 < Len(todo[u]) => Is(todo'[u], 1, todo[u][(0 + 1) + 1])
  BY <1>1, <1>3, StoredOn
<1>5. \A a \in Adapters : attr'[a] \in {attr[a], Nothing, rd[u]} /\ pool'[a] \in {pool[a], Nothing, rd[u]}
  <2> TAKE a \in Adapters
  <2>1. attr'[a] \in {attr[a], Nothing, rd[u]}
    BY <1>1, <1>3, HeldApart
  <2>2. pool'[a] \in {pool[a], Nothing, rd[u]}
    BY <1>1, <1>3, HeldApart
  <2> QED BY <2>1, <2>2
<1>6. Mild(u)
  <2>1. \A t \in Threads : conns'[t] \in {conns[t], Nothing, Coroutine}
    OBVIOUS
  <2>2. \A a \in Adapters : \/ attr'[a] \in {attr[a], Nothing}
                            \/ attr'[a] = rd[u] /\ InCtx(u) /\ todo[u] # <<>>
    BY <1>3, <1>5
  <2>3. \A a \in Adapters : \/ pool'[a] \in {pool[a], Nothing}
                            \/ pool'[a] = rd[u] /\ InCtx(u) /\ todo[u] # <<>>
    BY <1>3, <1>5
  <2>4. made' \in {made, made + 1} /\ \A e \in open : e \in open'
    OBVIOUS
  <2>5. rd'[u] = rd[u] /\ job'[u].tid = job[u].tid /\ job'[u].op = job[u].op
    BY <1>1
  <2>6. \A w \in Users \ {u} : todo'[w] = todo[w] /\ rd'[w] = rd[w] /\ job'[w] = job[w]
    BY <1>1, <1>4
  <2> QED BY <1>3, <1>4, <2>1, <2>2, <2>3, <2>4, <2>5, <2>6 DEF Mild
<1>7. CASE h \in {"keep_pool", "keep_attr"}
  <2>1. \A t \in Threads : ~Tends(u, t)
    BY <1>3, <1>7 DEF Tends, Tending
  <2>2. Onward(u)
    BY <2>1, OnwardQuietly
  <2> QED BY <1>4, <1>6, <2>2
<1>8. CASE h \in {"clear_attr", "clear_pool"}
  <2>1. 0 + 1 < Len(todo[u]) /\ 1 < Len(todo[u]) /\ 1 \in 1..Len(todo[u])
    <3>1. Len(todo[u]) # 1
      BY <1>3, <1>8 DEF WordsStored
    <3>2. \A n \in Nat : 0 + 1 <= n /\ n # 1 => 0 + 1 < n /\ 1 < n /\ 1 \in 1..n
      OBVIOUS
    <3>3. Len(todo[u]) \in Nat /\ 0 + 1 <= Len(todo[u])
      BY <1>3
    <3> QED BY <3>1, <3>2, <3>3
  <2>2. todo[u][(0 + 1) + 1] \in {"clear_pool", "seek"}
    <3>1. Follows(InCtx(u), todo[u][1], todo[u][1 + 1])
      BY <1>3, <2>1 DEF Shape
    <3>2. todo[u][1 + 1] \in {"clear_pool", "seek"}
      BY <1>3, <1>8, <3>1 DEF Follows
    <3> QED BY <3>2
  <2>3. todo'[u] # <<>> /\ todo'[u][1] \in {"clear_pool", "seek"}
    <3>1. Len(todo'[u]) >= 1 /\ todo'[u][1] \in {"clear_pool", "seek"}
      BY <1>4, <2>1, <2>2 DEF Is
    <3>2. Len(<<>>) = 0
      OBVIOUS
    <3> QED BY <3>1, <3>2
  <2>4. \A t \in Threads : (Closed(t)' => Closed(t)) /\ (Tends(u, t) => Tends(u, t)')
    BY <2>3 DEF Closed, Real, Tends, Tending
  <2>5. Onward(u)
    BY <2>4 DEF Onward
  <2> QED BY <1>4, <1>6, <2>5
<1> QED
  BY <1>1, <1>7, <1>8

\* An adapter's connection is closed: the thread's entry, if it is that, is deleted in the same call.
LEMMA StoredShutsAttr ==
  ASSUME CtxInv, Orderly, StoredCalm, NEW u \in Users, ShutAttr(u), job[u].op # "close_all"
  PROVE  Mild(u) /\ Onward(u) /\ WordsStored(u)'
<1>1. /\ At(u, "shut_attr") /\ UNCHANGED <<setup, conns, made, attr, pool, job, rd>> /\ open' = open \ {attr[job[u].on]}
      /\ IF attr[job[u].on] = Nothing THEN Runs(u, 2) ELSE Runs(u, 1)
  BY DEF ShutAttr, On, ctxVars, Go, Skip, Continue, Proceed, Runs
<1>2. "shut_attr" # "none" /\ "shut_attr" \notin StoreSteps \cup Searches
  BY DEF StoreSteps, Searches
<1>3. /\ todo[u][1] = "shut_attr" /\ todo[u] # <<>> /\ WordsStored(u) /\ Fits(setup.kind, InCtx(u), todo[u], 1)
      /\ InCtx(u) /\ job[u].on \in Adapters /\ Len(todo[u]) \in Nat
  <2>1. Len(todo[u]) \in Nat
    BY DEF CtxInv, CallTypes
  <2> QED BY <1>1, <1>2, <2>1, Front, OnIs DEF StoredCalm
<1>4. 1 + 2 <= Len(todo[u]) /\ todo[u][1 + 1] = "clear_attr" /\ todo[u][2] = "clear_attr"
  BY <1>3 DEF Fits, Pair, Looks
<1>5. PICK n \in 1..Len(todo[u]) : Runs(u, n) /\ todo[u][n] # "connect" /\ (attr[job[u].on] # Nothing => n = 1)
  <2>1. 1 \in 1..Len(todo[u]) /\ 2 \in 1..Len(todo[u])
    BY <1>3, <1>4
  <2> QED BY <1>1, <1>3, <1>4, <2>1
<1>6. /\ WordsStored(u)' /\ ~Is(todo'[u], 1, "store") /\ (\A v \in Users \ {u} : todo'[v] = todo[v])
      /\ n < Len(todo[u]) => Is(todo'[u], 1, todo[u][n + 1])
  BY <1>1, <1>3, <1>5, StoredRuns
<1>7. Mild(u)
  <2>1. made' \in {made, made + 1}
    BY <1>1
  <2>2. \A a \in Adapters : attr'[a] \in {attr[a], Nothing}
    BY <1>1
  <2>3. \A a \in Adapters : pool'[a] \in {pool[a], Nothing}
    BY <1>1
  <2>4. \A c \in open : c \in open' \/ \E a \in Adapters : c = attr[a]
    BY <1>1, <1>3
  <2>5. rd'[u] = rd[u] /\ job'[u].tid = job[u].tid /\ job'[u].op = job[u].op
    BY <1>1
  <2>6. \A w \in Users \ {u} : todo'[w] = todo[w] /\ rd'[w] = rd[w] /\ job'[w] = job[w]
    BY <1>1, <1>6
  <2>7. \A t \in Threads : conns'[t] \in {conns[t], Nothing, Coroutine}
    BY <1>1
  <2> QED BY <1>3, <1>6, <2>1, <2>2, <2>3, <2>4, <2>5, <2>6, <2>7 DEF Mild
<1>8. ASSUME NEW t \in Threads, Closed(t)'
      PROVE  (Closed(t) /\ ~Tends(u, t)) \/ Tends(u, t)'
  <2>1. ~Tends(u, t)
    BY <1>3 DEF Tends, Tending
  <2>2. conns[t] \in Real /\ (conns[t] \in open => conns[t] = attr[job[u].on])
    BY <1>1, <1>8 DEF Closed, Real
  <2>3. CASE conns[t] \notin open
    BY <2>1, <2>2, <2>3 DEF Closed
  <2>4. CASE conns[t] \in open
    <3>1. Does(CtxOps) /\ \A w \in Crew : setup.home[w] = job[u].tid
      BY <1>3, HomesAgree
    <3>2. t = job[u].tid
      BY <1>3, <2>2, <2>4, <3>1 DEF StoredCalm, AttrStored
    <3>3. attr[job[u].on] # Nothing
      BY <2>2, <2>4, Unborn
    <3>4. Is(todo'[u], 1, "clear_attr")
      BY <1>3, <1>4, <1>5, <1>6, <3>3
    <3>5. todo'[u] # <<>> /\ todo'[u][1] = "clear_attr"
      <4>1. Len(todo'[u]) >= 1 /\ todo'[u][1] = "clear_attr"
        BY <3>4 DEF Is
      <4>2. Len(<<>>) = 0
        OBVIOUS
      <4> QED BY <4>1, <4>2
    <3> QED BY <1>1, <1>3, <3>2, <3>5 DEF Tends, Tending
  <2> QED BY <2>3, <2>4
<1>9. Onward(u)
  BY <1>8 DEF Onward
<1> QED
  BY <1>6, <1>7, <1>9

\* A step of an adapter.
LEMMA StoredAdapter ==
  ASSUME CtxInv, Orderly, StoredCalm, NEW u \in Users, AdapterStep(u)
  PROVE  u \in Crew /\ job[u].op # "close_all" /\ Mild(u) /\ Onward(u) /\ WordsStored(u)' /\ setup' = setup
<1>1. PICK h \in {"have_attr", "have_pool", "keep_pool", "await_pool", "keep_attr", "clear_attr", "clear_pool",
                  "command", "shut_attr"} : At(u, h)
  BY DEF AdapterStep, HaveAttr, HavePool, KeepPool, AwaitPool, KeepAttr, ClearAttr, ClearPool, Command, ShutAttr
<1>2. h # "none" /\ h \notin StoreSteps \cup Searches
  BY DEF StoreSteps, Searches
<1>3. u \in Crew /\ InCtx(u)
  BY <1>1, <1>2, Front, OnIs
<1>4. job[u].op # "close_all"
  BY <1>3 DEF InCtx, CtxOps
<1>5. CASE ShutAttr(u)
  <2>1. setup' = setup
    BY <1>5 DEF ShutAttr
  <2> QED BY <1>3, <1>4, <1>5, <2>1, StoredShutsAttr
<1>6. CASE ~ShutAttr(u)
  <2>1. UNCHANGED <<setup, job, conns, made, open>>
    BY <1>6 DEF AdapterStep, storeVars
  <2>2. HaveAttr(u) \/ HavePool(u) \/ KeepPool(u) \/ AwaitPool(u) \/ KeepAttr(u) \/ ClearAttr(u) \/ ClearPool(u) \/ Command(u)
    BY <1>6 DEF AdapterStep
  <2> QED BY <1>3, <1>4, <2>1, <2>2, StoredHaves, StoredKeeps
<1> QED
  BY <1>5, <1>6

\* A step of the wrapper or of the module.
LEMMA StoredWrapper ==
  ASSUME CtxInv, StoredCalm, NEW u \in Users, WrapperStep(u)
  PROVE  u \in Crew /\ job[u].op # "close_all" /\ Mild(u) /\ Onward(u) /\ WordsStored(u)' /\ setup' = setup
<1>1. /\ UNCHANGED <<setup, conns, open, rd, attr, pool>>
      /\ job'[u].op = job[u].op /\ job'[u].tid = job[u].tid /\ \A w \in Users \ {u} : job'[w] = job[w]
  BY WrapperGoes
<1>2. made' = made
  BY DEF WrapperStep, GetAdapter, SharedAdapter, Make, Install, Share, Unset, VirtEnterStep, EnteredStep, VirtExitStep,
     ExitedStep, storeVars
<1>3. PICK h \in {"get_adapter", "shared", "make", "install", "share", "unset", "virt_enter", "entered",
                  "virt_exit", "exited"} : At(u, h)
  BY WrapperGoes
<1>4. h # "none" /\ h \notin StoreSteps \cup {"none"}
  BY DEF StoreSteps
<1>5. u \in Crew /\ InCtx(u) /\ todo[u] # <<>> /\ todo[u][1] = h /\ WordsStored(u) /\ 0 + 1 <= Len(todo[u])
  BY <1>3, <1>4, Front, WrapperHeads DEF StoredCalm
<1>6. job[u].op # "close_all"
  BY <1>5 DEF InCtx, CtxOps
<1>7. WordsStored(u)' /\ ~Is(todo'[u], 1, "store") /\ \A v \in Users \ {u} : todo'[v] = todo[v]
  <2>1. CASE Make(u)
    <3>1. Skip(u, 0) /\ At(u, "make") /\ "make" # "none" /\ 0 \in Nat
      BY <2>1 DEF Make, Go
    <3>2. todo[u][0 + 1] = "make"
      BY <3>1, Front
    <3> QED BY <1>1, <1>5, <1>6, <3>1, <3>2, StoredOn
  <2>2. CASE Raise(u)
    BY <2>2, StoredEnds
  <2>3. CASE ~Make(u) /\ ~Raise(u)
    <3>1. PICK n \in Nat : n + 1 <= Len(todo[u]) /\ Skip(u, n) /\ todo[u][n + 1] \in Wrapping
      BY <2>3, WrapperSkips
    <3>2. todo[u][n + 1] # "connect"
      BY <3>1 DEF Wrapping
    <3> QED BY <1>1, <1>5, <1>6, <3>1, <3>2, StoredOn
  <2> QED BY <2>1, <2>2, <2>3
<1>8. Mild(u)
  <2>1. UNCHANGED <<conns, made, open, attr, pool>> /\ rd'[u] = rd[u]
    BY <1>1, <1>2
  <2>2. \A w \in Users \ {u} : todo'[w] = todo[w] /\ rd'[w] = rd[w] /\ job'[w] = job[w]
    BY <1>1, <1>7
  <2> QED BY <1>1, <1>5, <1>7, <2>1, <2>2, MildLook
<1>9. \A t \in Threads : ~Tends(u, t)
  BY <1>5 DEF Tends, Tending
<1>10. Onward(u)
  BY <1>1, <1>2, <1>9, OnwardQuietly
<1> QED
  BY <1>1, <1>5, <1>6, <1>7, <1>8, <1>10

-----------------------------------------------------------------------------
\* A call begins, with nothing in its hands.
LEMMA StoredBegins ==
  ASSUME CtxInv, NEW u \in Users, todo[u] = <<>>, NEW j, NEW s, job' = [job EXCEPT ![u] = j], todo' = [todo EXCEPT ![u] = s],
         rd' = [rd EXCEPT ![u] = Nothing], UNCHANGED <<setup, conns, made, open, attr, pool>>, ~Is(s, 1, "store")
  PROVE  Mild(u) /\ Onward(u) /\ todo'[u] = s /\ job'[u] = j
<1>1. \A w \in Users \ {u} : todo'[w] = todo[w] /\ rd'[w] = rd[w] /\ job'[w] = job[w]
  BY HeldApart DEF CtxInv, CallTypes
<1>2. todo'[u] = s /\ job'[u] = j /\ rd'[u] = Nothing
  BY HeldApart DEF CtxInv, CallTypes
<1>3. Mild(u)
  <2>1. made' \in {made, made + 1}
    OBVIOUS
  <2>2. \A a \in Adapters : attr'[a] \in {attr[a], Nothing}
    OBVIOUS
  <2>3. \A a \in Adapters : pool'[a] \in {pool[a], Nothing}
    OBVIOUS
  <2>4. \A c \in open : c \in open'
    OBVIOUS
  <2>5. \A t \in Threads : conns'[t] \in {conns[t], Nothing, Coroutine}
    OBVIOUS
  <2> QED BY <1>1, <1>2, <2>1, <2>2, <2>3, <2>4, <2>5 DEF Mild
<1>4. \A t \in Threads : ~Tends(u, t)
  BY DEF Tends
<1>5. Onward(u)
  BY <1>4, OnwardQuietly
<1> QED
  BY <1>2, <1>3, <1>5

\* A call on an adapter or the wrapper begins.
LEMMA StoredCtxAsk ==
  ASSUME CtxInv, NEW u \in Users, setup.kind \in Wrapped, NEW op \in setup.ops \cap CtxOps, CtxAsk(u, op)
  PROVE  u \in Crew /\ todo[u] = <<>> /\ Mild(u) /\ Onward(u) /\ WordsStored(u)'
<1>1. PICK a, b : Begins(op, a) /\ Block(CtxPrograms[op], a, b, CtxWords(op)) /\ b \notin {"clear_attr", "clear_pool"}
  BY CtxProgramBlocks
<1>2. PICK s \in Seq(Words) : s = CtxPrograms[op]
  BY <1>1 DEF Block, Shape
<1>3. Shape(setup.kind, TRUE, s) /\ s[1] = a /\ s[Len(s)] = b
  BY <1>1, <1>2 DEF Block
<1>4. PICK j : j = [op |-> op, tid |-> setup.home[u], on |-> IF op = "exit" THEN tracked ELSE instance]
  OBVIOUS
<1>5. /\ job' = [job EXCEPT ![u] = j] /\ todo' = [todo EXCEPT ![u] = s] /\ rd' = [rd EXCEPT ![u] = Nothing]
      /\ todo[u] = <<>> /\ u \in Crew
      /\ UNCHANGED <<setup, conns, made, open, attr, pool>>
  BY <1>2, <1>4 DEF CtxAsk, storeVars, Crew
<1>6. a \notin {"store", "shut"}
  BY <1>1 DEF Begins, Haves
<1>7. ~Is(s, 1, "store") /\ ~Is(s, 1, "shut")
  BY <1>3, <1>6 DEF Is
<1>8. Mild(u) /\ Onward(u) /\ todo'[u] = s /\ job'[u] = j
  BY <1>5, <1>7, StoredBegins
<1>9. WordsStored(u)'
  <2>1. \A w : Says(u, w)' => w \in CtxSteps
    BY <1>3, <1>8 DEF Says, Shape, Fits
  <2>2. setup'.kind \notin Managers
    BY <1>5 DEF Wrapped, Managers
  <2>3. job'[u].op # "close_all"
    BY <1>4, <1>8 DEF CtxOps
  <2>4. ~Says(u, "own")' /\ ~Says(u, "walk")'
    BY <2>1 DEF CtxSteps
  <2> QED BY <1>1, <1>3, <1>7, <1>8, <2>2, <2>3, <2>4 DEF WordsStored
<1> QED
  BY <1>5, <1>8, <1>9

\* The programs of close_all, and how a program on the store ends and begins.
LEMMA AskedWords ==
  ASSUME setup.kind \in Sync \cup Async, NEW op \in DOMAIN Kind \cup DOMAIN Common
  PROVE  /\ op = "close_all" => Program(op) = IF setup.kind \in Managers THEN <<"own", "shut", "sweep">> ELSE <<"walk", "sweep">>
         /\ op # "close_all" => /\ Program(op)[1] \notin {"shut", "store"}
                                /\ \A i \in 1..Len(Program(op)) : Program(op)[i] # "walk"
                                /\ \A i, k \in 1..Len(Program(op)) : Program(op)[i] = "own" => Program(op)[k] # "sweep"
<1>1. op \in Cleans \cup {"close_all"} => op \notin DOMAIN Kind
  BY DEF Kind, Programs, Sync, Async, Cleans
<1>2. op \in Cleans \cup {"close_all"} => Program(op) = Common[op]
  BY <1>1 DEF Program
<1>3. CASE op = "close_all"
  BY <1>2, <1>3 DEF Common
<1>4. CASE op \in Cleans
  <2>1. Program(op) = <<"delete">> \/ Program(op) = <<"drop">> \/ Program(op) = <<"sweep">> \/ Program(op) = <<"purge">>
    BY <1>2, <1>4 DEF Common, Cleans
  <2>2. PICK w \in {"delete", "drop", "sweep", "purge"} : Program(op) = <<w>>
    BY <2>1
  <2>3. Program(op)[1] = w /\ \A i \in 1..Len(Program(op)) : Program(op)[i] = w
    BY <2>2
  <2> QED BY <1>4, <2>3 DEF Cleans
<1>5. CASE op \notin Cleans \cup {"close_all"}
  <2>1. Opens(op, Program(op)) /\ \A i \in 1..Len(Program(op)) : Allows(op, Program(op)[i])
    BY StorePrograms DEF StoreProgram
  <2>2. Program(op)[1] \notin {"shut", "store"}
    BY <1>5, <2>1 DEF Opens
  <2>3. \A i \in 1..Len(Program(op)) : Program(op)[i] \notin {"walk", "sweep"}
    <3>1. op # "close_all" /\ op # "clean_all"
      BY <1>5 DEF Cleans
    <3>2. \A w : Allows(op, w) => w \notin {"walk", "sweep"}
      BY <3>1 DEF Allows
    <3> QED BY <2>1, <3>2
  <2> QED BY <1>5, <2>2, <2>3
<1> QED
  BY <1>3, <1>4, <1>5

\* A call on the store begins.
LEMMA StoredAsk ==
  ASSUME CtxInv, Orderly, NEW u \in Users, AskSome(u), UNCHANGED ctxVars
  PROVE  u \in Crew /\ todo[u] = <<>> /\ Mild(u) /\ Onward(u) /\ WordsStored(u)'
<1>1. PICK op \in setup.ops \cap (DOMAIN Kind \cup DOMAIN Common), t \in Threads :
        Ask(u, op, t) /\ (t = setup.home[u] \/ setup.foreign)
  BY DEF AskSome
<1>2. setup.kind \in Sync \cup Async
  BY StoreAssumption DEF StoreAssumption, CtxInv, CallTypes
<1>3. /\ Shape(setup.kind, FALSE, Program(op)) /\ Len(Program(op)) > 0
      /\ \A i \in 1..Len(Program(op)) : Allows(op, Program(op)[i])
  BY <1>2, StorePrograms DEF StoreProgram
<1>4. PICK s \in Seq(Words) : s = Program(op)
  BY <1>3 DEF Shape
<1>5. PICK j : j = [op |-> op, tid |-> t, on |-> Nothing]
  OBVIOUS
<1>6. /\ job' = [job EXCEPT ![u] = j] /\ todo' = [todo EXCEPT ![u] = s] /\ rd' = [rd EXCEPT ![u] = Nothing]
      /\ todo[u] = <<>> /\ u \in Crew
      /\ UNCHANGED <<setup, conns, made, open, attr, pool>>
  BY <1>1, <1>4, <1>5 DEF Ask, storeVars, ctxVars, Crew
<1>7. /\ op = "close_all" => s = IF setup.kind \in Managers THEN <<"own", "shut", "sweep">> ELSE <<"walk", "sweep">>
      /\ op # "close_all" => /\ s[1] \notin {"shut", "store"}
                             /\ \A i \in 1..Len(s) : s[i] # "walk"
                             /\ \A i, k \in 1..Len(s) : s[i] = "own" => s[k] # "sweep"
  BY <1>2, <1>4, AskedWords
<1>8. s[1] \notin {"shut", "store"}
  BY <1>7
<1>9. ~Is(s, 1, "store") /\ ~Is(s, 1, "shut")
  BY <1>8 DEF Is
<1>10. Mild(u) /\ Onward(u) /\ todo'[u] = s /\ job'[u] = j
  BY <1>6, <1>9, StoredBegins
<1>11. job'[u].op = op /\ job'[u].tid = t
  BY <1>5, <1>10
<1>12. Len(s) \in 1..Len(s) /\ \A i \in 1..Len(s) : s[i] \in StoreSteps
  <2>1. \A i \in 1..Len(s) : s[i] \in StoreSteps
    BY <1>3, <1>4 DEF Shape, Fits
  <2> QED BY <1>3, <1>4, <2>1
<1>13. s[Len(s)] \notin {"clear_attr", "clear_pool"}
  BY <1>12 DEF StoreSteps
<1>14. op = "close_all" => Clearing(u)'
  <2> HAVE op = "close_all"
  <2>1. s \in {<<"own", "shut", "sweep">>, <<"walk", "sweep">>}
    BY <1>7
  <2>2. s # <<"shut", "sweep">> /\ s # <<"shut", "walk", "sweep">>
    BY <1>8
  <2> QED BY <1>10, <2>1, <2>2 DEF Clearing, Sweeps
<1>15. Says(u, "own")' => setup.kind \in Managers
  BY <1>3, <1>4, <1>10 DEF Says, Allows
<1>16. setup.kind \in Managers => t = setup.home[u]
  BY <1>1 DEF Orderly
<1>17. op # "close_all" => (Says(u, "own")' => ~Says(u, "sweep")') /\ ~Says(u, "walk")'
  BY <1>7, <1>10 DEF Says
<1>18. WordsStored(u)'
  BY <1>6, <1>9, <1>10, <1>11, <1>13, <1>14, <1>15, <1>16, <1>17 DEF WordsStored
<1> QED
  BY <1>6, <1>10, <1>18

-----------------------------------------------------------------------------
\* A step of close_all closes a connection or deletes entries; while it has not come to the end it still sweeps.
LEMMA ClearKeeps ==
  ASSUME CtxInv, Orderly, StoredCalm, NEW u \in Users, todo[u] # <<>>, job[u].op = "close_all",
         UNCHANGED <<setup, job, attr, pool, made>>, \A t \in Threads : conns'[t] \in {conns[t], Nothing},
         \A w \in Users \ {u} : todo'[w] = todo[w],
         todo'[u] # <<>> => Clearing(u)' /\ todo'[u] # <<"own", "shut", "sweep">>,
         \A t \in Threads : Closed(t)' => Sweeping(u)'
  PROVE  StoredCalm'
<1>1. Lone /\ \A w \in Users \ {u} : todo[w] = <<>>
  BY ClearsAlone
<1>2. Real' = Real /\ \A t \in Threads : conns'[t] \in Real => conns'[t] = conns[t]
  BY Unborn DEF Real
<1>3. Unique'
  BY <1>2 DEF StoredCalm, Unique
<1>4. AttrStored'
  BY <1>2 DEF StoredCalm, AttrStored, Does, Crew
<1>5. todo'[u] = <<>> \/ todo'[u] \in {<<"shut", "sweep">>, <<"walk", "sweep">>, <<"shut", "walk", "sweep">>, <<"sweep">>}
  BY DEF Clearing, Sweeps
<1>6. ASSUME NEW w \in Users
      PROVE  WordsStored(w)' /\ HoldStored(w)'
  <2>1. CASE w # u
    <3>1. todo'[w] = <<>>
      BY <1>1, <2>1
    <3>2. ~Is(todo'[w], 1, "store")
      BY <3>1 DEF Is
    <3> QED BY <3>1, <3>2 DEF WordsStored, HoldStored
  <2>2. CASE w = u
    <3>1. ~Is(todo'[u], 1, "store")
      BY <1>5 DEF Is
    <3>2. HoldStored(u)'
      BY <3>1 DEF HoldStored
    <3>3. todo'[u] # <<>> => todo'[u][Len(todo'[u])] = "sweep"
      <4>1. CASE todo'[u] \in {<<"shut", "sweep">>, <<"walk", "sweep">>}
        <5>1. Len(todo'[u]) = 2 /\ todo'[u][2] = "sweep"
          BY <4>1
        <5> QED BY <5>1
      <4>2. CASE todo'[u] = <<"shut", "walk", "sweep">>
        <5>1. Len(todo'[u]) = 3 /\ todo'[u][3] = "sweep"
          BY <4>2
        <5> QED BY <5>1
      <4>3. CASE todo'[u] = <<"sweep">>
        <5>1. Len(todo'[u]) = 1 /\ todo'[u][1] = "sweep"
          BY <4>3
        <5> QED BY <5>1
      <4> QED BY <1>5, <4>1, <4>2, <4>3
    <3>4. ~Says(u, "own")'
      <4>1. todo'[u] # <<>> => \A i \in 1..Len(todo'[u]) : todo'[u][i] \in {"shut", "walk", "sweep"}
        BY <1>5
      <4>2. todo'[u] = <<>> => \A i \in 1..Len(todo'[u]) : FALSE
        OBVIOUS
      <4> QED BY <4>1, <4>2 DEF Says
    <3>5. setup.kind \in Managers => job[u].tid = setup.home[u]
      BY DEF StoredCalm, WordsStored
    <3>6. WordsStored(u)'
      BY <3>3, <3>4, <3>5 DEF WordsStored
    <3> QED BY <2>2, <3>2, <3>6
  <2> QED BY <2>1, <2>2
<1>7. ClosedGo'
  BY DEF ClosedGo
<1> QED
  BY <1>3, <1>4, <1>6, <1>7 DEF StoredCalm

\* An iteration that has not begun has passed nothing.
LEMMA Unwalked ==
  ASSUME NEW u \in Users, walk'[u] = Nothing
  PROVE  \A t : ~Passed(u, t)'
<1>1. Place(u).at' = 1
  BY DEF Place
<1>2. \A j \in 1..Len(order') : ~(j < 1)
  OBVIOUS
<1> QED
  BY <1>1, <1>2 DEF Passed

\* What a call of close_all has to do at each of its steps.
LEMMA ClearsBy ==
  ASSUME CtxInv, StoredCalm, NEW u \in Users, NEW h, At(u, h), h # "none", job[u].op = "close_all"
  PROVE  /\ todo[u] # <<>> /\ todo[u][1] = h /\ h \in {"own", "shut", "walk", "sweep"}
         /\ h = "own" => todo[u] = <<"own", "shut", "sweep">> /\ setup.kind \in Managers
         /\ h = "walk" => todo[u] = <<"walk", "sweep">>
         /\ h = "sweep" => todo[u] = <<"sweep">>
         /\ h = "shut" => \/ todo[u] = <<"shut", "sweep">> /\ setup.kind \in Managers
                          \/ todo[u] = <<"shut", "walk", "sweep">> /\ walk[u] # Nothing
<1>1. todo[u] # <<>> /\ todo[u][1] = h /\ WordsStored(u) /\ Says(u, h)
  BY Front DEF StoredCalm
<1>2. Clearing(u) /\ (h = "own" => setup.kind \in Managers)
  BY <1>1 DEF WordsStored
<1>3. \/ todo[u] = <<"own", "shut", "sweep">> /\ h = "own"
      \/ todo[u] = <<"shut", "sweep">> /\ h = "shut" /\ setup.kind \in Managers
      \/ todo[u] = <<"walk", "sweep">> /\ h = "walk"
      \/ todo[u] = <<"shut", "walk", "sweep">> /\ h = "shut" /\ walk[u] # Nothing
      \/ todo[u] = <<"sweep">> /\ h = "sweep"
  BY <1>1, <1>2 DEF Clearing, Sweeps
<1> QED
  BY <1>1, <1>2, <1>3

\* A lone caller's iteration.
LEMMA ClearsCalmly ==
  ASSUME CtxInv, LoneInv, Orderly, StoredCalm, NEW u \in Users, todo[u] # <<>>, job[u].op = "close_all"
  PROVE  WalkCalm(u) /\ Awaited /\ Unchanged(u) /\ Place(u).size = Cardinality(Keys)
<1>1. Lone
  BY ClearsAlone
<1>2. WalkCalm(u) /\ Awaited
  BY <1>1 DEF LoneInv, LoneCalm, Calm
<1>3. Place(u).size = Cardinality(Keys)
  BY <1>2 DEF WalkCalm, Place
<1> QED
  BY <1>2, <1>3 DEF Unchanged

\* An SQLite manager looks for its connection.
LEMMA ClearOwn ==
  ASSUME CtxInv, LoneInv, Orderly, StoredCalm, NEW u \in Users, Own(u), job[u].op = "close_all",
         UNCHANGED <<setup, job, attr, pool>>
  PROVE  StoredCalm'
<1>1. At(u, "own") /\ "own" # "none" /\ UNCHANGED <<conns, made, walk>> /\ (Skip(u, 0) \/ Skip(u, 1))
  BY DEF Own, Go
<1>2. todo[u] # <<>> /\ todo[u][1] = "own" /\ todo[u] = <<"own", "shut", "sweep">> /\ setup.kind \in Managers
  BY <1>1, ClearsBy
<1>3. todo' = [todo EXCEPT ![u] = <<"shut", "sweep">>] \/ todo' = [todo EXCEPT ![u] = <<"sweep">>]
  <2>1. Drop(todo[u], 0 + 1) = <<"shut", "sweep">> /\ Drop(todo[u], 1 + 1) = <<"sweep">>
    BY <1>2, DropOfThree
  <2> QED BY <1>1, <2>1 DEF Skip, Continue, Proceed
<1>4. todo'[u] \in {<<"shut", "sweep">>, <<"sweep">>} /\ \A w \in Users \ {u} : todo'[w] = todo[w]
  BY <1>3, HeldApart
<1>5. walk'[u] = Nothing
  <2>1. WalkCalm(u)
    BY <1>2, ClearsCalmly
  <2>2. walk[u] = Nothing
    BY <1>2, <2>1 DEF WalkCalm
  <2> QED BY <1>1, <2>2
<1>6. Sweeping(u)'
  <2>1. \A t : ~Passed(u, t)'
    BY <1>5, Unwalked
  <2>2. todo'[u] # <<>>
    <3>1. Len(todo'[u]) >= 1
      BY <1>4
    <3>2. Len(<<>>) = 0
      OBVIOUS
    <3> QED BY <3>1, <3>2
  <2> QED BY <2>1, <2>2 DEF Sweeping
<1>7. Clearing(u)' /\ todo'[u] # <<"own", "shut", "sweep">>
  BY <1>2, <1>4 DEF Clearing, Sweeps
<1> QED
  BY <1>1, <1>2, <1>4, <1>6, <1>7, ClearKeeps

\* It closes the connection.
LEMMA ClearShut ==
  ASSUME CtxInv, LoneInv, Orderly, StoredCalm, NEW u \in Users, Shut(u), job[u].op = "close_all",
         UNCHANGED <<setup, job, attr, pool>>
  PROVE  StoredCalm'
<1>1. At(u, "shut") /\ "shut" # "none" /\ UNCHANGED <<conns, made>>
  BY DEF Shut
<1>2. /\ todo[u] # <<>> /\ todo[u][1] = "shut"
      /\ \/ todo[u] = <<"shut", "sweep">> /\ setup.kind \in Managers
         \/ todo[u] = <<"shut", "walk", "sweep">> /\ walk[u] # Nothing
  BY <1>1, ClearsBy
<1>3. WalkCalm(u) /\ Awaited
  BY <1>2, ClearsCalmly
<1>4. rd[u] # Coroutine \/ walk[u] # Nothing
  <2>1. setup.kind \in Managers => ~Resets
    BY DEF Resets, Managers
  <2> QED BY <1>2, <1>3, <2>1 DEF Awaited
<1>5. walk' = walk /\ Skip(u, 0)
  BY <1>4 DEF Shut, Go
<1>6. CASE todo[u] = <<"shut", "sweep">>
  <2>1. todo' = [todo EXCEPT ![u] = <<"sweep">>]
    <3>1. Drop(todo[u], 0 + 1) = <<"sweep">>
      BY <1>6, DropOfTwo
    <3> QED BY <1>5, <3>1 DEF Skip, Continue, Proceed
  <2>2. todo'[u] = <<"sweep">> /\ \A w \in Users \ {u} : todo'[w] = todo[w]
    BY <2>1, HeldApart
  <2>3. walk'[u] = Nothing
    <3>1. todo[u][2] # "walk" /\ todo[u][1] \notin {"walk", "sweep"}
      BY <1>6
    <3> QED BY <1>3, <1>5, <3>1 DEF WalkCalm
  <2>4. Sweeping(u)'
    <3>1. \A t : ~Passed(u, t)'
      BY <2>3, Unwalked
    <3>2. todo'[u] # <<>>
      BY <2>2
    <3> QED BY <3>1, <3>2 DEF Sweeping
  <2>5. Clearing(u)' /\ todo'[u] # <<"own", "shut", "sweep">>
    BY <2>2 DEF Clearing, Sweeps
  <2> QED BY <1>1, <1>2, <2>2, <2>4, <2>5, ClearKeeps
<1>7. CASE todo[u] = <<"shut", "walk", "sweep">>
  <2>1. todo' = [todo EXCEPT ![u] = <<"walk", "sweep">>]
    <3>1. Drop(todo[u], 0 + 1) = <<"walk", "sweep">>
      BY <1>7, DropOfThree
    <3> QED BY <1>5, <3>1 DEF Skip, Continue, Proceed
  <2>2. todo'[u] = <<"walk", "sweep">> /\ \A w \in Users \ {u} : todo'[w] = todo[w]
    BY <2>1, HeldApart
  <2>3. Sweeping(u)'
    <3>1. ~Is(todo'[u], 1, "sweep") /\ todo'[u] # <<>>
      BY <2>2 DEF Is
    <3> QED BY <3>1 DEF Sweeping
  <2>4. Clearing(u)' /\ todo'[u] # <<"own", "shut", "sweep">>
    BY <2>2 DEF Clearing, Sweeps
  <2> QED BY <1>1, <1>2, <2>2, <2>3, <2>4, ClearKeeps
<1> QED
  BY <1>2, <1>6, <1>7

\* Short lists one after the other.
LEMMA JoinOneTwo ==
  ASSUME NEW a, NEW b, NEW c
  PROVE  <<a>> \o <<b, c>> = <<a, b, c>>
<1> DEFINE S == {a, b, c}
<1>1. \A s, t \in Seq(S) : Len(s) = Len(t) /\ (\A i \in 1..Len(s) : s[i] = t[i]) => s = t
  BY SeqEqual
<1>2. a \in S /\ b \in S /\ c \in S
  OBVIOUS
<1> HIDE DEF S
<1>3. <<a>> \o <<b, c>> \in Seq(S) /\ <<a, b, c>> \in Seq(S)
  BY <1>2
<1>4. Len(<<a>> \o <<b, c>>) = 3 /\ Len(<<a, b, c>>) = 3
  OBVIOUS
<1>5. \A i \in 1..3 : (<<a>> \o <<b, c>>)[i] = <<a, b, c>>[i]
  OBVIOUS
<1> QED
  BY <1>1, <1>3, <1>4, <1>5

\* The number of the keys is a number.
LEMMA KeysCount ==
  ASSUME CtxInv
  PROVE  Cardinality(Keys) \in Nat
<1>1. order \in Seq(Threads \cup {Nothing})
  BY DEF CtxInv, KeyTypes
<1> DEFINE S == 1..Len(order)
          T == {order[i] : i \in S}
<1>2. IsFiniteSet(S)
  BY <1>1, FS_Interval
<1>3. [i \in S |-> order[i]] \in Surjection(S, T)
  BY DEF Surjection
<1>4. IsFiniteSet(T)
  BY <1>2, <1>3, FS_Surjection
<1>5. Keys \in SUBSET T
  BY <1>1 DEF Keys
<1> QED
  BY <1>4, <1>5, FS_Subset, FS_CardinalityType

\* It goes over the threads that have a connection.
LEMMA ClearWalk ==
  ASSUME CtxInv, LoneInv, Orderly, StoredCalm, NEW u \in Users, Walk(u), job[u].op = "close_all",
         UNCHANGED <<setup, job, attr, pool>>
  PROVE  StoredCalm'
<1>1. At(u, "walk") /\ "walk" # "none" /\ UNCHANGED <<conns, made>>
  BY DEF Walk, IterationEnds
<1>2. todo[u] # <<>> /\ todo[u][1] = "walk" /\ todo[u] = <<"walk", "sweep">>
  BY <1>1, ClearsBy
<1>3. Unchanged(u) /\ Place(u).size = Cardinality(Keys)
  BY <1>2, ClearsCalmly
<1>4. CASE IterationEnds(u)
  <2>1. Skip(u, 0) /\ walk' = [walk EXCEPT ![u] = Nothing]
    BY <1>3, <1>4 DEF IterationEnds, Go
  <2>2. todo' = [todo EXCEPT ![u] = <<"sweep">>]
    <3>1. Drop(todo[u], 0 + 1) = <<"sweep">>
      BY <1>2, DropOfTwo
    <3> QED BY <2>1, <3>1 DEF Skip, Continue, Proceed
  <2>3. walk'[u] = Nothing /\ todo'[u] = <<"sweep">> /\ \A w \in Users \ {u} : todo'[w] = todo[w]
    BY <2>1, <2>2, HeldApart
  <2>4. Sweeping(u)'
    <3>1. \A t : ~Passed(u, t)'
      BY <2>3, Unwalked
    <3>2. todo'[u] # <<>>
      BY <2>3
    <3> QED BY <3>1, <3>2 DEF Sweeping
  <2>5. Clearing(u)' /\ todo'[u] # <<"own", "shut", "sweep">>
    BY <2>3 DEF Clearing, Sweeps
  <2> QED BY <1>1, <1>2, <2>3, <2>4, <2>5, ClearKeeps
<1>5. CASE NextEntry(u) /\ Continue(u, <<"shut">> \o todo[u])
  <2>1. todo' = [todo EXCEPT ![u] = <<"shut", "walk", "sweep">>]
    <3>1. <<"shut">> \o todo[u] = <<"shut", "walk", "sweep">>
      BY <1>2, JoinOneTwo
    <3> QED BY <1>5, <3>1 DEF Continue, Proceed
  <2>2. walk' = [walk EXCEPT ![u] = [at |-> Visited(u) + 1, size |-> Place(u).size]]
    BY <1>5 DEF NextEntry
  <2>3. /\ walk'[u] = [at |-> Visited(u) + 1, size |-> Place(u).size] /\ todo'[u] = <<"shut", "walk", "sweep">>
        /\ \A w \in Users \ {u} : todo'[w] = todo[w]
    BY <2>1, <2>2, HeldApart
  <2>4. walk'[u] # Nothing
    <3>1. Visited(u) + 1 \in Nat
      BY <1>5, NextTypes
    <3>2. walk'[u] \in [at : Nat, size : Nat]
      BY <1>3, <2>3, <3>1, KeysCount
    <3> QED BY <3>2, WalkAssumption DEF WalkAssumption
  <2>5. Sweeping(u)'
    <3>1. ~Is(todo'[u], 1, "sweep") /\ todo'[u] # <<>>
      BY <2>3 DEF Is
    <3> QED BY <3>1 DEF Sweeping
  <2>6. Clearing(u)' /\ todo'[u] # <<"own", "shut", "sweep">>
    BY <2>3, <2>4 DEF Clearing, Sweeps
  <2> QED BY <1>1, <1>2, <2>3, <2>5, <2>6, ClearKeeps
<1> QED
  BY <1>4, <1>5 DEF Walk

\* It deletes the entries one by one: behind the last of them nothing is stored.
LEMMA ClearSweep ==
  ASSUME CtxInv, LoneInv, Orderly, StoredCalm, NEW u \in Users, Sweep(u), job[u].op = "close_all",
         UNCHANGED <<setup, job, attr, pool>>
  PROVE  StoredCalm'
<1>1. At(u, "sweep") /\ "sweep" # "none" /\ UNCHANGED <<order, made, open>> /\ Clears(u)
  BY DEF Sweep
<1>2. todo[u] # <<>> /\ todo[u][1] = "sweep" /\ todo[u] = <<"sweep">>
  BY <1>1, ClearsBy
<1>3. Unchanged(u)
  BY <1>2, ClearsCalmly
<1>4. ASSUME NEW t \in Threads, Closed(t)
      PROVE  \A s \in Threads : Passed(u, s) => conns[s] = Nothing
  <2>1. PICK w \in Users : Tends(w, t) \/ Sweeping(w)
    BY <1>4 DEF StoredCalm, ClosedGo
  <2>2. w = u
    <3>1. \A v \in Users \ {u} : todo[v] = <<>>
      BY <1>2, ClearsAlone
    <3> QED BY <2>1, <3>1 DEF Tends, Sweeping
  <2>3. Sweeping(u)
    BY <2>1, <2>2 DEF Tends
  <2>4. Is(todo[u], 1, "sweep")
    BY <1>2 DEF Is
  <2> QED BY <2>3, <2>4 DEF Sweeping
<1>5. CASE IterationEnds(u)
  <2>1. Skip(u, 0) /\ conns' = conns /\ Ahead(Place(u).at) = {}
    BY <1>3, <1>5 DEF IterationEnds, Go
  <2>2. todo' = [todo EXCEPT ![u] = <<>>]
    <3>1. Drop(todo[u], 0 + 1) = <<>>
      BY <1>2, DropOfOne
    <3> QED BY <2>1, <3>1 DEF Skip, Continue, Proceed
  <2>3. todo'[u] = <<>> /\ \A w \in Users \ {u} : todo'[w] = todo[w]
    BY <2>2, HeldApart
  <2>4. \A t \in Threads : ~Closed(t)'
    <3> SUFFICES ASSUME NEW t \in Threads, Closed(t)'
                 PROVE  FALSE
      OBVIOUS
    <3>1. Closed(t) /\ conns[t] # Nothing
      BY <1>1, <2>1, Unborn DEF Closed, Real
    <3>2. Passed(u, t)
      BY <2>1, <3>1, NotAhead
    <3> QED BY <1>4, <3>1, <3>2
  <2> QED BY <1>1, <1>2, <2>1, <2>3, <2>4, ClearKeeps
<1>6. CASE /\ NextEntry(u) /\ Continue(u, todo[u])
           /\ conns' = [conns EXCEPT ![order[Visited(u)]] = Nothing]
  <2>1. todo' = [todo EXCEPT ![u] = todo[u]] /\ order[Visited(u)] \in Threads
    BY <1>6, NextTypes DEF Continue, Proceed
  <2>2. (\A v \in Users : todo'[v] = todo[v]) /\ todo'[u] = <<"sweep">>
    BY <1>2, <2>1, HeldApart
  <2>3. \A s \in Threads : conns'[s] = IF s = order[Visited(u)] THEN Nothing ELSE conns[s]
    BY <1>6, <2>1, HeldApart
  <2>4. /\ Place(u).at \in Nat \ {0} /\ Visited(u) \in Nat \ {0}
        /\ \A j \in Ahead(Place(u).at) : Visited(u) <= j
    BY <1>6, PlaceIs, NextIs DEF NextEntry, Visited
  <2>5. walk'[u] = [at |-> Visited(u) + 1, size |-> Place(u).size]
    BY <1>6, HeldApart DEF NextEntry
  <2>6. ASSUME NEW t \in Threads, Closed(t)', NEW s \in Threads, Passed(u, s)'
        PROVE  conns'[s] = Nothing
    <3>1. Closed(t)
      <4>1. conns'[t] # Nothing
        BY <1>1, <2>6, Unborn DEF Closed, Real
      <4> QED BY <1>1, <2>3, <2>6, <4>1 DEF Closed, Real
    <3>2. PICK j \in 1..Len(order) : j < Place(u).at' /\ order[j] = s
      BY <1>1, <2>6 DEF Passed
    <3>3. j < Visited(u) + 1
      <4>1. Place(u).at' = Visited(u) + 1 \/ Place(u).at' = 1
        BY <2>5 DEF Place
      <4> QED BY <2>4, <3>2, <4>1
    <3>4. CASE j = Visited(u)
      BY <2>3, <3>2, <3>4
    <3>5. CASE j < Visited(u)
      <4>1. j \notin Ahead(Place(u).at)
        BY <2>4, <3>2, <3>5
      <4>2. CASE j < Place(u).at
        <5>1. conns[s] = Nothing
          BY <1>4, <3>1, <3>2, <4>2 DEF Passed
        <5> QED BY <2>3, <5>1
      <4>3. CASE ~(j < Place(u).at)
        <5>1. j \in Place(u).at..Len(order) /\ order[j] # Nothing
          BY <2>4, <3>2, <4>3, StoreAssumption DEF StoreAssumption
        <5>2. conns[s] = Nothing
          BY <3>2, <4>1, <5>1 DEF Ahead
        <5> QED BY <2>3, <5>2
      <4> QED BY <4>2, <4>3
    <3> QED BY <2>4, <3>2, <3>3, <3>4, <3>5
  <2>7. \A t \in Threads : Closed(t)' => Sweeping(u)'
    <3>1. todo'[u] # <<>> /\ job'[u].op = "close_all"
      BY <2>2
    <3> QED BY <2>6, <3>1 DEF Sweeping
  <2>8. Clearing(u)' /\ todo'[u] # <<"own", "shut", "sweep">>
    BY <2>2 DEF Clearing, Sweeps
  <2> QED BY <1>1, <1>2, <2>2, <2>3, <2>7, <2>8, ClearKeeps
<1> QED
  BY <1>1, <1>5, <1>6 DEF Clears

\* A step of close_all.
LEMMA ClearSteps ==
  ASSUME CtxInv, LoneInv, Orderly, StoredCalm, NEW u \in Users, StoreStepHere(u), job[u].op = "close_all"
  PROVE  StoredCalm'
<1>1. UNCHANGED <<setup, job, attr, pool>> /\ StoreStep(u)
  BY DEF StoreStepHere, StoreStep
<1>2. \A h : At(u, h) /\ h # "none" => h \in {"own", "shut", "walk", "sweep"}
  BY ClearsBy
<1>3. Own(u) \/ Shut(u) \/ Walk(u) \/ Sweep(u)
  <2>1. ~Lookup(u) /\ ~Connect(u) /\ ~ConnectFails(u) /\ ~Store(u) /\ ~Promise(u)
    BY <1>2 DEF Lookup, Connect, ConnectFails, Store, Promise
  <2>2. ~Seek(u) /\ ~Delete(u) /\ ~DropThread(u) /\ ~Purge(u)
    BY <1>2 DEF Seek, Delete, DropThread, Purge
  <2> QED BY <1>1, <2>1, <2>2 DEF StoreStep
<1> QED
  BY <1>1, <1>3, ClearOwn, ClearShut, ClearWalk, ClearSweep

-----------------------------------------------------------------------------
\* Where nothing happens all stays as it is.
LEMMA StoredStays ==
  ASSUME StoredCalm, UNCHANGED allVars
  PROVE  StoredCalm'
<1>1. UNCHANGED <<setup, order, conns, made, open, job, todo, rd, walk, attr, pool>>
  BY DEF allVars, vars, ctxVars, storeVars
<1>2. Unique'
  BY <1>1 DEF StoredCalm, Unique, Real
<1>3. AttrStored'
  BY <1>1 DEF StoredCalm, AttrStored, Real, Does, Crew
<1>4. ASSUME NEW u \in Users
      PROVE  WordsStored(u)' /\ HoldStored(u)'
  <2>1. WordsStored(u) /\ HoldStored(u)
    BY DEF StoredCalm
  <2>2. WordsStored(u)'
    BY <1>1, <2>1 DEF WordsStored, Clearing, Says
  <2>3. HoldStored(u)'
    BY <1>1, <2>1 DEF HoldStored, Real
  <2> QED BY <2>2, <2>3
<1>5. ASSUME NEW t \in Threads, Closed(t)'
      PROVE  \E u \in Users : Tends(u, t)' \/ Sweeping(u)'
  <2>1. Closed(t)
    BY <1>1, <1>5 DEF Closed, Real
  <2>2. PICK u \in Users : Tends(u, t) \/ Sweeping(u)
    BY <2>1 DEF StoredCalm, ClosedGo
  <2>3. Tends(u, t) => Tends(u, t)'
    BY <1>1 DEF Tends
  <2>4. \A s : Passed(u, s)' <=> Passed(u, s)
    BY <1>1 DEF Passed, Place, Keys
  <2>5. Sweeping(u) => Sweeping(u)'
    BY <1>1, <2>4 DEF Sweeping
  <2> QED BY <2>2, <2>3, <2>5
<1>6. ClosedGo'
  BY <1>5 DEF ClosedGo
<1> QED
  BY <1>2, <1>3, <1>4, <1>6 DEF StoredCalm

\* Every step leaves in the store what is open, or has somebody who will delete it.
LEMMA StoredStep ==
  ASSUME CtxInv, LoneInv, StoredInv, [CtxNext]_allVars
  PROVE  StoredInv'
<1>1. setup' = setup
  BY DEF CtxNext, AskSome, Ask, CtxAsk, StoreStepHere, StoreStep, AdapterStep, ShutAttr, WrapperStep, GetAdapter,
         SharedAdapter, Make, Install, Share, Unset, VirtEnterStep, EnteredStep, VirtExitStep, ExitedStep, allVars, vars
<1>2. Orderly' = Orderly
  BY <1>1 DEF Orderly, OneHome, Lone, Does, Crew
<1>3. SUFFICES ASSUME Orderly, StoredCalm
               PROVE  StoredCalm'
  BY <1>2 DEF StoredInv
<1>4. CASE UNCHANGED allVars
  BY <1>3, <1>4, StoredStays
<1>5. ASSUME NEW u \in Users, AskSome(u) /\ UNCHANGED ctxVars
      PROVE  StoredCalm'
  BY <1>1, <1>3, <1>5, StoredAsk, MildKeeps
<1>6. ASSUME NEW u \in Users, setup.kind \in Wrapped, NEW op \in setup.ops \cap CtxOps, CtxAsk(u, op)
      PROVE  StoredCalm'
  BY <1>1, <1>3, <1>6, StoredCtxAsk, MildKeeps
<1>7. ASSUME NEW u \in Users, AdapterStep(u) \/ WrapperStep(u)
      PROVE  StoredCalm'
  BY <1>1, <1>3, <1>7, StoredAdapter, StoredWrapper, MildKeeps
<1>8. ASSUME NEW u \in Users, StoreStepHere(u)
      PROVE  StoredCalm'
  <2>1. CASE job[u].op = "close_all"
    BY <1>3, <1>8, <2>1, ClearSteps
  <2>2. CASE job[u].op # "close_all"
    BY <1>1, <1>3, <1>8, <2>2, StoredSteps, MildKeeps
  <2> QED BY <2>1, <2>2
<1> QED
  BY <1>4, <1>5, <1>6, <1>7, <1>8 DEF CtxNext

\* Nothing is stored at the start.
LEMMA StoredStart ==
  ASSUME Init
  PROVE  StoredInv
<1>1. StoreInit /\ CtxInit
  BY DEF Init
<1>2. made = 0 /\ \A t \in Threads : conns[t] = Nothing
  BY <1>1 DEF StoreInit
<1>3. Real = {}
  BY <1>2 DEF Real
<1>4. \A t \in Threads : conns[t] \notin Real
  BY <1>3
<1>5. Unique /\ AttrStored /\ ClosedGo
  BY <1>4 DEF Unique, AttrStored, ClosedGo, Closed
<1>6. ASSUME NEW u \in Users
      PROVE  WordsStored(u) /\ HoldStored(u)
  <2>1. todo[u] = <<>>
    BY <1>1 DEF StoreInit
  <2>2. ~Is(todo[u], 1, "store")
    BY <2>1 DEF Is
  <2> QED BY <2>1, <2>2 DEF WordsStored, HoldStored
<1> QED
  BY <1>5, <1>6 DEF StoredInv, StoredCalm

\* Who is about to delete an entry has the deletion before it, and close_all its sweep.
LEMMA DeletesSoon ==
  ASSUME CtxInv, NEW u \in Users, WordsStored(u)
  PROVE  /\ \A t \in Threads : Tends(u, t) => job[u].tid = t /\ \E i \in DOMAIN todo[u] : todo[u][i] = "delete"
         /\ Sweeping(u) => job[u].op = "close_all" /\ \E i \in DOMAIN todo[u] : todo[u][i] = "sweep"
<1>1. todo[u] \in Seq(Words)
  BY DEF CtxInv, CallTypes
<1>2. ASSUME NEW t \in Threads, Tends(u, t)
      PROVE  \E i \in 1..Len(todo[u]) : todo[u][i] = "delete"
  <2>1. /\ todo[u] # <<>> /\ job[u].op # "close_all" /\ todo[u][1] \in Tending \cup {"shut"}
        /\ Shape(setup.kind, InCtx(u), todo[u]) /\ Len(todo[u]) \in Nat \ {0}
    <3>1. todo[u] # <<>> /\ job[u].op # "close_all" /\ todo[u][1] \in Tending \cup {"shut"}
      BY <1>2 DEF Tends
    <3> QED BY <1>1, <3>1 DEF CtxInv, Under
  <2>2. \A i \in 1..Len(todo[u]) : todo[u][i] = "seek" => \E k \in 1..Len(todo[u]) : todo[u][k] = "delete"
    <3> SUFFICES ASSUME NEW i \in 1..Len(todo[u]), todo[u][i] = "seek"
                 PROVE  \E k \in 1..Len(todo[u]) : todo[u][k] = "delete"
      OBVIOUS
    <3>1. i + 2 <= Len(todo[u]) /\ todo[u][i + 2] = "delete"
      BY <2>1 DEF Shape, Fits, Pair, Looks
    <3>2. i + 2 \in 1..Len(todo[u])
      BY <2>1, <3>1
    <3> QED BY <3>1, <3>2
  <2>3. \A i \in 1..Len(todo[u]) : todo[u][i] \in {"clear_attr", "clear_pool"} =>
          /\ i + 1 \in 1..Len(todo[u])
          /\ todo[u][i + 1] \in (IF todo[u][i] = "clear_attr" THEN {"clear_pool", "seek"} ELSE {"seek"})
    <3> SUFFICES ASSUME NEW i \in 1..Len(todo[u]), todo[u][i] \in {"clear_attr", "clear_pool"}
                 PROVE  /\ i + 1 \in 1..Len(todo[u])
                        /\ todo[u][i + 1] \in (IF todo[u][i] = "clear_attr" THEN {"clear_pool", "seek"} ELSE {"seek"})
      OBVIOUS
    <3>1. i # Len(todo[u])
      BY <2>1 DEF WordsStored
    <3>2. i < Len(todo[u]) /\ i + 1 \in 1..Len(todo[u])
      BY <2>1, <3>1
    <3>3. Follows(InCtx(u), todo[u][i], todo[u][i + 1])
      BY <2>1, <3>2 DEF Shape
    <3> QED BY <3>2, <3>3 DEF Follows
  <2>4. 1 \in 1..Len(todo[u])
    BY <2>1
  <2>5. CASE todo[u][1] = "delete"
    BY <2>4, <2>5
  <2>6. CASE todo[u][1] = "seek"
    BY <2>2, <2>4, <2>6
  <2>7. CASE todo[u][1] \in {"clear_attr", "clear_pool"}
    <3>1. PICK k \in 1..Len(todo[u]) : todo[u][k] \in {"clear_pool", "seek"}
      BY <2>3, <2>4, <2>7
    <3>2. PICK n \in 1..Len(todo[u]) : todo[u][n] = "seek"
      BY <2>3, <3>1
    <3> QED BY <2>2, <3>2
  <2>8. CASE todo[u][1] = "shut"
    <3>1. Is(todo[u], 1, "shut")
      BY <2>1, <2>8 DEF Is
    <3>2. Is(todo[u], 2, "delete")
      BY <2>1, <3>1 DEF WordsStored
    <3>3. 2 \in 1..Len(todo[u]) /\ todo[u][2] = "delete"
      BY <2>1, <3>2 DEF Is
    <3> QED BY <3>3
  <2> QED BY <2>1, <2>5, <2>6, <2>7, <2>8 DEF Tending
<1>3. ASSUME Sweeping(u)
      PROVE  \E i \in 1..Len(todo[u]) : todo[u][i] = "sweep"
  <2>1. todo[u] \in Sweeps
    BY <1>3 DEF Sweeping, WordsStored, Clearing
  <2>2. CASE todo[u] \in {<<"own", "shut", "sweep">>, <<"shut", "walk", "sweep">>}
    <3>1. 3 \in 1..Len(todo[u]) /\ todo[u][3] = "sweep"
      BY <2>2
    <3> QED BY <3>1
  <2>3. CASE todo[u] \in {<<"shut", "sweep">>, <<"walk", "sweep">>}
    <3>1. 2 \in 1..Len(todo[u]) /\ todo[u][2] = "sweep"
      BY <2>3
    <3> QED BY <3>1
  <2>4. CASE todo[u] = <<"sweep">>
    <3>1. 1 \in 1..Len(todo[u]) /\ todo[u][1] = "sweep"
      BY <2>4
    <3> QED BY <3>1
  <2> QED BY <2>1, <2>2, <2>3, <2>4 DEF Sweeps
<1>4. DOMAIN todo[u] = 1..Len(todo[u])
  BY <1>1
<1>5. (\A t \in Threads : Tends(u, t) => job[u].tid = t) /\ (Sweeping(u) => job[u].op = "close_all")
  BY DEF Tends, Sweeping
<1> QED
  BY <1>2, <1>3, <1>4, <1>5

\* Whoever calls what at the same time: a connection that is closed and still stored has a caller under way who
\* deletes the entry of that thread, or goes over all of them.
THEOREM ClosedAreDeleted == Spec => []StoredIsOpen
<1>1. Init => CtxInv /\ LoneInv /\ StoredInv
  BY CtxStart, LoneStart, StoredStart
<1>2. CtxInv /\ LoneInv /\ StoredInv /\ [CtxNext]_allVars => (CtxInv /\ LoneInv /\ StoredInv)'
  BY CtxStep, LoneStep, StoredStep
<1>3. CtxInv /\ StoredInv => StoredIsOpen
  <2> SUFFICES ASSUME CtxInv, StoredInv, Orderly, NEW t \in Threads, conns[t] \in 1..made \ open
               PROVE  \E u \in Users : \E i \in DOMAIN todo[u] : \/ todo[u][i] = "delete" /\ job[u].tid = t
                                                                 \/ todo[u][i] = "sweep" /\ job[u].op = "close_all"
    BY DEF StoredIsOpen, Orderly, OneHome
  <2>1. StoredCalm /\ Closed(t)
    BY DEF StoredInv, Closed, Real
  <2>2. PICK u \in Users : Tends(u, t) \/ Sweeping(u)
    BY <2>1 DEF StoredCalm, ClosedGo
  <2>3. WordsStored(u)
    BY <2>1 DEF StoredCalm
  <2> QED BY <2>2, <2>3, DeletesSoon
<1> QED
  BY <1>1, <1>2, <1>3, PTL DEF Spec

=============================================================================
