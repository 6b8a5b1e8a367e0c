------------------------- MODULE Connections_proofs -------------------------
(***************************************************************************)
(* KeepsItsOwn of CacheContexts, for any number of threads and calls.  The *)
(* argument: where every caller has a thread to itself and no call reaches *)
(* other threads, no two callers have the same connection in the store or  *)
(* about to be stored, so that closing one's own closes nobody else's; and *)
(* what is in a thread's store is open, except between the closing and the *)
(* deletion of a call on that thread.                                      *)
(*                                                                         *)
(* Then the types, LoneNeverFails and NothingLost, for the wrapper too:    *)
(* from the shape of the programs that the calls run.  Nothing is lost, as *)
(* a step gives up a place only when what is there is open no more, or has *)
(* another: what a call has still to do tells which (Tended).              *)
(***************************************************************************)
EXTENDS CacheContexts, SequenceTheorems, WellFoundedInduction, TLAPS

\* What a call on the store may have left to do.
Getting == {"get", "reset", "configure"}

Gets == {<<"store">>, <<"connect", "store">>, <<"lookup", "connect", "store">>}
Closes == {<<"delete">>, <<"shut", "delete">>, <<"seek", "shut", "delete">>, <<"own", "shut", "delete">>}
Resetting ==
  {<<"delete", "connect", "store">>, <<"shut", "delete", "connect", "store">>,
   <<"seek", "shut", "delete", "connect", "store">>,
   <<"delete", "lookup", "connect", "store">>, <<"shut", "delete", "lookup", "connect", "store">>,
   <<"seek", "shut", "delete", "lookup", "connect", "store">>}

RestOK(op, rest) ==
  \/ rest = <<>>
  \/ op \in Getting /\ rest \in Gets \cup Resetting
  \/ op = "close" /\ rest \in Closes
  \/ op = "new" /\ rest = <<"connect">>

\* The connections of a caller: the one in its thread's store, and the one it is about
\* to store.
Stored(u) == conns[setup.home[u]]
Mine(u) == ({Stored(u)} \cup (IF Step(u) = "store" THEN {rd[u]} ELSE {})) \ {Nothing}

CallerOK(u) ==
  /\ RestOK(job[u].op, todo[u])
  /\ todo[u] # <<>> => job[u].tid = setup.home[u]
  /\ Mine(u) \subseteq 1..made
  /\ Step(u) # "delete" => Mine(u) \subseteq open
  /\ Step(u) = "shut" => rd[u] = Stored(u)
  /\ Step(u) = "store" => rd[u] # Nothing
  /\ todo[u] = <<>> /\ job[u].op \in Getting /\ answer[u] # Raised =>
       Stored(u) = answer[u].conn /\ Stored(u) # Nothing

Types ==
  /\ setup \in Setups
  /\ conns \in [Threads -> Int \cup {Nothing}] /\ rd \in [Users -> Int \cup {Nothing}]
  /\ made \in Nat /\ open \subseteq 1..made
  /\ DOMAIN todo = Users /\ DOMAIN job = Users /\ DOMAIN answer = Users

\* Where callers keep to their own threads each is in order, and no two have the same
\* connection.
Apart ==
  /\ Types
  /\ \A u \in Users \ Crew : todo[u] = <<>>
  /\ \A u \in Crew : CallerOK(u)
  /\ \A u, w \in Crew : u # w => Mine(u) \cap Mine(w) = {}

OwnInv == setup \in Setups /\ (Separate /\ ~Resets => Apart)

-----------------------------------------------------------------------------

\* What is left of a short sequence without its first elements.
LEMMA DropOfOne ==
  ASSUME NEW a
  PROVE  Drop(<<a>>, 1) = <<>>
<1> DEFINE S == {a}
<1>1. a \in S
  OBVIOUS
<1> HIDE DEF S
<1>2. Drop(<<a>>, 1) = <<>>
  <2>1. <<a>> \in Seq(S) /\ <<>> \in Seq(S) /\ Len(<<a>>) = 1 /\ Len(<<>>) = 0
    BY <1>1
  <2>2. Drop(<<a>>, 1) \in Seq(S) /\ Len(Drop(<<a>>, 1)) = 0
    BY <2>1 DEF Drop
  <2> QED BY <2>2
<1> QED BY <1>2

\* The same for two steps.
LEMMA DropOfTwo ==
  ASSUME NEW a, NEW b
  PROVE  Drop(<<a, b>>, 1) = <<b>>
<1> DEFINE S == {a, b}
<1>1. a \in S /\ b \in S
  OBVIOUS
<1> HIDE DEF S
<1>2. Drop(<<a, b>>, 1) = <<b>>
  <2>1. <<a, b>> \in Seq(S) /\ <<b>> \in Seq(S) /\ Len(<<a, b>>) = 2 /\ Len(<<b>>) = 1
    BY <1>1
  <2>2. /\ Drop(<<a, b>>, 1) \in Seq(S) /\ Len(Drop(<<a, b>>, 1)) = 1
        /\ \A i \in 1..1 : Drop(<<a, b>>, 1)[i] = <<a, b>>[i + 1]
    BY <2>1 DEF Drop
  <2>3. \A i \in 1..1 : <<a, b>>[i + 1] = <<b>>[i]
    OBVIOUS
  <2> QED BY <2>1, <2>2, <2>3, SeqEqual
<1> QED BY <1>2

\* The same for three.
LEMMA DropOfThree ==
  ASSUME NEW a, NEW b, NEW c
  PROVE  Drop(<<a, b, c>>, 1) = <<b, c>> /\ Drop(<<a, b, c>>, 2) = <<c>> /\ Drop(<<a, b, c>>, 3) = <<>>
<1> DEFINE S == {a, b, c}
<1>1. a \in S /\ b \in S /\ c \in S
  OBVIOUS
<1> HIDE DEF S
<1>2. Drop(<<a, b, c>>, 1) = <<b, c>>
  <2>1. <<a, b, c>> \in Seq(S) /\ <<b, c>> \in Seq(S) /\ Len(<<a, b, c>>) = 3 /\ Len(<<b, c>>) = 2
    BY <1>1
  <2>2. /\ Drop(<<a, b, c>>, 1) \in Seq(S) /\ Len(Drop(<<a, b, c>>, 1)) = 2
        /\ \A i \in 1..2 : Drop(<<a, b, c>>, 1)[i] = <<a, b, c>>[i + 1]
    BY <2>1 DEF Drop
  <2>3. \A i \in 1..2 : <<a, b, c>>[i + 1] = <<b, c>>[i]
    OBVIOUS
  <2> QED BY <2>1, <2>2, <2>3, SeqEqual
<1>3. Drop(<<a, b, c>>, 2) = <<c>>
  <2>1. <<a, b, c>> \in Seq(S) /\ <<c>> \in Seq(S) /\ Len(<<a, b, c>>) = 3 /\ Len(<<c>>) = 1
    BY <1>1
  <2>2. /\ Drop(<<a, b, c>>, 2) \in Seq(S) /\ Len(Drop(<<a, b, c>>, 2)) = 1
        /\ \A i \in 1..1 : Drop(<<a, b, c>>, 2)[i] = <<a, b, c>>[i + 2]
    BY <2>1 DEF Drop
  <2>3. \A i \in 1..1 : <<a, b, c>>[i + 2] = <<c>>[i]
    OBVIOUS
  <2> QED BY <2>1, <2>2, <2>3, SeqEqual
<1>4. Drop(<<a, b, c>>, 3) = <<>>
  <2>1. <<a, b, c>> \in Seq(S) /\ <<>> \in Seq(S) /\ Len(<<a, b, c>>) = 3 /\ Len(<<>>) = 0
    BY <1>1
  <2>2. Drop(<<a, b, c>>, 3) \in Seq(S) /\ Len(Drop(<<a, b, c>>, 3)) = 0
    BY <2>1 DEF Drop
  <2> QED BY <2>2
<1> QED BY <1>2, <1>3, <1>4

\* The same for four.
LEMMA DropOfFour ==
  ASSUME NEW a, NEW b, NEW c, NEW d
  PROVE  Drop(<<a, b, c, d>>, 1) = <<b, c, d>>
<1> DEFINE S == {a, b, c, d}
<1>1. a \in S /\ b \in S /\ c \in S /\ d \in S
  OBVIOUS
<1> HIDE DEF S
<1>2. Drop(<<a, b, c, d>>, 1) = <<b, c, d>>
  <2>1. <<a, b, c, d>> \in Seq(S) /\ <<b, c, d>> \in Seq(S) /\ Len(<<a, b, c, d>>) = 4 /\ Len(<<b, c, d>>) = 3
    BY <1>1
  <2>2. /\ Drop(<<a, b, c, d>>, 1) \in Seq(S) /\ Len(Drop(<<a, b, c, d>>, 1)) = 3
        /\ \A i \in 1..3 : Drop(<<a, b, c, d>>, 1)[i] = <<a, b, c, d>>[i + 1]
    BY <2>1 DEF Drop
  <2>3. \A i \in 1..3 : <<a, b, c, d>>[i + 1] = <<b, c, d>>[i]
    OBVIOUS
  <2> QED BY <2>1, <2>2, <2>3, SeqEqual
<1> QED BY <1>2

\* The same for five.
LEMMA DropOfFive ==
  ASSUME NEW a, NEW b, NEW c, NEW d, NEW e
  PROVE  Drop(<<a, b, c, d, e>>, 1) = <<b, c, d, e>> /\ Drop(<<a, b, c, d, e>>, 3) = <<d, e>>
<1> DEFINE S == {a, b, c, d, e}
<1>1. a \in S /\ b \in S /\ c \in S /\ d \in S /\ e \in S
  OBVIOUS
<1> HIDE DEF S
<1>2. Drop(<<a, b, c, d, e>>, 1) = <<b, c, d, e>>
  <2>1. <<a, b, c, d, e>> \in Seq(S) /\ <<b, c, d, e>> \in Seq(S) /\ Len(<<a, b, c, d, e>>) = 5 /\ Len(<<b, c, d, e>>) = 4
    BY <1>1
  <2>2. /\ Drop(<<a, b, c, d, e>>, 1) \in Seq(S) /\ Len(Drop(<<a, b, c, d, e>>, 1)) = 4
        /\ \A i \in 1..4 : Drop(<<a, b, c, d, e>>, 1)[i] = <<a, b, c, d, e>>[i + 1]
    BY <2>1 DEF Drop
  <2>3. \A i \in 1..4 : <<a, b, c, d, e>>[i + 1] = <<b, c, d, e>>[i]
    OBVIOUS
  <2> QED BY <2>1, <2>2, <2>3, SeqEqual
<1>3. Drop(<<a, b, c, d, e>>, 3) = <<d, e>>
  <2>1. <<a, b, c, d, e>> \in Seq(S) /\ <<d, e>> \in Seq(S) /\ Len(<<a, b, c, d, e>>) = 5 /\ Len(<<d, e>>) = 2
    BY <1>1
  <2>2. /\ Drop(<<a, b, c, d, e>>, 3) \in Seq(S) /\ Len(Drop(<<a, b, c, d, e>>, 3)) = 2
        /\ \A i \in 1..2 : Drop(<<a, b, c, d, e>>, 3)[i] = <<a, b, c, d, e>>[i + 3]
    BY <2>1 DEF Drop
  <2>3. \A i \in 1..2 : <<a, b, c, d, e>>[i + 3] = <<d, e>>[i]
    OBVIOUS
  <2> QED BY <2>1, <2>2, <2>3, SeqEqual
<1> QED BY <1>2, <1>3

\* The same for six.
LEMMA DropOfSix ==
  ASSUME NEW a, NEW b, NEW c, NEW d, NEW e, NEW f
  PROVE  Drop(<<a, b, c, d, e, f>>, 1) = <<b, c, d, e, f>> /\ Drop(<<a, b, c, d, e, f>>, 3) = <<d, e, f>>
<1> DEFINE S == {a, b, c, d, e, f}
<1>1. a \in S /\ b \in S /\ c \in S /\ d \in S /\ e \in S /\ f \in S
  OBVIOUS
<1> HIDE DEF S
<1>2. Drop(<<a, b, c, d, e, f>>, 1) = <<b, c, d, e, f>>
  <2>1. <<a, b, c, d, e, f>> \in Seq(S) /\ <<b, c, d, e, f>> \in Seq(S) /\ Len(<<a, b, c, d, e, f>>) = 6 /\ Len(<<b, c, d, e, f>>) = 5
    BY <1>1
  <2>2. /\ Drop(<<a, b, c, d, e, f>>, 1) \in Seq(S) /\ Len(Drop(<<a, b, c, d, e, f>>, 1)) = 5
        /\ \A i \in 1..5 : Drop(<<a, b, c, d, e, f>>, 1)[i] = <<a, b, c, d, e, f>>[i + 1]
    BY <2>1 DEF Drop
  <2>3. \A i \in 1..5 : <<a, b, c, d, e, f>>[i + 1] = <<b, c, d, e, f>>[i]
    OBVIOUS
  <2> QED BY <2>1, <2>2, <2>3, SeqEqual
<1>3. Drop(<<a, b, c, d, e, f>>, 3) = <<d, e, f>>
  <2>1. <<a, b, c, d, e, f>> \in Seq(S) /\ <<d, e, f>> \in Seq(S) /\ Len(<<a, b, c, d, e, f>>) = 6 /\ Len(<<d, e, f>>) = 3
    BY <1>1
  <2>2. /\ Drop(<<a, b, c, d, e, f>>, 3) \in Seq(S) /\ Len(Drop(<<a, b, c, d, e, f>>, 3)) = 3
        /\ \A i \in 1..3 : Drop(<<a, b, c, d, e, f>>, 3)[i] = <<a, b, c, d, e, f>>[i + 3]
    BY <2>1 DEF Drop
  <2>3. \A i \in 1..3 : <<a, b, c, d, e, f>>[i + 3] = <<d, e, f>>[i]
    OBVIOUS
  <2> QED BY <2>1, <2>2, <2>3, SeqEqual
<1> QED BY <1>2, <1>3

\* Short sequences one after the other.
LEMMA JoinTwo ==
  ASSUME NEW a, NEW b, NEW c, NEW d, NEW e
  PROVE  <<a, b, c>> \o <<d, e>> = <<a, b, c, d, e>>
<1> DEFINE S == {a, b, c, d, e}
<1>1. ASSUME NEW s \in Seq(S), NEW t \in Seq(S), Len(s) = Len(t), \A i \in 1..Len(s) : s[i] = t[i]
      PROVE  s = t
  BY <1>1, SeqEqual
<1>2. a \in S /\ b \in S /\ c \in S /\ d \in S /\ e \in S
  OBVIOUS
<1> HIDE DEF S
<1>3. <<a, b, c>> \o <<d, e>> \in Seq(S) /\ <<a, b, c, d, e>> \in Seq(S)
  BY <1>2
<1>4. Len(<<a, b, c>> \o <<d, e>>) = 5 /\ Len(<<a, b, c, d, e>>) = 5
  OBVIOUS
<1>5. \A i \in 1..5 : (<<a, b, c>> \o <<d, e>>)[i] = <<a, b, c, d, e>>[i]
  OBVIOUS
<1> QED
  BY <1>1, <1>3, <1>4, <1>5

\* The same, with a longer one behind.
LEMMA JoinThree ==
  ASSUME NEW a, NEW b, NEW c, NEW d, NEW e, NEW f
  PROVE  <<a, b, c>> \o <<d, e, f>> = <<a, b, c, d, e, f>>
<1> DEFINE S == {a, b, c, d, e, f}
<1>1. ASSUME NEW s \in Seq(S), NEW t \in Seq(S), Len(s) = Len(t), \A i \in 1..Len(s) : s[i] = t[i]
      PROVE  s = t
  BY <1>1, SeqEqual
<1>2. a \in S /\ b \in S /\ c \in S /\ d \in S /\ e \in S /\ f \in S
  OBVIOUS
<1> HIDE DEF S
<1>3. <<a, b, c>> \o <<d, e, f>> \in Seq(S) /\ <<a, b, c, d, e, f>> \in Seq(S)
  BY <1>2
<1>4. Len(<<a, b, c>> \o <<d, e, f>>) = 6 /\ Len(<<a, b, c, d, e, f>>) = 6
  OBVIOUS
<1>5. \A i \in 1..6 : (<<a, b, c>> \o <<d, e, f>>)[i] = <<a, b, c, d, e, f>>[i]
  OBVIOUS
<1> QED
  BY <1>1, <1>3, <1>4, <1>5

\* A call goes on with the steps in rest, and returns with the connection it holds when
\* there are none; or it raises.
Goes(u, rest) ==
  /\ todo' = [todo EXCEPT ![u] = rest]
  /\ answer' = IF rest = <<>> THEN [answer EXCEPT ![u] = Returned(rd'[u])] ELSE answer

\* A call goes on with the rest of its program.
LEMMA Moves ==
  ASSUME NEW u, NEW n \in Nat
  PROVE  /\ Skip(u, n) => Goes(u, Drop(todo[u], n + 1))
         /\ Go(u) => Goes(u, Drop(todo[u], 1))
BY DEF Go, Skip, Continue, Proceed, Goes

\* A step of u leaves what the others have, except that it may close one of its own.
LEMMA OthersStay ==
  ASSUME Types, NEW u \in Crew, NEW w \in Crew, w # u, CallerOK(w), Separate,
         Mine(u) \cap Mine(w) = {},
         setup' = setup, todo'[w] = todo[w], rd'[w] = rd[w], job'[w] = job[w], answer'[w] = answer[w],
         conns'[setup.home[w]] = conns[setup.home[w]], made' \in {made, made + 1},
         open \subseteq open' \cup Mine(u)
  PROVE  CallerOK(w)' /\ Mine(w)' = Mine(w)
<1>1. Step(w)' = Step(w)
  BY DEF Step
<1>2. Stored(w)' = Stored(w) /\ Mine(w)' = Mine(w)
  BY <1>1 DEF Stored, Mine
<1>3. made \in Nat
  BY DEF Types
<1>4. Mine(w)' \subseteq 1..made'
  BY <1>2, <1>3 DEF CallerOK
<1>5. Step(w)' # "delete" => Mine(w)' \subseteq open'
  BY <1>1, <1>2 DEF CallerOK
<1> QED
  BY <1>1, <1>2, <1>4, <1>5 DEF CallerOK

\* In a setup where every caller has a thread to itself, the calls are those on the
\* store that reach only the caller's own thread.
LEMMA Asks ==
  ASSUME Types, Separate, ~Resets, NEW u \in Users, AskSome(u)
  PROVE  /\ u \in Crew
         /\ \E op \in Getting \cup {"new", "close"} :
              /\ job' = [job EXCEPT ![u] = [op |-> op, tid |-> setup.home[u], on |-> Nothing]]
              /\ \E rest : todo' = [todo EXCEPT ![u] = rest] /\ rest # <<>> /\ RestOK(op, rest)
                                                            /\ Head(rest) \notin {"delete", "shut", "store"}
         /\ todo[u] = <<>>
         /\ UNCHANGED <<setup, conns, made, open>>
         /\ rd' = [rd EXCEPT ![u] = Nothing] /\ answer' = [answer EXCEPT ![u] = NoAnswer]
<1>1. PICK op \in setup.ops \cap (DOMAIN Kind \cup DOMAIN Common), t \in Threads :
        /\ u \in Crew
        /\ t = setup.home[u] \/ (setup.foreign /\ ~(setup.kind \in Managers /\ op = "get"))
        /\ Ask(u, op, t)
  BY DEF AskSome, Crew
<1>2. t = setup.home[u] /\ op \notin Cleans \cup {"close_all"}
  BY <1>1 DEF Separate, Does
<1> DEFINE Fine(rest) == /\ rest # <<>> /\ RestOK(op, rest)
                         /\ Head(rest) \notin {"delete", "shut", "store"}
           C == <<"seek", "shut", "delete">>
<1>3. setup.kind \in Sync \cup Async
  BY StoreAssumption DEF StoreAssumption, Types
<1>4. DOMAIN Common = {"new"} \cup Cleans \cup {"close_all"} /\ Common["new"] = <<"connect">>
  BY DEF Common, Cleans
<1>5. /\ C \o <<"connect", "store">> = <<"seek", "shut", "delete", "connect", "store">>
      /\ C \o <<"lookup", "connect", "store">> = <<"seek", "shut", "delete", "lookup", "connect", "store">>
  <2>1. C \o <<"connect", "store">> = <<"seek", "shut", "delete", "connect", "store">>
    BY JoinTwo
  <2>2. C \o <<"lookup", "connect", "store">> = <<"seek", "shut", "delete", "lookup", "connect", "store">>
    BY JoinThree
  <2> QED BY <2>1, <2>2
<1> DEFINE reset == C \o <<"connect", "store">>
           regain == C \o <<"lookup", "connect", "store">>
<1>6. Fine(<<"connect">>) \/ op # "new"
  BY DEF RestOK
<1>7. op \in Getting => /\ Fine(<<"lookup", "connect", "store">>)
                        /\ Fine(reset) /\ Fine(regain)
  BY <1>5 DEF RestOK, Gets, Resetting
<1>8. op = "close" => Fine(C) /\ Fine(<<"own", "shut", "delete">>)
  BY DEF RestOK, Closes
<1>55. /\ reset_redis = reset /\ configure_redis = reset
       /\ reset_memcached = reset /\ configure_memcached = reset /\ reset_geoip = regain
  BY DEF close_redis, reset_redis, configure_redis, close_memcached, reset_memcached,
         configure_memcached, close_geoip, get_geoip, reset_geoip
<1> HIDE DEF Fine, reset, regain
<1>9. op \in Getting \cup {"new", "close"} /\ Fine(Program(op))
  <2>1. CASE op \notin DOMAIN Kind
    <3>1. op = "new" /\ Program(op) = Common["new"]
      BY <1>1, <1>2, <1>4, <2>1 DEF Program
    <3> QED BY <1>4, <1>6, <3>1
  <2>2. CASE op \in DOMAIN Kind
    <3>1. Program(op) = Kind[op]
      BY <2>2 DEF Program
    <3>2. CASE setup.kind = "redis"
      <4>1. Kind = [get |-> get_redis, close |-> close_redis, reset |-> reset_redis,
                    configure |-> configure_redis]
        BY <3>2 DEF Kind, Programs
      <4> QED BY <1>55, <1>7, <1>8, <2>2, <3>1, <4>1 DEF get_redis, close_redis, Getting
    <3>3. CASE setup.kind = "memcached"
      <4>1. Kind = [get |-> get_memcached, close |-> close_memcached, reset |-> reset_memcached,
                    configure |-> configure_memcached]
        BY <3>3 DEF Kind, Programs
      <4> QED BY <1>55, <1>7, <1>8, <2>2, <3>1, <4>1 DEF get_memcached, close_memcached, Getting
    <3>4. CASE setup.kind = "geoip"
      <4>1. Kind = [get |-> get_geoip, close |-> close_geoip, reset |-> reset_geoip]
        BY <3>4 DEF Kind, Programs
      <4> QED BY <1>55, <1>7, <1>8, <2>2, <3>1, <4>1 DEF get_geoip, close_geoip, Getting
    <3>5. CASE setup.kind = "aioredis"
      <4>1. Kind = [get |-> get_redis_async, close |-> close_redis_async, reset |-> reset_redis_async,
                    configure |-> configure_redis_async]
        BY <3>5 DEF Kind, Programs
      <4>2. op \notin {"reset", "configure"}
        BY <1>1, <3>5 DEF Resets, Does
      <4> QED BY <1>7, <1>8, <2>2, <3>1, <4>1, <4>2 DEF get_redis_async, close_redis_async, Getting
    <3>6. CASE setup.kind = "aiomemcached"
      <4>1. Kind = [get |-> get_memcached_async, close |-> close_memcached_async,
                    reset |-> reset_memcached_async, configure |-> configure_memcached_async]
        BY <3>6 DEF Kind, Programs
      <4>2. op \notin {"reset", "configure"}
        BY <1>1, <3>6 DEF Resets, Does
      <4> QED BY <1>7, <1>8, <2>2, <3>1, <4>1, <4>2 DEF get_memcached_async, close_memcached_async,
            Getting
    <3>7. CASE setup.kind = "sqlite"
      <4>1. Kind = [get |-> sqlite_conn, close |-> sqlite_close]
        BY <3>7 DEF Kind, Programs
      <4> QED BY <1>7, <1>8, <2>2, <3>1, <4>1 DEF sqlite_conn, sqlite_close, Getting
    <3>8. CASE setup.kind = "aiosqlite"
      <4>1. Kind = [get |-> sqlite_conn_async, close |-> sqlite_close_async]
        BY <3>8 DEF Kind, Programs
      <4> QED BY <1>7, <1>8, <2>2, <3>1, <4>1 DEF sqlite_conn_async, sqlite_close_async, Getting
    <3> QED BY <1>3, <3>2, <3>3, <3>4, <3>5, <3>6, <3>7, <3>8 DEF Sync, Async
  <2> QED BY <2>1, <2>2
<1>10. /\ todo[u] = <<>> /\ todo' = [todo EXCEPT ![u] = Program(op)]
       /\ job' = [job EXCEPT ![u] = [op |-> op, tid |-> setup.home[u], on |-> Nothing]]
       /\ UNCHANGED <<setup, conns, made, open>>
       /\ rd' = [rd EXCEPT ![u] = Nothing] /\ answer' = [answer EXCEPT ![u] = NoAnswer]
  BY <1>1, <1>2 DEF Ask, storeVars
<1> QED
  BY <1>1, <1>9, <1>10 DEF Fine


\* What follows the step a call is at: next, or what is left once two or three steps
\* are skipped.
Moved(op, s, next, two, three) ==
  /\ Head(s) \in {"lookup", "connect", "store", "seek", "own", "shut", "delete"}
  /\ RestOK(op, next)
  /\ Head(s) = "lookup" => op \in Getting /\ next = <<"connect", "store">> /\ three = <<>>
  /\ Head(s) = "connect" => \/ op = "new" /\ next = <<>>
                            \/ op \in Getting /\ next = <<"store">>
  /\ Head(s) = "store" => op \in Getting /\ next = <<>>
  /\ Head(s) = "seek" => /\ next # <<>> /\ Head(next) = "shut" /\ RestOK(op, three)
                         /\ \/ three = <<>> /\ op = "close"
                            \/ three # <<>> /\ Head(three) \in {"lookup", "connect"}
  /\ Head(s) = "own" => op = "close" /\ next = <<"shut", "delete">> /\ two = <<"delete">>
  /\ Head(s) = "shut" => next # <<>> /\ Head(next) = "delete"
  /\ Head(s) = "delete" => \/ next = <<>> /\ op = "close"
                           \/ next # <<>> /\ Head(next) \in {"lookup", "connect"}

\* What is left when a step is taken is again something a call may have left.
LEMMA RestMoves ==
  ASSUME NEW op, NEW s, RestOK(op, s), s # <<>>
  PROVE  Moved(op, s, Drop(s, 1), Drop(s, 2), Drop(s, 3))
<1>1. CASE op = "new" /\ s = <<"connect">>
  <2>1. CASE s = <<"connect">>
    <3>1. Drop(s, 1) = <<>>
      BY <2>1, DropOfOne
    <3> QED BY <1>1, <2>1, <3>1 DEF Moved, RestOK, Getting, Gets, Closes, Resetting
  <2> QED BY <1>1, <2>1
<1>2. CASE op \in Getting /\ s \in Gets
  <2>1. CASE s = <<"store">>
    <3>1. Drop(s, 1) = <<>>
      BY <2>1, DropOfOne
    <3> QED BY <1>2, <2>1, <3>1 DEF Moved, RestOK, Getting, Gets, Closes, Resetting
  <2>2. CASE s = <<"connect", "store">>
    <3>1. Drop(s, 1) = <<"store">>
      BY <2>2, DropOfTwo
    <3> QED BY <1>2, <2>2, <3>1 DEF Moved, RestOK, Getting, Gets, Closes, Resetting
  <2>3. CASE s = <<"lookup", "connect", "store">>
    <3>1. Drop(s, 1) = <<"connect", "store">> /\ Drop(s, 3) = <<>>
      BY <2>3, DropOfThree
    <3> QED BY <1>2, <2>3, <3>1 DEF Moved, RestOK, Getting, Gets, Closes, Resetting
  <2> QED BY <1>2, <2>1, <2>2, <2>3 DEF Gets
<1>3. CASE op = "close" /\ s \in Closes
  <2>1. CASE s = <<"delete">>
    <3>1. Drop(s, 1) = <<>>
      BY <2>1, DropOfOne
    <3> QED BY <1>3, <2>1, <3>1 DEF Moved, RestOK, Getting, Gets, Closes, Resetting
  <2>2. CASE s = <<"shut", "delete">>
    <3>1. Drop(s, 1) = <<"delete">>
      BY <2>2, DropOfTwo
    <3> QED BY <1>3, <2>2, <3>1 DEF Moved, RestOK, Getting, Gets, Closes, Resetting
  <2>3. CASE s = <<"seek", "shut", "delete">>
    <3>1. Drop(s, 1) = <<"shut", "delete">> /\ Drop(s, 3) = <<>>
      BY <2>3, DropOfThree
    <3> QED BY <1>3, <2>3, <3>1 DEF Moved, RestOK, Getting, Gets, Closes, Resetting
  <2>4. CASE s = <<"own", "shut", "delete">>
    <3>1. Drop(s, 1) = <<"shut", "delete">> /\ Drop(s, 2) = <<"delete">>
      BY <2>4, DropOfThree
    <3> QED BY <1>3, <2>4, <3>1 DEF Moved, RestOK, Getting, Gets, Closes, Resetting
  <2> QED BY <1>3, <2>1, <2>2, <2>3, <2>4 DEF Closes
<1>4. CASE op \in Getting /\ s \in Resetting
  <2>1. CASE s = <<"delete", "connect", "store">>
    <3>1. Drop(s, 1) = <<"connect", "store">>
      BY <2>1, DropOfThree
    <3> QED BY <1>4, <2>1, <3>1 DEF Moved, RestOK, Getting, Gets, Closes, Resetting
  <2>2. CASE s = <<"shut", "delete", "connect", "store">>
    <3>1. Drop(s, 1) = <<"delete", "connect", "store">>
      BY <2>2, DropOfFour
    <3> QED BY <1>4, <2>2, <3>1 DEF Moved, RestOK, Getting, Gets, Closes, Resetting
  <2>3. CASE s = <<"seek", "shut", "delete", "connect", "store">>
    <3>1. Drop(s, 1) = <<"shut", "delete", "connect", "store">> /\ Drop(s, 3) = <<"connect", "store">>
      BY <2>3, DropOfFive
    <3> QED BY <1>4, <2>3, <3>1 DEF Moved, RestOK, Getting, Gets, Closes, Resetting
  <2>4. CASE s = <<"delete", "lookup", "connect", "store">>
    <3>1. Drop(s, 1) = <<"lookup", "connect", "store">>
      BY <2>4, DropOfFour
    <3> QED BY <1>4, <2>4, <3>1 DEF Moved, RestOK, Getting, Gets, Closes, Resetting
  <2>5. CASE s = <<"shut", "delete", "lookup", "connect", "store">>
    <3>1. Drop(s, 1) = <<"delete", "lookup", "connect", "store">>
      BY <2>5, DropOfFive
    <3> QED BY <1>4, <2>5, <3>1 DEF Moved, RestOK, Getting, Gets, Closes, Resetting
  <2>6. CASE s = <<"seek", "shut", "delete", "lookup", "connect", "store">>
    <3>1. Drop(s, 1) = <<"shut", "delete", "lookup", "connect", "store">> /\ Drop(s, 3) = <<"lookup", "connect", "store">>
      BY <2>6, DropOfSix
    <3> QED BY <1>4, <2>6, <3>1 DEF Moved, RestOK, Getting, Gets, Closes, Resetting
  <2> QED BY <1>4, <2>1, <2>2, <2>3, <2>4, <2>5, <2>6 DEF Resetting
<1> QED
  BY <1>1, <1>2, <1>3, <1>4 DEF RestOK

\* A caller's thread and the caller are what the assumption on the setups says.
LEMMA Homes ==
  ASSUME Types, NEW u \in Crew
  PROVE  u \in Users /\ setup.home[u] \in Threads /\ Nothing \notin Int
BY StoreAssumption DEF StoreAssumption, Types, Crew

\* What a step of u may do: it goes on with rest, holds c, leaves d in its thread's
\* store and has a for an answer; it leaves what the other callers have.
Lands(u, rest, c, d, a) ==
  /\ UNCHANGED <<setup, job>>
  /\ todo'[u] = rest /\ rd'[u] = c /\ conns'[setup.home[u]] = d /\ answer'[u] = a
  /\ \A w \in Users \ {u} : todo'[w] = todo[w] /\ rd'[w] = rd[w] /\ answer'[w] = answer[w]
  /\ \A t \in Threads \ {setup.home[u]} : conns'[t] = conns[t]
  /\ made' \in {made, made + 1} /\ open \subseteq open' \cup Mine(u)
  /\ Types'

\* The answer a call has once rest is left.
After(u, rest, c) == IF rest = <<>> THEN Returned(c) ELSE answer[u]

\* The connections that are a caller's with d in the store, and c in its hand, when
\* rest is left.
Hold(rest, c, d) ==
  ({d} \cup (IF rest # <<>> /\ Head(rest) = "store" THEN {c} ELSE {})) \ {Nothing}

\* What is left is that of a caller in order.
LandsWell(u, rest, c, d, a) ==
  /\ RestOK(job[u].op, rest)
  /\ Hold(rest, c, d) \subseteq 1..made'
  /\ Hold(rest, c, d) \subseteq Mine(u) \cup {made + 1}
  /\ made + 1 \in Hold(rest, c, d) => made' = made + 1
  /\ (rest # <<>> /\ Head(rest) = "delete") \/ Hold(rest, c, d) \subseteq open'
  /\ rest # <<>> /\ Head(rest) = "shut" => c = d
  /\ rest # <<>> /\ Head(rest) = "store" => c # Nothing
  /\ rest = <<>> /\ job[u].op \in Getting /\ a # Raised => d = a.conn /\ d # Nothing

Effect(u) == \E rest, c, d, a : Lands(u, rest, c, d, a) /\ LandsWell(u, rest, c, d, a)

\* The parts of a step that every step of a caller of its own has.
LEMMA LandsBy ==
  ASSUME Types, NEW u \in Crew, UNCHANGED <<setup, job>>,
         NEW rest, NEW c \in Int \cup {Nothing}, NEW d \in Int \cup {Nothing}, NEW a,
         todo' = [todo EXCEPT ![u] = rest], rd' = [rd EXCEPT ![u] = c],
         conns' = [conns EXCEPT ![setup.home[u]] = d],
         answer' = [answer EXCEPT ![u] = a] \/ (answer' = answer /\ a = answer[u]),
         made' \in {made, made + 1}, open' \subseteq 1..made', open \subseteq open' \cup Mine(u)
  PROVE  Lands(u, rest, c, d, a)
<1>1. u \in Users /\ setup.home[u] \in Threads
  BY Homes
<1>2. Types'
  BY <1>1 DEF Types
<1>3. todo'[u] = rest /\ rd'[u] = c /\ conns'[setup.home[u]] = d /\ answer'[u] = a
  BY <1>1 DEF Types
<1>4. \A w \in Users \ {u} : todo'[w] = todo[w] /\ rd'[w] = rd[w] /\ answer'[w] = answer[w]
  BY <1>1 DEF Types
<1>5. \A t \in Threads \ {setup.home[u]} : conns'[t] = conns[t]
  BY <1>1 DEF Types
<1> QED
  BY <1>2, <1>3, <1>4, <1>5 DEF Lands

\* A caller that lands well is in order, and what it has is what it had, but for a
\* connection it has just made.
LEMMA WellIsOK ==
  ASSUME Types, NEW u \in Crew, CallerOK(u), todo[u] # <<>>, Effect(u)
  PROVE  /\ CallerOK(u)'
         /\ Mine(u)' \subseteq Mine(u) \cup {made + 1}
         /\ made + 1 \in Mine(u)' => made' = made + 1
<1>1. PICK rest, c, d, a : Lands(u, rest, c, d, a) /\ LandsWell(u, rest, c, d, a)
  BY DEF Effect
<1>2. /\ todo'[u] = rest /\ Stored(u)' = d /\ rd'[u] = c /\ answer'[u] = a /\ job' = job /\ setup' = setup
  BY <1>1 DEF Lands, Stored
<1>3. Step(u)' = IF rest = <<>> THEN "none" ELSE Head(rest)
  BY <1>2 DEF Step
<1>4. Mine(u)' = Hold(rest, c, d)
  BY <1>2, <1>3 DEF Mine, Hold
<1>5. Mine(u)' \subseteq 1..made' /\ (Step(u)' # "delete" => Mine(u)' \subseteq open')
  BY <1>1, <1>3, <1>4 DEF LandsWell
<1>6. job[u].tid = setup.home[u]
  BY DEF CallerOK
<1>7. /\ RestOK(job[u].op, rest)'
      /\ todo'[u] # <<>> => job'[u].tid = setup'.home[u]
      /\ Step(u)' = "shut" => rd'[u] = Stored(u)'
      /\ Step(u)' = "store" => rd'[u] # Nothing
  BY <1>1, <1>2, <1>3, <1>6 DEF LandsWell, RestOK
<1>8. todo'[u] = <<>> /\ job'[u].op \in Getting /\ answer'[u] # Raised =>
        Stored(u)' = answer'[u].conn /\ Stored(u)' # Nothing
  BY <1>1, <1>2 DEF LandsWell
<1>9. CallerOK(u)'
  BY <1>2, <1>5, <1>7, <1>8 DEF CallerOK, RestOK, Getting, Raised
<1> QED
  BY <1>1, <1>4, <1>9 DEF LandsWell

\* A step on the store, taken by a caller in order that has a thread to itself.
LEMMA StepOwn ==
  ASSUME Types, NEW u \in Crew, CallerOK(u), StoreStep(u)
  PROVE  todo[u] # <<>> /\ Effect(u)
<1> DEFINE op == job[u].op
           s == todo[u]
           t == setup.home[u]
<1>1. u \in Users /\ t \in Threads /\ Nothing \notin Int
  BY Homes
<1>2. s # <<>>
  BY DEF StoreStep, At, Step, Lookup, Connect, ConnectFails, Store, Promise, Seek, Own, Shut, Delete,
         DropThread, Walk, Sweep, Purge
<1>3. Step(u) = Head(s) /\ RestOK(op, s) /\ job[u].tid = t
  BY <1>2 DEF Step, CallerOK
<1>4. Moved(op, s, Drop(s, 1), Drop(s, 2), Drop(s, 3))
  BY <1>2, <1>3, RestMoves
<1>5. UNCHANGED <<setup, job>>
  BY DEF StoreStep
<1>6. /\ Mine(u) \subseteq 1..made /\ made \in Nat /\ made + 1 \in Int
      /\ Step(u) # "delete" => Mine(u) \subseteq open
      /\ conns[t] \in Int \cup {Nothing} /\ rd[u] \in Int \cup {Nothing}
      /\ conns = [conns EXCEPT ![t] = conns[t]] /\ rd = [rd EXCEPT ![u] = rd[u]]
      /\ open \subseteq 1..made
  BY <1>1 DEF CallerOK, Types
<1>7. conns[t] # Nothing => conns[t] \in Mine(u)
  BY DEF Mine, Stored
<1>8. \A n \in Nat : /\ Skip(u, n) => Goes(u, Drop(s, n + 1))
                     /\ Go(u) => Goes(u, Drop(s, 1))
  BY Moves
<1>9. ASSUME NEW rest, NEW c, Goes(u, rest), rd' = [rd EXCEPT ![u] = c]
      PROVE  /\ todo' = [todo EXCEPT ![u] = rest]
             /\ \/ answer' = [answer EXCEPT ![u] = After(u, rest, c)]
                \/ answer' = answer /\ After(u, rest, c) = answer[u]
  <2>1. rd'[u] = c
    BY <1>1, <1>9 DEF Types
  <2>2. todo' = [todo EXCEPT ![u] = rest] /\ After(u, rest, rd'[u]) = After(u, rest, c)
    BY <1>9, <2>1 DEF Goes
  <2>3. CASE rest = <<>>
    BY <1>9, <2>2, <2>3 DEF Goes, After
  <2>4. CASE rest # <<>>
    BY <1>9, <2>2, <2>4 DEF Goes, After
  <2> QED BY <2>2, <2>3, <2>4
<1> HIDE DEF op, s, t
<1>10. CASE Lookup(u)
  <2>1. op \in Getting /\ Drop(s, 1) = <<"connect", "store">> /\ Drop(s, 3) = <<>>
    BY <1>3, <1>4, <1>10 DEF Lookup, At, Moved
  <2>2. rd' = [rd EXCEPT ![u] = conns[t]] /\ UNCHANGED <<conns, made, open>>
    BY <1>3, <1>10 DEF Lookup, Holds
  <2>3. CASE conns[t] # Nothing
    <3>1. Goes(u, <<>>)
      BY <1>3, <1>8, <1>10, <2>1, <2>3 DEF Lookup
    <3>2. Lands(u, <<>>, conns[t], conns[t], After(u, <<>>, conns[t]))
      <4>1. /\ conns[t] \in Int \cup {Nothing} /\ conns[t] \in Int \cup {Nothing}
            /\ rd' = [rd EXCEPT ![u] = conns[t]] /\ conns' = [conns EXCEPT ![t] = conns[t]]
            /\ made' \in {made, made + 1} /\ open' \subseteq 1..made' /\ open \subseteq open' \cup Mine(u)
        BY <1>6, <2>2, <3>1
      <4>2. /\ todo' = [todo EXCEPT ![u] = <<>>]
            /\ \/ answer' = [answer EXCEPT ![u] = After(u, <<>>, conns[t])]
               \/ answer' = answer /\ After(u, <<>>, conns[t]) = answer[u]
        BY <1>9, <4>1, <2>2, <3>1
      <4> QED BY <1>1, <1>5, <4>1, <4>2, LandsBy DEF t
    <3>3. Step(u) = "lookup" /\ Hold(<<>>, conns[t], conns[t]) = {conns[t]}
      BY <1>10, <2>3 DEF Lookup, At, Hold
    <3>4. LandsWell(u, <<>>, conns[t], conns[t], After(u, <<>>, conns[t]))
      BY <1>6, <1>7, <2>2, <2>3, <3>3 DEF LandsWell, RestOK, After, Returned
    <3> QED BY <1>2, <3>2, <3>4 DEF Effect, s
  <2>4. CASE conns[t] = Nothing
    <3>1. Goes(u, <<"connect", "store">>)
      BY <1>3, <1>8, <1>10, <2>1, <2>4 DEF Lookup
    <3>2. Lands(u, <<"connect", "store">>, conns[t], conns[t], After(u, <<"connect", "store">>, conns[t]))
      <4>1. /\ conns[t] \in Int \cup {Nothing} /\ conns[t] \in Int \cup {Nothing}
            /\ rd' = [rd EXCEPT ![u] = conns[t]] /\ conns' = [conns EXCEPT ![t] = conns[t]]
            /\ made' \in {made, made + 1} /\ open' \subseteq 1..made' /\ open \subseteq open' \cup Mine(u)
        BY <1>6, <2>2, <3>1
      <4>2. /\ todo' = [todo EXCEPT ![u] = <<"connect", "store">>]
            /\ \/ answer' = [answer EXCEPT ![u] = After(u, <<"connect", "store">>, conns[t])]
               \/ answer' = answer /\ After(u, <<"connect", "store">>, conns[t]) = answer[u]
        BY <1>9, <4>1, <2>2, <3>1
      <4> QED BY <1>1, <1>5, <4>1, <4>2, LandsBy DEF t
    <3>3. Hold(<<"connect", "store">>, conns[t], conns[t]) = {}
      BY <2>4 DEF Hold
    <3>4. LandsWell(u, <<"connect", "store">>, conns[t], conns[t], After(u, <<"connect", "store">>, conns[t]))
      BY <2>1, <3>3 DEF LandsWell, RestOK, Gets, op
    <3> QED BY <1>2, <3>2, <3>4 DEF Effect, s
  <2> QED BY <2>3, <2>4
<1>11. CASE Connect(u)
  <2> DEFINE rest == Drop(s, 1)
             m == made + 1
  <2>1. RestOK(op, rest) /\ \/ op = "new" /\ rest = <<>>
                            \/ op \in Getting /\ rest = <<"store">>
    BY <1>3, <1>4, <1>11 DEF Connect, At, Moved
  <2>2. rd' = [rd EXCEPT ![u] = m] /\ conns' = conns /\ made' = m /\ open' = open \cup {m}
    BY <1>11 DEF Connect, Holds
  <2>3. Goes(u, rest)
    BY <1>8, <1>11 DEF Connect
  <2> HIDE DEF rest
  <2>4. Lands(u, rest, m, conns[t], After(u, rest, m))
    <3>1. open' \subseteq 1..made'
      BY <1>6, <2>2
    <3> HIDE DEF m
    <3>2. m \in Int /\ made' \in {made, made + 1} /\ open \subseteq open' \cup Mine(u)
      BY <1>6, <2>2 DEF m
    <3>3. /\ rd' = [rd EXCEPT ![u] = m] /\ conns' = [conns EXCEPT ![t] = conns[t]]
          /\ conns[t] \in Int \cup {Nothing}
      BY <1>6, <2>2
    <3>4. /\ todo' = [todo EXCEPT ![u] = rest]
          /\ \/ answer' = [answer EXCEPT ![u] = After(u, rest, m)]
             \/ answer' = answer /\ After(u, rest, m) = answer[u]
      BY <1>9, <2>3, <3>3
    <3> QED BY <1>1, <1>5, <3>1, <3>2, <3>3, <3>4, LandsBy DEF t
  <2>5. Hold(rest, m, conns[t]) \subseteq ({conns[t]} \ {Nothing}) \cup {m}
    BY DEF Hold
  <2>6. {conns[t]} \ {Nothing} \subseteq Mine(u) /\ Mine(u) \subseteq 1..made /\ Mine(u) \subseteq open
    BY <1>6, <1>7, <1>11 DEF Connect, At
  <2>7. m # Nothing /\ (op = "new" => op \notin Getting)
    BY <1>1, <1>6 DEF Getting
  <2>8. rest # <<>> => Head(rest) = "store"
    BY <2>1
  <2>10. LandsWell(u, rest, m, conns[t], After(u, rest, m))
    <3>1. Hold(rest, m, conns[t]) \subseteq 1..made' /\ Hold(rest, m, conns[t]) \subseteq open'
      BY <1>6, <2>2, <2>5, <2>6
    <3>2. Hold(rest, m, conns[t]) \subseteq Mine(u) \cup {made + 1}
      BY <2>5, <2>6
    <3>3. rest = <<>> => op \notin Getting
      BY <2>1, <2>7
    <3>4. /\ rest # <<>> => Head(rest) # "shut"
          /\ rest # <<>> /\ Head(rest) = "store" => m # Nothing
      BY <2>7, <2>8
    <3>5. made' = made + 1
      BY <2>2
    <3> HIDE DEF m
    <3> QED BY <2>1, <3>1, <3>2, <3>3, <3>4, <3>5 DEF LandsWell, op
  <2> QED BY <1>2, <2>4, <2>10 DEF Effect, s
<1>12. CASE ConnectFails(u)
  <2>1. /\ todo' = [todo EXCEPT ![u] = <<>>] /\ answer' = [answer EXCEPT ![u] = Raised]
        /\ UNCHANGED <<conns, made, open, rd>>
    BY <1>12 DEF ConnectFails, Raise, storeVars
  <2>2. Lands(u, <<>>, rd[u], conns[t], Raised)
    BY <1>1, <1>5, <1>6, <2>1, LandsBy DEF t
  <2>3. Hold(<<>>, rd[u], conns[t]) \subseteq Mine(u) /\ Mine(u) \subseteq open
    BY <1>6, <1>7, <1>12 DEF ConnectFails, At, Hold
  <2>4. LandsWell(u, <<>>, rd[u], conns[t], Raised)
    BY <1>6, <2>1, <2>3 DEF LandsWell, RestOK
  <2> QED BY <1>2, <2>2, <2>4 DEF Effect, s
<1>13. CASE Store(u)
  <2>1. Step(u) = "store" /\ op \in Getting /\ Drop(s, 1) = <<>>
    BY <1>3, <1>4, <1>13 DEF Store, At, Moved
  <2>2. conns' = [conns EXCEPT ![t] = rd[u]] /\ UNCHANGED <<made, open, rd>>
    BY <1>3, <1>13 DEF Store
  <2>3. Goes(u, <<>>)
    BY <1>8, <1>13, <2>1 DEF Store
  <2>4. Lands(u, <<>>, rd[u], rd[u], After(u, <<>>, rd[u]))
    <3>1. /\ rd[u] \in Int \cup {Nothing} /\ rd[u] \in Int \cup {Nothing}
          /\ rd' = [rd EXCEPT ![u] = rd[u]] /\ conns' = [conns EXCEPT ![t] = rd[u]]
          /\ made' \in {made, made + 1} /\ open' \subseteq 1..made' /\ open \subseteq open' \cup Mine(u)
      BY <1>6, <2>2, <2>3
    <3>2. /\ todo' = [todo EXCEPT ![u] = <<>>]
          /\ \/ answer' = [answer EXCEPT ![u] = After(u, <<>>, rd[u])]
             \/ answer' = answer /\ After(u, <<>>, rd[u]) = answer[u]
      BY <1>9, <3>1, <2>2, <2>3
    <3> QED BY <1>1, <1>5, <3>1, <3>2, LandsBy DEF t
  <2>5. rd[u] # Nothing /\ Hold(<<>>, rd[u], rd[u]) \subseteq Mine(u) /\ Mine(u) \subseteq open
    BY <1>6, <2>1 DEF CallerOK, Hold, Mine
  <2>6. LandsWell(u, <<>>, rd[u], rd[u], After(u, <<>>, rd[u]))
    BY <1>6, <2>2, <2>5 DEF LandsWell, RestOK, After, Returned
  <2> QED BY <1>2, <2>4, <2>6 DEF Effect, s
<1>14. CASE Seek(u)
  <2> DEFINE next == Drop(s, 1)
             three == Drop(s, 3)
  <2>1. /\ RestOK(op, next) /\ next # <<>> /\ Head(next) = "shut" /\ RestOK(op, three)
        /\ \/ three = <<>> /\ op = "close"
           \/ three # <<>> /\ Head(three) \in {"lookup", "connect"}
    BY <1>3, <1>4, <1>14 DEF Seek, At, Moved
  <2>2. rd' = [rd EXCEPT ![u] = conns[t]] /\ UNCHANGED <<conns, made, open>>
    BY <1>3, <1>14 DEF Seek, Holds
  <2> HIDE DEF next, three
  <2>3. CASE conns[t] = Nothing
    <3>1. Goes(u, three)
      BY <1>3, <1>8, <1>14, <2>3 DEF Seek, three
    <3>2. Lands(u, three, conns[t], conns[t], After(u, three, conns[t]))
      <4>1. /\ conns[t] \in Int \cup {Nothing} /\ conns[t] \in Int \cup {Nothing}
            /\ rd' = [rd EXCEPT ![u] = conns[t]] /\ conns' = [conns EXCEPT ![t] = conns[t]]
            /\ made' \in {made, made + 1} /\ open' \subseteq 1..made' /\ open \subseteq open' \cup Mine(u)
        BY <1>6, <2>2, <3>1
      <4>2. /\ todo' = [todo EXCEPT ![u] = three]
            /\ \/ answer' = [answer EXCEPT ![u] = After(u, three, conns[t])]
               \/ answer' = answer /\ After(u, three, conns[t]) = answer[u]
        BY <1>9, <4>1, <2>2, <3>1
      <4> QED BY <1>1, <1>5, <4>1, <4>2, LandsBy DEF t
    <3>3. Hold(three, conns[t], conns[t]) = {}
      BY <2>3 DEF Hold
    <3>4. LandsWell(u, three, conns[t], conns[t], After(u, three, conns[t]))
      BY <2>1, <3>3 DEF LandsWell, Getting, op
    <3> QED BY <1>2, <3>2, <3>4 DEF Effect, s
  <2>4. CASE conns[t] # Nothing
    <3>1. Goes(u, next)
      BY <1>3, <1>8, <1>14, <2>4 DEF Seek, next
    <3>2. Lands(u, next, conns[t], conns[t], After(u, next, conns[t]))
      <4>1. /\ conns[t] \in Int \cup {Nothing} /\ conns[t] \in Int \cup {Nothing}
            /\ rd' = [rd EXCEPT ![u] = conns[t]] /\ conns' = [conns EXCEPT ![t] = conns[t]]
            /\ made' \in {made, made + 1} /\ open' \subseteq 1..made' /\ open \subseteq open' \cup Mine(u)
        BY <1>6, <2>2, <3>1
      <4>2. /\ todo' = [todo EXCEPT ![u] = next]
            /\ \/ answer' = [answer EXCEPT ![u] = After(u, next, conns[t])]
               \/ answer' = answer /\ After(u, next, conns[t]) = answer[u]
        BY <1>9, <4>1, <2>2, <3>1
      <4> QED BY <1>1, <1>5, <4>1, <4>2, LandsBy DEF t
    <3>3. Hold(next, conns[t], conns[t]) \subseteq Mine(u) /\ Mine(u) \subseteq open
      BY <1>6, <1>7, <1>14 DEF Seek, At, Hold
    <3>4. LandsWell(u, next, conns[t], conns[t], After(u, next, conns[t]))
      BY <1>6, <2>1, <2>2, <3>3 DEF LandsWell, op
    <3> QED BY <1>2, <3>2, <3>4 DEF Effect, s
  <2> QED BY <2>3, <2>4
<1>15. CASE Own(u)
  <2>1. op = "close" /\ Drop(s, 1) = <<"shut", "delete">> /\ Drop(s, 2) = <<"delete">>
    BY <1>3, <1>4, <1>15 DEF Own, At, Moved
  <2>2. rd' = [rd EXCEPT ![u] = conns[t]] /\ UNCHANGED <<conns, made, open>>
    BY <1>3, <1>15 DEF Own, Holds, t
  <2>3. CASE conns[t] = Nothing
    <3>1. Goes(u, <<"delete">>)
      BY <1>8, <1>15, <2>1, <2>3 DEF Own, t
    <3>2. Lands(u, <<"delete">>, conns[t], conns[t], After(u, <<"delete">>, conns[t]))
      <4>1. /\ conns[t] \in Int \cup {Nothing} /\ conns[t] \in Int \cup {Nothing}
            /\ rd' = [rd EXCEPT ![u] = conns[t]] /\ conns' = [conns EXCEPT ![t] = conns[t]]
            /\ made' \in {made, made + 1} /\ open' \subseteq 1..made' /\ open \subseteq open' \cup Mine(u)
        BY <1>6, <2>2, <3>1
      <4>2. /\ todo' = [todo EXCEPT ![u] = <<"delete">>]
            /\ \/ answer' = [answer EXCEPT ![u] = After(u, <<"delete">>, conns[t])]
               \/ answer' = answer /\ After(u, <<"delete">>, conns[t]) = answer[u]
        BY <1>9, <4>1, <2>2, <3>1
      <4> QED BY <1>1, <1>5, <4>1, <4>2, LandsBy DEF t
    <3>3. Hold(<<"delete">>, conns[t], conns[t]) = {}
      BY <2>3 DEF Hold
    <3>4. LandsWell(u, <<"delete">>, conns[t], conns[t], After(u, <<"delete">>, conns[t]))
      BY <2>1, <3>3 DEF LandsWell, RestOK, Closes, op
    <3> QED BY <1>2, <3>2, <3>4 DEF Effect, s
  <2>4. CASE conns[t] # Nothing
    <3>1. Goes(u, <<"shut", "delete">>)
      BY <1>8, <1>15, <2>1, <2>4 DEF Own, t
    <3>2. Lands(u, <<"shut", "delete">>, conns[t], conns[t], After(u, <<"shut", "delete">>, conns[t]))
      <4>1. /\ conns[t] \in Int \cup {Nothing} /\ conns[t] \in Int \cup {Nothing}
            /\ rd' = [rd EXCEPT ![u] = conns[t]] /\ conns' = [conns EXCEPT ![t] = conns[t]]
            /\ made' \in {made, made + 1} /\ open' \subseteq 1..made' /\ open \subseteq open' \cup Mine(u)
        BY <1>6, <2>2, <3>1
      <4>2. /\ todo' = [todo EXCEPT ![u] = <<"shut", "delete">>]
            /\ \/ answer' = [answer EXCEPT ![u] = After(u, <<"shut", "delete">>, conns[t])]
               \/ answer' = answer /\ After(u, <<"shut", "delete">>, conns[t]) = answer[u]
        BY <1>9, <4>1, <2>2, <3>1
      <4> QED BY <1>1, <1>5, <4>1, <4>2, LandsBy DEF t
    <3>3. Hold(<<"shut", "delete">>, conns[t], conns[t]) \subseteq Mine(u) /\ Mine(u) \subseteq open
      BY <1>6, <1>7, <1>15 DEF Own, At, Hold
    <3>4. LandsWell(u, <<"shut", "delete">>, conns[t], conns[t], After(u, <<"shut", "delete">>, conns[t]))
      BY <1>6, <2>1, <2>2, <3>3 DEF LandsWell, RestOK, Closes, op
    <3> QED BY <1>2, <3>2, <3>4 DEF Effect, s
  <2> QED BY <2>3, <2>4
<1>16. CASE Shut(u)
  <2> DEFINE next == Drop(s, 1)
  <2>1. Step(u) = "shut" /\ RestOK(op, next) /\ next # <<>> /\ Head(next) = "delete"
    BY <1>3, <1>4, <1>16 DEF Shut, At, Moved
  <2>2. rd[u] = conns[t]
    BY <2>1 DEF CallerOK, Stored, t
  <2>3. rd[u] # Coroutine
    BY <1>1, <1>6, <1>7, <2>2 DEF Coroutine
  <2>4. Go(u) /\ open' = open \ {rd[u]} /\ UNCHANGED <<conns, made, rd>>
    BY <1>16, <2>3 DEF Shut
  <2>5. Goes(u, next)
    BY <1>8, <2>4
  <2> HIDE DEF next
  <2>6. open \subseteq open' \cup Mine(u)
    BY <1>1, <1>6, <1>7, <2>2, <2>4
  <2>7. Lands(u, next, rd[u], conns[t], After(u, next, rd[u]))
    <3>1. open' \subseteq 1..made' /\ made' = made
      BY <1>6, <2>4
    <3> QED BY <1>1, <1>5, <1>6, <1>9, <2>4, <2>5, <2>6, <3>1, LandsBy DEF t
  <2>8. Hold(next, rd[u], conns[t]) \subseteq Mine(u)
    BY <1>7, <2>1 DEF Hold
  <2>9. LandsWell(u, next, rd[u], conns[t], After(u, next, rd[u]))
    BY <1>6, <2>1, <2>4, <2>8 DEF LandsWell, op
  <2> QED BY <1>2, <2>7, <2>9 DEF Effect, s
<1>17. CASE Delete(u)
  <2> DEFINE next == Drop(s, 1)
  <2>1. RestOK(op, next) /\ \/ next = <<>> /\ op = "close"
                            \/ next # <<>> /\ Head(next) \in {"lookup", "connect"}
    BY <1>3, <1>4, <1>17 DEF Delete, At, Moved
  <2>2. conns' = [conns EXCEPT ![t] = Nothing] /\ UNCHANGED <<made, open, rd>>
    BY <1>3, <1>17 DEF Delete
  <2>3. Goes(u, next)
    BY <1>8, <1>17 DEF Delete
  <2> HIDE DEF next
  <2>4. Lands(u, next, rd[u], Nothing, After(u, next, rd[u]))
    <3>1. /\ rd[u] \in Int \cup {Nothing} /\ Nothing \in Int \cup {Nothing}
          /\ rd' = [rd EXCEPT ![u] = rd[u]] /\ conns' = [conns EXCEPT ![t] = Nothing]
          /\ made' \in {made, made + 1} /\ open' \subseteq 1..made' /\ open \subseteq open' \cup Mine(u)
      BY <1>6, <2>2, <2>3
    <3>2. /\ todo' = [todo EXCEPT ![u] = next]
          /\ \/ answer' = [answer EXCEPT ![u] = After(u, next, rd[u])]
             \/ answer' = answer /\ After(u, next, rd[u]) = answer[u]
      BY <1>9, <3>1, <2>2, <2>3
    <3> QED BY <1>1, <1>5, <3>1, <3>2, LandsBy DEF t
  <2>5. Hold(next, rd[u], Nothing) = {}
    BY <2>1 DEF Hold
  <2>6. LandsWell(u, next, rd[u], Nothing, After(u, next, rd[u]))
    BY <2>1, <2>5 DEF LandsWell, Getting, op
  <2> QED BY <1>2, <2>4, <2>6 DEF Effect, s
<1>18. ~(Promise(u) \/ DropThread(u) \/ Walk(u) \/ Sweep(u) \/ Purge(u))
  BY <1>3, <1>4 DEF Moved, Promise, DropThread, Walk, Sweep, Purge, At
<1> QED
  BY <1>10, <1>11, <1>12, <1>13, <1>14, <1>15, <1>16, <1>17, <1>18 DEF StoreStep

\* A caller in order is at the end of a call, or at a step on the store.
LEMMA StepsOfStore ==
  ASSUME NEW u \in Crew, CallerOK(u)
  PROVE  /\ Step(u) \in {"none", "lookup", "connect", "store", "seek", "own", "shut", "delete"}
         /\ Step(u) = "none" <=> todo[u] = <<>>
<1>1. CASE todo[u] = <<>>
  BY <1>1 DEF Step
<1>2. CASE todo[u] # <<>>
  <2>1. Moved(job[u].op, todo[u], Drop(todo[u], 1), Drop(todo[u], 2), Drop(todo[u], 3))
    BY <1>2, RestMoves DEF CallerOK
  <2>2. Step(u) = Head(todo[u])
    BY <1>2 DEF Step
  <2> QED BY <1>2, <2>1, <2>2 DEF Moved
<1> QED
  BY <1>1, <1>2

\* A caller asks.
LEMMA AskApart ==
  ASSUME Apart, Separate, ~Resets, NEW u \in Users, AskSome(u)
  PROVE  Apart'
<1>1. Types
  BY DEF Apart
<1>2. u \in Crew /\ todo[u] = <<>>
  BY <1>1, Asks
<1>3. /\ UNCHANGED <<setup, conns, made, open>>
      /\ rd' = [rd EXCEPT ![u] = Nothing] /\ answer' = [answer EXCEPT ![u] = NoAnswer]
  BY <1>1, Asks
<1>4. PICK op, rest :
        /\ job' = [job EXCEPT ![u] = [op |-> op, tid |-> setup.home[u], on |-> Nothing]]
        /\ todo' = [todo EXCEPT ![u] = rest] /\ rest # <<>> /\ RestOK(op, rest)
        /\ Head(rest) \notin {"delete", "shut", "store"}
  BY <1>1, Asks
<1>5. u \in Users /\ setup.home[u] \in Threads /\ Crew' = Crew
  BY <1>1, <1>2, <1>3, Homes DEF Crew
<1>6. Types'
  BY <1>1, <1>3, <1>4, <1>5 DEF Types
<1>7. /\ todo'[u] = rest /\ job'[u].op = op /\ job'[u].tid = setup'.home[u]
      /\ Stored(u)' = Stored(u)
  BY <1>1, <1>3, <1>4, <1>5 DEF Types, Stored
<1>8. Step(u)' = Head(rest)
  BY <1>4, <1>7 DEF Step
<1>9. Mine(u)' = {Stored(u)} \ {Nothing} /\ Mine(u)' \subseteq Mine(u)
  BY <1>4, <1>7, <1>8 DEF Mine
<1>10. Mine(u) \subseteq 1..made /\ Mine(u) \subseteq open
  BY <1>2 DEF Apart, CallerOK, Step
<1>11. CallerOK(u)'
  BY <1>3, <1>4, <1>7, <1>8, <1>9, <1>10 DEF CallerOK, RestOK
<1>12. ASSUME NEW w \in Crew, w # u
       PROVE  CallerOK(w)' /\ Mine(w)' = Mine(w)
  <2>1. w \in Users /\ setup.home[w] \in Threads
    BY <1>1, Homes
  <2>2. /\ todo'[w] = todo[w] /\ rd'[w] = rd[w] /\ job'[w] = job[w] /\ answer'[w] = answer[w]
        /\ conns'[setup.home[w]] = conns[setup.home[w]]
    BY <1>1, <1>3, <1>4, <1>12, <2>1 DEF Types
  <2>3. CallerOK(w) /\ Mine(u) \cap Mine(w) = {}
    BY <1>2, <1>12 DEF Apart
  <2>4. made' \in {made, made + 1} /\ open \subseteq open' \cup Mine(u) /\ setup' = setup
    BY <1>3
  <2> QED BY <1>1, <1>2, <1>12, <2>2, <2>3, <2>4, OthersStay
<1>13. \A w \in Users \ Crew' : todo'[w] = <<>>
  BY <1>1, <1>2, <1>4, <1>5 DEF Apart, Types
<1>14. \A w \in Crew' : CallerOK(w)'
  BY <1>5, <1>11, <1>12
<1>15. \A v, w \in Crew' : v # w => Mine(v)' \cap Mine(w)' = {}
  BY <1>5, <1>9, <1>12 DEF Apart
<1> QED
  BY <1>6, <1>13, <1>14, <1>15 DEF Apart

\* A step on the store.
LEMMA StoreApart ==
  ASSUME Apart, Separate, NEW u \in Users, StoreStep(u)
  PROVE  Apart'
<1>1. Types
  BY DEF Apart
<1>2. u \in Crew
  <2>1. todo[u] # <<>>
    BY DEF StoreStep, At, Step, Lookup, Connect, ConnectFails, Store, Promise, Seek, Own, Shut, Delete,
           DropThread, Walk, Sweep, Purge
  <2> QED BY <2>1 DEF Apart
<1>3. CallerOK(u)
  BY <1>2 DEF Apart
<1>4. todo[u] # <<>> /\ Effect(u)
  BY <1>1, <1>2, <1>3, StepOwn
<1>5. /\ CallerOK(u)' /\ Mine(u)' \subseteq Mine(u) \cup {made + 1}
      /\ made + 1 \in Mine(u)' => made' = made + 1
  BY <1>1, <1>2, <1>3, <1>4, WellIsOK
<1>6. PICK rest, c, d, a : Lands(u, rest, c, d, a)
  BY <1>4 DEF Effect
<1>7. /\ UNCHANGED <<setup, job>> /\ Types' /\ Crew' = Crew
      /\ \A w \in Users \ {u} : todo'[w] = todo[w] /\ rd'[w] = rd[w] /\ answer'[w] = answer[w]
      /\ \A t \in Threads \ {setup.home[u]} : conns'[t] = conns[t]
      /\ made' \in {made, made + 1} /\ open \subseteq open' \cup Mine(u)
  BY <1>6 DEF Lands, Crew
<1>8. ASSUME NEW w \in Crew, w # u
      PROVE  CallerOK(w)' /\ Mine(w)' = Mine(w)
  <2>1. w \in Users /\ setup.home[w] \in Threads
    BY <1>1, Homes
  <2>2. setup.home[w] # setup.home[u]
    BY <1>2, <1>8 DEF Separate
  <2>3. /\ todo'[w] = todo[w] /\ rd'[w] = rd[w] /\ job'[w] = job[w] /\ answer'[w] = answer[w]
        /\ conns'[setup.home[w]] = conns[setup.home[w]] /\ setup' = setup
    BY <1>7, <1>8, <2>1, <2>2
  <2>4. CallerOK(w) /\ Mine(u) \cap Mine(w) = {}
    BY <1>2, <1>8 DEF Apart
  <2> QED BY <1>1, <1>2, <1>7, <1>8, <2>3, <2>4, OthersStay
<1>9. \A w \in Users \ Crew' : todo'[w] = <<>>
  BY <1>2, <1>7 DEF Apart
<1>10. \A w \in Crew' : CallerOK(w)'
  BY <1>5, <1>7, <1>8
<1>11. ASSUME NEW w \in Crew, w # u
       PROVE  Mine(u)' \cap Mine(w)' = {}
  <2>1. Mine(w) \subseteq 1..made /\ made \in Nat /\ Mine(u) \cap Mine(w) = {}
    BY <1>1, <1>2, <1>11 DEF Apart, CallerOK, Types
  <2>2. made + 1 \notin Mine(w)
    BY <2>1
  <2> QED BY <1>5, <1>8, <1>11, <2>1, <2>2
<1>12. \A v, w \in Crew' : v # w => Mine(v)' \cap Mine(w)' = {}
  <2> SUFFICES ASSUME NEW v \in Crew, NEW w \in Crew, v # w
               PROVE  Mine(v)' \cap Mine(w)' = {}
    BY <1>7
  <2>1. CASE v = u
    BY <1>11, <2>1
  <2>2. CASE w = u
    BY <1>11, <2>2
  <2>3. CASE v # u /\ w # u
    BY <1>8, <2>3 DEF Apart
  <2> QED BY <2>1, <2>2, <2>3
<1> QED
  BY <1>7, <1>9, <1>10, <1>12 DEF Apart

\* No caller of the store alone takes a step of an adapter, or of the wrapper.
LEMMA NoAdapters ==
  ASSUME Apart, NEW u \in Users
  PROVE  ~AdapterStep(u) /\ ~WrapperStep(u)
<1>1. Step(u) \in {"none", "lookup", "connect", "store", "seek", "own", "shut", "delete"}
  <2>1. CASE u \in Crew
    BY <2>1, StepsOfStore DEF Apart
  <2>2. CASE u \notin Crew
    BY <2>2 DEF Apart, Step
  <2> QED BY <2>1, <2>2
<1>2. ~AdapterStep(u)
  BY <1>1 DEF AdapterStep, At, HaveAttr, HavePool, KeepPool, AwaitPool, KeepAttr, ClearAttr, ClearPool,
              Command, ShutAttr
<1>3. ~WrapperStep(u)
  BY <1>1 DEF WrapperStep, At, GetAdapter, SharedAdapter, Make, Install, Share, Unset, VirtEnterStep,
              EnteredStep, VirtExitStep, ExitedStep
<1> QED
  BY <1>2, <1>3

\* Before the first call nothing is stored, and no one has anything left to do.
LEMMA OwnStart == Init => OwnInv
<1> SUFFICES ASSUME Init PROVE setup \in Setups /\ Apart
  BY DEF OwnInv
<1>1. StoreInit
  BY DEF Init
<1>2. Types
  BY <1>1 DEF StoreInit, Types
<1>3. \A u \in Users : todo[u] = <<>> /\ job[u].op = "none" /\ job[u].op \notin Getting
  BY <1>1 DEF StoreInit, NoJob, Getting
<1>4. ASSUME NEW u \in Crew
      PROVE  CallerOK(u) /\ Mine(u) = {}
  <2>1. u \in Users /\ setup.home[u] \in Threads
    BY <1>2, Homes
  <2>2. Step(u) = "none" /\ Stored(u) = Nothing
    BY <1>1, <1>3, <2>1 DEF StoreInit, Step, Stored
  <2>3. Mine(u) = {}
    BY <2>2 DEF Mine
  <2> QED BY <1>3, <2>1, <2>2, <2>3 DEF CallerOK, RestOK
<1> QED
  BY <1>2, <1>3, <1>4 DEF Apart, Types

\* Every step keeps each caller in order.
LEMMA OwnStep == OwnInv /\ [CtxNext]_allVars => OwnInv'
<1> SUFFICES ASSUME OwnInv, [CtxNext]_allVars PROVE OwnInv'
  OBVIOUS
<1>1. setup' = setup
  <2>1. ASSUME NEW u \in Users, AskSome(u) PROVE setup' = setup
    BY <2>1 DEF AskSome, Ask
  <2>2. ASSUME NEW u \in Users, NEW op, CtxAsk(u, op) PROVE setup' = setup
    BY <2>2 DEF CtxAsk
  <2>3. ASSUME NEW u \in Users, StoreStepHere(u) PROVE setup' = setup
    BY <2>3 DEF StoreStepHere, StoreStep
  <2>4. ASSUME NEW u \in Users, AdapterStep(u) PROVE setup' = setup
    BY <2>4 DEF AdapterStep, ShutAttr
  <2>5. ASSUME NEW u \in Users, WrapperStep(u) PROVE setup' = setup
    BY <2>5 DEF WrapperStep, GetAdapter, SharedAdapter, Make, Install, Share, Unset, VirtEnterStep,
                EnteredStep, VirtExitStep, ExitedStep
  <2> QED BY <2>1, <2>2, <2>3, <2>4, <2>5 DEF CtxNext, allVars, vars
<1>2. (Separate' <=> Separate) /\ (Resets' <=> Resets)
  BY <1>1 DEF Separate, Resets, Does, Crew, Cleans
<1>3. setup \in Setups
  BY DEF OwnInv
<1> SUFFICES ASSUME Separate, ~Resets PROVE Apart'
  BY <1>1, <1>2, <1>3 DEF OwnInv
<1>4. Apart
  BY DEF OwnInv
<1>5. CASE UNCHANGED allVars
  <2>1. UNCHANGED <<setup, conns, made, open, todo, rd, job, answer>>
    BY <1>5 DEF allVars, vars
  <2>2. Types' /\ Crew' = Crew
    BY <1>4, <2>1 DEF Apart, Types, Crew
  <2>3. ASSUME NEW u \in Crew PROVE CallerOK(u)' /\ Mine(u)' = Mine(u)
    <3>1. Step(u)' = Step(u) /\ Stored(u)' = Stored(u)
      BY <2>1 DEF Step, Stored
    <3>2. Mine(u)' = Mine(u)
      BY <2>1, <3>1 DEF Mine
    <3>3. CallerOK(u)
      BY <1>4 DEF Apart
    <3> QED BY <2>1, <3>1, <3>2, <3>3 DEF CallerOK, RestOK
  <2> QED BY <1>4, <2>1, <2>2, <2>3 DEF Apart
<1>6. ASSUME NEW u \in Users, NEW op \in setup.ops \cap CtxOps PROVE FALSE
  BY <1>6 DEF Separate, Does
<1>7. CASE CtxNext
  <2>1. PICK u \in Users : AskSome(u) \/ StoreStepHere(u)
    BY <1>4, <1>6, <1>7, NoAdapters DEF CtxNext
  <2>2. CASE AskSome(u)
    BY <1>4, <2>2, AskApart
  <2>3. CASE StoreStepHere(u)
    BY <1>4, <2>3, StoreApart DEF StoreStepHere
  <2> QED BY <2>1, <2>2, <2>3
<1> QED
  BY <1>5, <1>7

(* The connection that a get, a reset or a configure has returned to a     *)
(* thread is the one in the thread's store, and open, until the thread     *)
(* calls again: whatever the other threads ask of the store at the same    *)
(* time, as long as each keeps to its own thread's connection.             *)
THEOREM ThreadsKeepTheirOwn == Spec => []KeepsItsOwn
<1>1. OwnInv => KeepsItsOwn
  <2> SUFFICES ASSUME OwnInv, Separate, ~Resets, NEW u \in Crew, todo[u] = <<>>,
                      job[u].op \in Getting, answer[u] # Raised
               PROVE  conns[setup.home[u]] = answer[u].conn /\ answer[u].conn \in open
    BY DEF KeepsItsOwn, Getting
  <2>1. CallerOK(u)
    BY DEF OwnInv, Apart
  <2>2. Stored(u) = answer[u].conn /\ Stored(u) # Nothing
    BY <2>1 DEF CallerOK
  <2>3. Stored(u) \in Mine(u) /\ Mine(u) \subseteq open
    BY <2>1, <2>2 DEF CallerOK, Mine, Step
  <2> QED BY <2>2, <2>3 DEF Stored
<1> QED
  BY <1>1, OwnStart, OwnStep, PTL DEF Spec

-----------------------------------------------------------------------------
\* The programs of the adapters and the wrapper (ctx) and those of the store: which steps
\* they are made of, what follows a step, and what is behind a step that may skip.
StoreSteps == {"lookup", "connect", "store", "promise", "seek", "own", "shut", "delete", "walk",
               "sweep", "drop", "purge"}
CtxSteps == {"lookup", "connect", "store", "seek", "shut", "delete", "have_attr", "have_pool",
             "keep_pool", "await_pool", "keep_attr", "clear_attr", "clear_pool", "command", "shut_attr",
             "get_adapter", "shared", "make", "install", "share", "unset",
             "virt_enter", "entered", "virt_exit", "exited"}
Words == StoreSteps \cup CtxSteps
Ends == {"sweep", "drop", "purge", "entered", "exited", "unset"}
Haves == {"have_attr", "have_pool"}

Follows(ctx, a, b) ==
  /\ a \notin Ends
  /\ a = "lookup" => b = "connect"
  /\ a = "connect" => b \in {"store", "keep_attr"}
  /\ a = "store" => b \in {"keep_attr", "keep_pool"}
  /\ a = "promise" => b = "connect"
  /\ a \in {"seek", "own"} => b = "shut"
  /\ a = "shut" => b \in {"delete", "walk", "sweep"}
  /\ a = "walk" => b = "sweep"
  /\ a = "delete" => b \in IF ctx THEN Haves \cup {"exited"} ELSE {"connect", "lookup", "promise"}
  /\ a = "have_attr" => b \in {"lookup", "connect", "await_pool"}
  /\ a = "have_pool" => b = "lookup"
  /\ a = "keep_pool" => b = "have_attr"
  /\ a = "await_pool" => b = "keep_attr"
  /\ a = "keep_attr" =>
       b \in Haves \cup {"command", "install", "share", "unset", "shut_attr", "entered", "exited"}
  /\ a = "command" => b \in Haves \cup {"shut_attr"}
  /\ a = "shut_attr" => b = "clear_attr"
  /\ a = "clear_attr" => b \in {"clear_pool", "seek"}
  /\ a = "clear_pool" => b = "seek"
  /\ a \in {"get_adapter", "shared"} => b = "make"
  /\ a = "make" => b \in {"lookup", "install", "share", "unset"}
  /\ a = "install" => b \in Haves \cup {"make", "virt_enter", "shut_attr"}
  /\ a = "share" => b \in Haves \cup {"install"}
  /\ a \in {"virt_enter", "virt_exit"} => b = "shut_attr"

\* The step k places behind place i of s.
Looks(s, i, k, a) == i + k <= Len(s) /\ s[i + k] = a
Pair(s, i, a, b) == Looks(s, i, 1, a) /\ Looks(s, i, 2, b)
Gain(s, i, a) == Pair(s, i, "lookup", "connect") /\ Looks(s, i, 3, "store") /\ Looks(s, i, 4, a)

\* How many steps make an adapter, and enter and leave it.
MakeLen(kind) == IF kind = "redis" THEN 5 ELSE 1
EnterLen(kind) == CASE kind = "redis" -> 10 [] kind = "aioredis" -> 14 [] OTHER -> 8
ExitLen(kind) == IF kind \in Sync THEN 5 ELSE EnterLen(kind)

Fits(kind, ctx, s, i) ==
  /\ s[i] \in IF ctx THEN CtxSteps ELSE StoreSteps
  /\ s[i] = "lookup" => Pair(s, i, "connect", "store")
  /\ s[i] = "promise" => Len(s) = i + 1
  /\ s[i] = "seek" => Pair(s, i, "shut", "delete")
  /\ s[i] = "own" => Pair(s, i, "shut", "delete") \/ Pair(s, i, "shut", "sweep")
  /\ s[i] = "have_attr" =>
       IF kind = "redis" THEN Gain(s, i, "keep_attr")
       ELSE Pair(s, i, IF kind = "aioredis" THEN "await_pool" ELSE "connect", "keep_attr")
  /\ s[i] = "have_pool" => kind = "aioredis" /\ Gain(s, i, "keep_pool") /\ Looks(s, i, 5, "have_attr")
  /\ s[i] = "shut_attr" =>
       Pair(s, i, "clear_attr", IF kind = "aioredis" THEN "clear_pool" ELSE "seek")
  /\ s[i] = "make" =>
       IF kind = "redis" THEN Gain(s, i, "keep_attr")
       ELSE \E a \in {"install", "share", "unset"} : Looks(s, i, 1, a)
  /\ s[i] = "get_adapter" => Looks(s, i, MakeLen(kind) + 1, "install")
  /\ s[i] = "shared" => /\ Looks(s, i, MakeLen(kind) + 1, "share")
                        /\ kind \notin Sync => Looks(s, i, MakeLen(kind) + 2, "install")
  /\ s[i] = "virt_enter" => Looks(s, i, EnterLen(kind) + 1, "entered")
  /\ s[i] = "virt_exit" => Looks(s, i, ExitLen(kind) + 1, "exited")

Shape(kind, ctx, s) ==
  /\ s \in Seq(Words)
  /\ \A i \in 1..Len(s) : Fits(kind, ctx, s, i) /\ (i < Len(s) => Follows(ctx, s[i], s[i + 1]))

-----------------------------------------------------------------------------

\* Short lists one after the other.
LEMMA JoinOneThree ==
  ASSUME NEW a, NEW b, NEW c, NEW d
  PROVE  <<a>> \o <<b, c, d>> = <<a, b, c, d>>
<1> DEFINE S == {a, b, c, d}
<1>1. \A s, t \in Seq(S) : Len(s) = Len(t) /\ (\A i \in 1..Len(s) : s[i] = t[i]) => s = t
  BY SeqEqual
<1>2. a \in S /\ b \in S /\ c \in S /\ d \in S
  OBVIOUS
<1> HIDE DEF S
<1>3. <<a>> \o <<b, c, d>> \in Seq(S) /\ <<a, b, c, d>> \in Seq(S)
  BY <1>2
<1>4. Len(<<a>> \o <<b, c, d>>) = 4 /\ Len(<<a, b, c, d>>) = 4
  OBVIOUS
<1>5. \A i \in 1..4 : (<<a>> \o <<b, c, d>>)[i] = <<a, b, c, d>>[i]
  OBVIOUS
<1> QED
  BY <1>1, <1>3, <1>4, <1>5

\* The same for other lengths.
LEMMA JoinThreeOne ==
  ASSUME NEW a, NEW b, NEW c, NEW d
  PROVE  <<a, b, c>> \o <<d>> = <<a, b, c, d>>
<1> DEFINE S == {a, b, c, d}
<1>1. \A s, t \in Seq(S) : Len(s) = Len(t) /\ (\A i \in 1..Len(s) : s[i] = t[i]) => s = t
  BY SeqEqual
<1>2. a \in S /\ b \in S /\ c \in S /\ d \in S
  OBVIOUS
<1> HIDE DEF S
<1>3. <<a, b, c>> \o <<d>> \in Seq(S) /\ <<a, b, c, d>> \in Seq(S)
  BY <1>2
<1>4. Len(<<a, b, c>> \o <<d>>) = 4 /\ Len(<<a, b, c, d>>) = 4
  OBVIOUS
<1>5. \A i \in 1..4 : (<<a, b, c>> \o <<d>>)[i] = <<a, b, c, d>>[i]
  OBVIOUS
<1> QED
  BY <1>1, <1>3, <1>4, <1>5

\* The same for other lengths.
LEMMA JoinFourOne ==
  ASSUME NEW a, NEW b, NEW c, NEW d, NEW e
  PROVE  <<a, b, c, d>> \o <<e>> = <<a, b, c, d, e>>
<1> DEFINE S == {a, b, c, d, e}
<1>1. \A s, t \in Seq(S) : Len(s) = Len(t) /\ (\A i \in 1..Len(s) : s[i] = t[i]) => s = t
  BY SeqEqual
<1>2. a \in S /\ b \in S /\ c \in S /\ d \in S /\ e \in S
  OBVIOUS
<1> HIDE DEF S
<1>3. <<a, b, c, d>> \o <<e>> \in Seq(S) /\ <<a, b, c, d, e>> \in Seq(S)
  BY <1>2
<1>4. Len(<<a, b, c, d>> \o <<e>>) = 5 /\ Len(<<a, b, c, d, e>>) = 5
  OBVIOUS
<1>5. \A i \in 1..5 : (<<a, b, c, d>> \o <<e>>)[i] = <<a, b, c, d, e>>[i]
  OBVIOUS
<1> QED
  BY <1>1, <1>3, <1>4, <1>5

\* The same for other lengths.
LEMMA JoinOneFour ==
  ASSUME NEW a, NEW b, NEW c, NEW d, NEW e
  PROVE  <<a>> \o <<b, c, d, e>> = <<a, b, c, d, e>>
<1> DEFINE S == {a, b, c, d, e}
<1>1. \A s, t \in Seq(S) : Len(s) = Len(t) /\ (\A i \in 1..Len(s) : s[i] = t[i]) => s = t
  BY SeqEqual
<1>2. a \in S /\ b \in S /\ c \in S /\ d \in S /\ e \in S
  OBVIOUS
<1> HIDE DEF S
<1>3. <<a>> \o <<b, c, d, e>> \in Seq(S) /\ <<a, b, c, d, e>> \in Seq(S)
  BY <1>2
<1>4. Len(<<a>> \o <<b, c, d, e>>) = 5 /\ Len(<<a, b, c, d, e>>) = 5
  OBVIOUS
<1>5. \A i \in 1..5 : (<<a>> \o <<b, c, d, e>>)[i] = <<a, b, c, d, e>>[i]
  OBVIOUS
<1> QED
  BY <1>1, <1>3, <1>4, <1>5

\* The same for other lengths.
LEMMA JoinThreeTwo ==
  ASSUME NEW a, NEW b, NEW c, NEW d, NEW e
  PROVE  <<a, b, c>> \o <<d, e>> = <<a, b, c, d, e>>
<1> DEFINE S == {a, b, c, d, e}
<1>1. \A s, t \in Seq(S) : Len(s) = Len(t) /\ (\A i \in 1..Len(s) : s[i] = t[i]) => s = t
  BY SeqEqual
<1>2. a \in S /\ b \in S /\ c \in S /\ d \in S /\ e \in S
  OBVIOUS
<1> HIDE DEF S
<1>3. <<a, b, c>> \o <<d, e>> \in Seq(S) /\ <<a, b, c, d, e>> \in Seq(S)
  BY <1>2
<1>4. Len(<<a, b, c>> \o <<d, e>>) = 5 /\ Len(<<a, b, c, d, e>>) = 5
  OBVIOUS
<1>5. \A i \in 1..5 : (<<a, b, c>> \o <<d, e>>)[i] = <<a, b, c, d, e>>[i]
  OBVIOUS
<1> QED
  BY <1>1, <1>3, <1>4, <1>5

\* The same for other lengths.
LEMMA JoinTwoThree ==
  ASSUME NEW a, NEW b, NEW c, NEW d, NEW e
  PROVE  <<a, b>> \o <<c, d, e>> = <<a, b, c, d, e>>
<1> DEFINE S == {a, b, c, d, e}
<1>1. \A s, t \in Seq(S) : Len(s) = Len(t) /\ (\A i \in 1..Len(s) : s[i] = t[i]) => s = t
  BY SeqEqual
<1>2. a \in S /\ b \in S /\ c \in S /\ d \in S /\ e \in S
  OBVIOUS
<1> HIDE DEF S
<1>3. <<a, b>> \o <<c, d, e>> \in Seq(S) /\ <<a, b, c, d, e>> \in Seq(S)
  BY <1>2
<1>4. Len(<<a, b>> \o <<c, d, e>>) = 5 /\ Len(<<a, b, c, d, e>>) = 5
  OBVIOUS
<1>5. \A i \in 1..5 : (<<a, b>> \o <<c, d, e>>)[i] = <<a, b, c, d, e>>[i]
  OBVIOUS
<1> QED
  BY <1>1, <1>3, <1>4, <1>5

\* The same for other lengths.
LEMMA JoinFourFour ==
  ASSUME NEW a, NEW b, NEW c, NEW d, NEW e, NEW f, NEW g, NEW h
  PROVE  <<a, b, c, d>> \o <<e, f, g, h>> = <<a, b, c, d, e, f, g, h>>
<1> DEFINE S == {a, b, c, d, e, f, g, h}
<1>1. \A s, t \in Seq(S) : Len(s) = Len(t) /\ (\A i \in 1..Len(s) : s[i] = t[i]) => s = t
  BY SeqEqual
<1>2. a \in S /\ b \in S /\ c \in S /\ d \in S /\ e \in S /\ f \in S /\ g \in S /\ h \in S
  OBVIOUS
<1> HIDE DEF S
<1>3. <<a, b, c, d>> \o <<e, f, g, h>> \in Seq(S) /\ <<a, b, c, d, e, f, g, h>> \in Seq(S)
  BY <1>2
<1>4. Len(<<a, b, c, d>> \o <<e, f, g, h>>) = 8 /\ Len(<<a, b, c, d, e, f, g, h>>) = 8
  OBVIOUS
<1>5. \A i \in 1..8 : (<<a, b, c, d>> \o <<e, f, g, h>>)[i] = <<a, b, c, d, e, f, g, h>>[i]
  OBVIOUS
<1> QED
  BY <1>1, <1>3, <1>4, <1>5

\* The same for other lengths.
LEMMA JoinThreeThree ==
  ASSUME NEW a, NEW b, NEW c, NEW d, NEW e, NEW f
  PROVE  <<a, b, c>> \o <<d, e, f>> = <<a, b, c, d, e, f>>
<1> DEFINE S == {a, b, c, d, e, f}
<1>1. \A s, t \in Seq(S) : Len(s) = Len(t) /\ (\A i \in 1..Len(s) : s[i] = t[i]) => s = t
  BY SeqEqual
<1>2. a \in S /\ b \in S /\ c \in S /\ d \in S /\ e \in S /\ f \in S
  OBVIOUS
<1> HIDE DEF S
<1>3. <<a, b, c>> \o <<d, e, f>> \in Seq(S) /\ <<a, b, c, d, e, f>> \in Seq(S)
  BY <1>2
<1>4. Len(<<a, b, c>> \o <<d, e, f>>) = 6 /\ Len(<<a, b, c, d, e, f>>) = 6
  OBVIOUS
<1>5. \A i \in 1..6 : (<<a, b, c>> \o <<d, e, f>>)[i] = <<a, b, c, d, e, f>>[i]
  OBVIOUS
<1> QED
  BY <1>1, <1>3, <1>4, <1>5

\* The programs of an adapter, step by step.
LEMMA Written ==
  /\ RedisConnect = <<"have_attr", "lookup", "connect", "store", "keep_attr">>
  /\ AsyncRedisConnect = <<"have_pool", "lookup", "connect", "store", "keep_pool",
                           "have_attr", "await_pool", "keep_attr">>
  /\ RedisClose = <<"shut_attr", "clear_attr", "seek", "shut", "delete">>
  /\ MemcachedClose = RedisClose /\ AsyncMemcachedClose = RedisClose
  /\ AsyncRedisClose = <<"shut_attr", "clear_attr", "clear_pool", "seek", "shut", "delete">>
  /\ Construct = IF setup.kind = "redis"
                 THEN <<"make", "lookup", "connect", "store", "keep_attr">> ELSE <<"make">>
<1>1. RedisConnect = <<"have_attr", "lookup", "connect", "store", "keep_attr">>
  <2>1. <<"have_attr">> \o <<"lookup", "connect", "store">> = <<"have_attr", "lookup", "connect", "store">>
    BY JoinOneThree
  <2>2. <<"have_attr", "lookup", "connect", "store">> \o <<"keep_attr">>
          = <<"have_attr", "lookup", "connect", "store", "keep_attr">>
    BY JoinFourOne
  <2> QED BY <2>1, <2>2 DEF RedisConnect, get_redis
<1>2. AsyncRedisConnect = <<"have_pool", "lookup", "connect", "store", "keep_pool",
                            "have_attr", "await_pool", "keep_attr">>
  <2>1. <<"have_pool">> \o <<"lookup", "connect", "store">> = <<"have_pool", "lookup", "connect", "store">>
    BY JoinOneThree
  <2>2. <<"have_pool", "lookup", "connect", "store">> \o <<"keep_pool", "have_attr", "await_pool", "keep_attr">>
          = <<"have_pool", "lookup", "connect", "store", "keep_pool", "have_attr", "await_pool", "keep_attr">>
    BY JoinFourFour
  <2> QED BY <2>1, <2>2 DEF AsyncRedisConnect, get_redis_async
<1>3. RedisClose = <<"shut_attr", "clear_attr", "seek", "shut", "delete">>
  BY JoinTwoThree DEF RedisClose, close_redis
<1>4. MemcachedClose = RedisClose /\ AsyncMemcachedClose = RedisClose
  BY DEF RedisClose, MemcachedClose, AsyncMemcachedClose, close_redis, close_memcached, close_memcached_async
<1>5. AsyncRedisClose = <<"shut_attr", "clear_attr", "clear_pool", "seek", "shut", "delete">>
  BY JoinThreeThree DEF AsyncRedisClose, close_redis_async
<1>6. Construct = IF setup.kind = "redis"
                  THEN <<"make", "lookup", "connect", "store", "keep_attr">> ELSE <<"make">>
  <2>1. get_redis \o <<"keep_attr">> = <<"lookup", "connect", "store", "keep_attr">>
    BY JoinThreeOne DEF get_redis
  <2>2. <<"make">> \o <<"lookup", "connect", "store", "keep_attr">>
          = <<"make", "lookup", "connect", "store", "keep_attr">>
    BY JoinOneFour
  <2>3. <<"make">> \o <<>> = <<"make">>
    <3>1. <<"make">> \in Seq({"make"})
      OBVIOUS
    <3> QED BY <3>1, ConcatEmptySeq
  <2> QED BY <2>1, <2>2, <2>3 DEF Construct
<1> QED
  BY <1>1, <1>2, <1>3, <1>4, <1>5, <1>6

\* How long they are.
LEMMA Lengths ==
  /\ Len(Construct) = MakeLen(setup.kind)
  /\ setup.kind \in Wrapped => Len(Enter) = EnterLen(setup.kind) /\ Len(Exit) = ExitLen(setup.kind)
<1>1. Len(Construct) = MakeLen(setup.kind)
  BY Written DEF MakeLen
<1>2. ASSUME setup.kind \in Wrapped PROVE Len(Enter) = EnterLen(setup.kind) /\ Len(Exit) = ExitLen(setup.kind)
  <2>1. Enter = close \o connect /\ Exit = IF setup.kind \in Sync THEN close ELSE close \o connect
    BY DEF Enter, Exit, adapter_enter, adapter_aenter, adapter_exit, adapter_aexit, reconnect
  <2>2. /\ close \in Seq(CtxSteps) /\ connect \in Seq(CtxSteps)
        /\ Len(close) = IF setup.kind = "aioredis" THEN 6 ELSE 5
        /\ Len(connect) = CASE setup.kind = "redis" -> 5 [] setup.kind = "aioredis" -> 8 [] OTHER -> 3
    <3>1. RedisConnect \in Seq(CtxSteps) /\ AsyncRedisConnect \in Seq(CtxSteps)
      BY Written DEF CtxSteps
    <3>2. MemcachedConnect \in Seq(CtxSteps) /\ AsyncMemcachedConnect \in Seq(CtxSteps)
      BY DEF MemcachedConnect, AsyncMemcachedConnect, CtxSteps
    <3>3. RedisClose \in Seq(CtxSteps) /\ AsyncRedisClose \in Seq(CtxSteps)
      BY Written DEF CtxSteps
    <3>4. Len(RedisConnect) = 5 /\ Len(AsyncRedisConnect) = 8 /\ Len(MemcachedConnect) = 3
          /\ Len(AsyncMemcachedConnect) = 3 /\ Len(RedisClose) = 5 /\ Len(AsyncRedisClose) = 6
      BY Written DEF MemcachedConnect, AsyncMemcachedConnect
    <3>5. connect = CASE setup.kind = "redis" -> RedisConnect [] setup.kind = "aioredis" -> AsyncRedisConnect
                      [] OTHER -> MemcachedConnect
      BY <1>2 DEF connect, Wrapped, MemcachedConnect, AsyncMemcachedConnect
    <3>6. close = IF setup.kind = "aioredis" THEN AsyncRedisClose ELSE RedisClose
      BY <1>2, Written DEF close, Wrapped
    <3>7. connect \in Seq(CtxSteps) /\ close \in Seq(CtxSteps)
      BY <3>1, <3>2, <3>3, <3>5, <3>6
    <3>8. Len(close) = IF setup.kind = "aioredis" THEN 6 ELSE 5
      BY <3>4, <3>6
    <3>9. Len(connect) = CASE setup.kind = "redis" -> 5 [] setup.kind = "aioredis" -> 8 [] OTHER -> 3
      BY <3>4, <3>5
    <3> QED BY <3>7, <3>8, <3>9
  <2>3. Len(close \o connect) = Len(close) + Len(connect)
    <3>1. close \in Seq(CtxSteps) /\ connect \in Seq(CtxSteps)
      BY <2>2
    <3> QED BY <3>1, ConcatProperties
  <2>4. Len(Enter) = EnterLen(setup.kind)
    BY <1>2, <2>1, <2>2, <2>3 DEF EnterLen
  <2>5. Len(Exit) = ExitLen(setup.kind)
    <3>1. setup.kind = "aioredis" => setup.kind \notin Sync
      BY DEF Sync
    <3>2. CASE setup.kind \in Sync
      BY <2>1, <2>2, <3>1, <3>2 DEF ExitLen
    <3>3. CASE setup.kind \notin Sync
      BY <2>1, <2>4, <3>3 DEF ExitLen
    <3> QED BY <3>2, <3>3
  <2> QED BY <2>4, <2>5
<1> QED
  BY <1>1, <1>2

\* A step fits wherever the same is behind it.
LEMMA FitsAgain ==
  ASSUME NEW kind, NEW ctx, NEW s, NEW i, Fits(kind, ctx, s, i),
         NEW r, NEW j, r[j] = s[i], s[i] = "promise" => Len(r) = j + 1,
         \A a : \A k \in Nat : Looks(s, i, k, a) => Looks(r, j, k, a)
  PROVE  Fits(kind, ctx, r, j)
<1>1. \A a, b : Pair(s, i, a, b) => Pair(r, j, a, b)
  BY DEF Pair
<1>2. \A a : Gain(s, i, a) => Gain(r, j, a)
  BY <1>1 DEF Gain
<1>3. MakeLen(kind) \in Nat /\ EnterLen(kind) \in Nat /\ ExitLen(kind) \in Nat
  <2>1. MakeLen(kind) \in Nat
    BY DEF MakeLen
  <2>2. EnterLen(kind) \in Nat
    BY DEF EnterLen
  <2> QED BY <2>1, <2>2 DEF ExitLen
<1>4. s[i] = "get_adapter" => Looks(r, j, MakeLen(kind) + 1, "install")
  BY <1>3 DEF Fits
<1>5. s[i] = "shared" => /\ Looks(r, j, MakeLen(kind) + 1, "share")
                         /\ kind \notin Sync => Looks(r, j, MakeLen(kind) + 2, "install")
  BY <1>3 DEF Fits
<1>6. s[i] = "virt_enter" => Looks(r, j, EnterLen(kind) + 1, "entered")
  BY <1>3 DEF Fits
<1>7. s[i] = "virt_exit" => Looks(r, j, ExitLen(kind) + 1, "exited")
  BY <1>3 DEF Fits
<1>8. s[i] = "make" => IF kind = "redis" THEN Gain(r, j, "keep_attr")
                       ELSE \E a \in {"install", "share", "unset"} : Looks(r, j, 1, a)
  BY <1>2 DEF Fits
<1>9. s[i] = "have_pool" => kind = "aioredis" /\ Gain(r, j, "keep_pool") /\ Looks(r, j, 5, "have_attr")
  BY <1>2 DEF Fits
<1> QED
  BY <1>1, <1>2, <1>4, <1>5, <1>6, <1>7, <1>8, <1>9 DEF Fits

\* What is left of a program has the shape of one.
LEMMA DropShape ==
  ASSUME NEW kind, NEW ctx, NEW s, Shape(kind, ctx, s), NEW n \in Nat, n <= Len(s)
  PROVE  /\ Shape(kind, ctx, Drop(s, n)) /\ Len(Drop(s, n)) = Len(s) - n
         /\ \A i \in 1..Len(s) - n : Drop(s, n)[i] = s[n + i]
         /\ Drop(s, n) = <<>> <=> n = Len(s)
<1> DEFINE r == Drop(s, n)
<1>1. s \in Seq(Words) /\ Len(s) \in Nat
  BY DEF Shape
<1>2. /\ r \in Seq(Words) /\ Len(r) = Len(s) - n
      /\ \A i \in 1..Len(s) - n : r[i] = s[n + i]
  BY <1>1 DEF Drop
<1>3. r = <<>> <=> n = Len(s)
  BY <1>1, <1>2
<1> HIDE DEF r
<1>4. ASSUME NEW i \in 1..Len(r)
      PROVE  Fits(kind, ctx, r, i) /\ (i < Len(r) => Follows(ctx, r[i], r[i + 1]))
  <2>1. n + i \in 1..Len(s) /\ r[i] = s[n + i]
    BY <1>1, <1>2
  <2>2. Fits(kind, ctx, s, n + i) /\ (n + i < Len(s) => Follows(ctx, s[n + i], s[n + i + 1]))
    BY <2>1 DEF Shape
  <2>3. \A a : \A k \in Nat : Looks(s, n + i, k, a) => Looks(r, i, k, a)
    <3> SUFFICES ASSUME NEW k \in Nat, NEW a, Looks(s, n + i, k, a)
                 PROVE  Looks(r, i, k, a)
      OBVIOUS
    <3>1. n + i + k <= Len(s) /\ s[n + i + k] = a
      BY DEF Looks
    <3>2. i + k \in 1..Len(s) - n /\ n + (i + k) = n + i + k
      BY <1>1, <1>2, <3>1
    <3>3. r[i + k] = s[n + (i + k)]
      BY <1>2, <3>2
    <3> QED BY <1>1, <1>2, <3>1, <3>2, <3>3 DEF Looks
  <2>4. i < Len(r) => Follows(ctx, r[i], r[i + 1])
    <3> HAVE i < Len(r)
    <3>1. i + 1 \in 1..Len(s) - n /\ n + (i + 1) = n + i + 1 /\ n + i < Len(s)
      BY <1>1, <1>2
    <3>2. r[i + 1] = s[n + (i + 1)]
      BY <1>2, <3>1
    <3> QED BY <2>1, <2>2, <3>1, <3>2
  <2>5. s[n + i] = "promise" => Len(r) = i + 1
    <3> HAVE s[n + i] = "promise"
    <3>1. Len(s) = (n + i) + 1
      BY <2>2 DEF Fits
    <3>2. n \in Int /\ i \in Int /\ Len(s) \in Int /\ Len(r) = Len(s) - n
      BY <1>1, <1>2
    <3> QED BY <3>1, <3>2
  <2>6. Fits(kind, ctx, r, i)
    BY <2>1, <2>2, <2>3, <2>5, FitsAgain DEF Shape
  <2> QED BY <2>4, <2>6
<1>5. Shape(kind, ctx, r)
  BY <1>2, <1>4 DEF Shape
<1> QED
  BY <1>2, <1>3, <1>5 DEF r

\* A program of the adapters that begins with a and ends with b, of the steps in W.
Block(s, a, b, W) ==
  /\ setup.kind \in Wrapped
  /\ Shape(setup.kind, TRUE, s)
  /\ Len(s) > 0 /\ s[1] = a /\ s[Len(s)] = b
  /\ \A i \in 1..Len(s) : s[i] \in W

\* Two of them one after the other.
LEMMA JoinBlocks ==
  ASSUME NEW s, NEW a, NEW b, NEW V, Block(s, a, b, V),
         NEW t, NEW c, NEW d, NEW W, Block(t, c, d, W), Follows(TRUE, b, c)
  PROVE  Block(s \o t, a, d, V \cup W) /\ Len(s \o t) = Len(s) + Len(t)
<1> DEFINE r == s \o t
<1>1. s \in Seq(Words) /\ Len(s) \in Nat /\ t \in Seq(Words) /\ Len(t) \in Nat
  BY DEF Block, Shape
<1>2. /\ r \in Seq(Words) /\ Len(r) = Len(s) + Len(t)
      /\ \A i \in 1..Len(s) : r[i] = s[i]
      /\ \A i \in 1..Len(t) : r[Len(s) + i] = t[i]
  BY <1>1
<1> HIDE DEF r
<1>3. ASSUME NEW i \in 1..Len(s)
      PROVE  Fits(setup.kind, TRUE, r, i) /\ (i < Len(r) => Follows(TRUE, r[i], r[i + 1]))
  <2>1. Fits(setup.kind, TRUE, s, i) /\ (i < Len(s) => Follows(TRUE, s[i], s[i + 1])) /\ r[i] = s[i]
    BY <1>2 DEF Block, Shape
  <2>2. \A x : \A k \in Nat : Looks(s, i, k, x) => Looks(r, i, k, x)
    <3> SUFFICES ASSUME NEW k \in Nat, NEW x, Looks(s, i, k, x)
                 PROVE  Looks(r, i, k, x)
      OBVIOUS
    <3>1. i + k \in 1..Len(s) /\ s[i + k] = x
      BY <1>1 DEF Looks
    <3> QED BY <1>1, <1>2, <3>1 DEF Looks
  <2>3. i < Len(r) => Follows(TRUE, r[i], r[i + 1])
    <3>1. CASE i < Len(s)
      <4>1. i + 1 \in 1..Len(s)
        BY <1>1, <3>1
      <4> QED BY <1>2, <2>1, <3>1, <4>1
    <3>2. CASE i = Len(s)
      <4>1. s[i] = b /\ t[1] = c /\ 1 \in 1..Len(t)
        BY <1>1, <3>2 DEF Block
      <4>2. r[i + 1] = t[1]
        BY <1>2, <3>2, <4>1
      <4> QED BY <2>1, <4>1, <4>2
    <3>3. i < Len(s) \/ i = Len(s)
      BY <1>1
    <3> QED BY <3>1, <3>2, <3>3
  <2>4. s[i] # "promise"
    BY <2>1 DEF Fits, CtxSteps
  <2>5. Fits(setup.kind, TRUE, r, i)
    BY <1>2, <2>1, <2>2, <2>4, FitsAgain DEF Block, Shape
  <2> QED BY <2>3, <2>5
<1>4. ASSUME NEW i \in Len(s) + 1..Len(r)
      PROVE  Fits(setup.kind, TRUE, r, i) /\ (i < Len(r) => Follows(TRUE, r[i], r[i + 1]))
  <2> DEFINE j == i - Len(s)
  <2>1. j \in 1..Len(t) /\ i = Len(s) + j /\ r[i] = t[j]
    BY <1>1, <1>2
  <2> HIDE DEF j
  <2>2. Fits(setup.kind, TRUE, t, j) /\ (j < Len(t) => Follows(TRUE, t[j], t[j + 1]))
    BY <2>1 DEF Block, Shape
  <2>3. \A x : \A k \in Nat : Looks(t, j, k, x) => Looks(r, i, k, x)
    <3> SUFFICES ASSUME NEW k \in Nat, NEW x, Looks(t, j, k, x)
                 PROVE  Looks(r, i, k, x)
      OBVIOUS
    <3>1. j + k \in 1..Len(t) /\ t[j + k] = x /\ i + k = Len(s) + (j + k)
      BY <1>1, <2>1 DEF Looks
    <3>2. r[i + k] = x /\ i + k <= Len(r)
      BY <1>1, <1>2, <3>1
    <3> QED BY <3>2 DEF Looks
  <2>4. i < Len(r) => Follows(TRUE, r[i], r[i + 1])
    <3> HAVE i < Len(r)
    <3>1. j + 1 \in 1..Len(t) /\ i + 1 = Len(s) + (j + 1) /\ j < Len(t)
      BY <1>1, <1>2, <2>1
    <3>2. r[i + 1] = t[j + 1]
      BY <1>2, <3>1
    <3> QED BY <2>1, <2>2, <3>1, <3>2
  <2>5. t[j] # "promise"
    BY <2>2 DEF Fits, CtxSteps
  <2>6. Fits(setup.kind, TRUE, r, i)
    BY <2>1, <2>2, <2>3, <2>5, FitsAgain DEF Block, Shape
  <2> QED BY <2>4, <2>6
<1>5. ASSUME NEW i \in 1..Len(r) PROVE r[i] \in V \cup W
  <2>1. CASE i \in 1..Len(s)
    BY <1>2, <2>1 DEF Block
  <2>2. CASE i > Len(s)
    <3>1. i - Len(s) \in 1..Len(t) /\ r[Len(s) + (i - Len(s))] = t[i - Len(s)] /\ i = Len(s) + (i - Len(s))
      BY <1>1, <1>2, <2>2
    <3> QED BY <3>1 DEF Block
  <2> QED BY <1>1, <2>1, <2>2
<1>6. Len(r) > 0 /\ r[1] = a /\ r[Len(r)] = d
  BY <1>1, <1>2 DEF Block
<1>7. Shape(setup.kind, TRUE, r)
  <2>1. \A i \in 1..Len(r) : i \in 1..Len(s) \/ i \in Len(s) + 1..Len(r)
    BY <1>1, <1>2
  <2> QED BY <1>2, <1>3, <1>4, <2>1 DEF Block, Shape
<1> QED
  BY <1>2, <1>5, <1>6, <1>7 DEF Block, r

\* A step before one of them.
LEMMA PutBefore ==
  ASSUME NEW t, NEW c, NEW d, NEW W, Block(t, c, d, W),
         NEW a \in Words, Fits(setup.kind, TRUE, <<a>> \o t, 1), Follows(TRUE, a, c)
  PROVE  Block(<<a>> \o t, a, d, {a} \cup W)
<1> DEFINE r == <<a>> \o t
<1>1. t \in Seq(Words) /\ Len(t) \in Nat
  BY DEF Block, Shape
<1>2. /\ r \in Seq(Words) /\ Len(r) = Len(t) + 1 /\ r[1] = a
      /\ \A i \in 1..Len(t) : r[i + 1] = t[i]
  BY <1>1
<1>3. Fits(setup.kind, TRUE, r, 1)
  OBVIOUS
<1> HIDE DEF r
<1>4. \A i \in 2..Len(r) : i - 1 \in 1..Len(t) /\ r[i] = t[i - 1]
  <2> TAKE i \in 2..Len(r)
  <2>1. i - 1 \in 1..Len(t) /\ i = (i - 1) + 1
    BY <1>1, <1>2
  <2> QED BY <1>2, <2>1
<1>5. ASSUME NEW i \in 2..Len(r)
      PROVE  Fits(setup.kind, TRUE, r, i) /\ (i < Len(r) => Follows(TRUE, r[i], r[i + 1]))
  <2> DEFINE j == i - 1
  <2>1. j \in 1..Len(t) /\ i = 1 + j /\ r[i] = t[j]
    BY <1>1, <1>4
  <2> HIDE DEF j
  <2>2. Fits(setup.kind, TRUE, t, j) /\ (j < Len(t) => Follows(TRUE, t[j], t[j + 1]))
    BY <2>1 DEF Block, Shape
  <2>3. \A x : \A k \in Nat : Looks(t, j, k, x) => Looks(r, i, k, x)
    <3> SUFFICES ASSUME NEW k \in Nat, NEW x, Looks(t, j, k, x)
                 PROVE  Looks(r, i, k, x)
      OBVIOUS
    <3>1. j + k \in 1..Len(t) /\ t[j + k] = x /\ i + k = (j + k) + 1
      BY <1>1, <2>1 DEF Looks
    <3>2. r[i + k] = x /\ i + k <= Len(r)
      BY <1>1, <1>2, <3>1
    <3> QED BY <3>2 DEF Looks
  <2>4. i < Len(r) => Follows(TRUE, r[i], r[i + 1])
    <3> HAVE i < Len(r)
    <3>1. j + 1 \in 1..Len(t) /\ i + 1 = (j + 1) + 1 /\ j < Len(t)
      BY <1>1, <1>2, <2>1
    <3>2. r[i + 1] = t[j + 1]
      BY <1>2, <3>1
    <3> QED BY <2>1, <2>2, <3>1, <3>2
  <2>5. t[j] # "promise"
    BY <2>2 DEF Fits, CtxSteps
  <2>6. Fits(setup.kind, TRUE, r, i)
    BY <2>1, <2>2, <2>3, <2>5, FitsAgain DEF Block, Shape
  <2> QED BY <2>4, <2>6
<1>6. Follows(TRUE, r[1], r[2])
  <2>1. r[2] = t[1] /\ t[1] = c
    BY <1>2, <1>4 DEF Block
  <2> QED BY <1>2, <2>1
<1>7. \A i \in 1..Len(r) : i = 1 \/ i \in 2..Len(r)
  BY <1>1, <1>2
<1>8. Shape(setup.kind, TRUE, r)
  <2>1. ASSUME NEW i \in 1..Len(r)
        PROVE  Fits(setup.kind, TRUE, r, i) /\ (i < Len(r) => Follows(TRUE, r[i], r[i + 1]))
    <3>1. CASE i = 1
      <4>1. i + 1 = 2
        BY <3>1
      <4> QED BY <1>3, <1>6, <3>1, <4>1
    <3>2. CASE i \in 2..Len(r)
      BY <1>5, <3>2
    <3> QED BY <1>7, <3>1, <3>2
  <2> QED BY <1>2, <2>1 DEF Block, Shape
<1>9. \A i \in 1..Len(r) : r[i] \in {a} \cup W
  BY <1>2, <1>4, <1>7 DEF Block
<1>10. r[Len(r)] = d
  BY <1>1, <1>2 DEF Block
<1> QED
  <2>1. Len(r) > 0
    BY <1>1, <1>2
  <2>2. Block(r, a, d, {a} \cup W)
    BY <1>2, <1>8, <1>9, <1>10, <2>1 DEF Block
  <2> QED BY <2>2 DEF r

\* Lists may be put together in any order.
LEMMA Associate ==
  ASSUME NEW r \in Seq(Words), NEW s \in Seq(Words), NEW t \in Seq(Words)
  PROVE  (r \o s) \o t = r \o (s \o t)
BY ConcatAssociative

\* A block is a sequence of words, not empty, of a setup whose adapters are wrapped.
LEMMA BlocksAre ==
  ASSUME NEW s, NEW a, NEW b, NEW W, Block(s, a, b, W)
  PROVE  s \in Seq(Words) /\ setup.kind \in Wrapped /\ s # <<>>
BY DEF Block, Shape

\* Steps that have nothing to look for behind them.
LEMMA SingleBlocks ==
  ASSUME setup.kind \in Wrapped,
         NEW a \in {"command", "entered", "exited", "install", "share", "unset"}
  PROVE  Block(<<a>>, a, a, {a})
<1>1. a \in Words /\ a \in CtxSteps
  BY DEF Words, CtxSteps
<1>2. <<a>> \in Seq(Words) /\ Len(<<a>>) = 1 /\ <<a>>[1] = a
  BY <1>1
<1>3. Fits(setup.kind, TRUE, <<a>>, 1)
  BY <1>1, <1>2 DEF Fits
<1>4. \A i \in 1..Len(<<a>>) : i = 1 /\ ~(i < Len(<<a>>))
  BY <1>2
<1> DEFINE s == <<a>>
<1>5. s \in Seq(Words) /\ Len(s) = 1 /\ s[1] = a /\ Fits(setup.kind, TRUE, s, 1) /\ \A i \in 1..Len(s) : i = 1 /\ ~(i < Len(s))
  BY <1>2, <1>3, <1>4
<1> HIDE DEF s
<1>6. Shape(setup.kind, TRUE, s)
  BY <1>5 DEF Shape
<1>7. Block(s, a, a, {a})
  <2>1. s[Len(s)] = a /\ Len(s) > 0
    BY <1>5
  <2>2. ASSUME NEW i \in 1..Len(s) PROVE s[i] \in {a}
    <3>1. i = 1
      BY <1>5
    <3> QED BY <1>5, <3>1
  <2> QED BY <1>5, <1>6, <2>1, <2>2 DEF Block
<1> QED
  BY <1>7 DEF s

\* The steps between two uses.
ConnectWords == {"lookup", "connect", "store", "have_attr", "have_pool", "keep_pool", "await_pool", "keep_attr"}
CloseWords == {"shut_attr", "clear_attr", "clear_pool", "seek", "shut", "delete"}

\* A block is well formed when its words are and each follows the one before it.
LEMMA BlockBy ==
  ASSUME setup.kind \in Wrapped, NEW s \in Seq(Words), NEW n \in Nat \ {0}, Len(s) = n, NEW W,
         \A i \in 1..n : s[i] \in W /\ Fits(setup.kind, TRUE, s, i),
         \A i \in 1..n : i < n => Follows(TRUE, s[i], s[i + 1]),
         NEW a, s[1] = a, NEW b, s[n] = b
  PROVE  Block(s, a, b, W)
<1>1. Shape(setup.kind, TRUE, s)
  BY DEF Shape
<1>2. Len(s) > 0 /\ s[Len(s)] = b
  OBVIOUS
<1> QED
  BY <1>1, <1>2 DEF Block

\* connect, of each kind of adapter.
LEMMA ConnectBlock ==
  ASSUME setup.kind \in Wrapped
  PROVE  \E a \in Haves : Block(connect, a, "keep_attr", ConnectWords)
<1>1. CASE setup.kind = "redis"
  <2> DEFINE s == <<"have_attr", "lookup", "connect", "store", "keep_attr">>
  <2>1. s \in Seq(Words) /\ Len(s) = 5
    BY DEF Words, CtxSteps
  <2>2. s[1] = "have_attr" /\ s[2] = "lookup" /\ s[3] = "connect" /\ s[4] = "store" /\ s[5] = "keep_attr"
    OBVIOUS
  <2>3. connect = s
    BY <1>1, Written DEF connect
  <2> HIDE DEF s
  <2>4. \A i \in 1..5 : i = 1 \/ i = 2 \/ i = 3 \/ i = 4 \/ i = 5
    OBVIOUS
  <2>5. \A i \in 1..5 : s[i] \in ConnectWords /\ Fits(setup.kind, TRUE, s, i)
    BY <1>1, <2>1, <2>2, <2>4 DEF Fits, Pair, Gain, Looks, CtxSteps, ConnectWords
  <2>6. \A i \in 1..5 : i < 5 => Follows(TRUE, s[i], s[i + 1])
    BY <2>2, <2>4 DEF Follows, Ends, Haves
  <2>7. Block(s, "have_attr", "keep_attr", ConnectWords)
    <3>1. 5 \in Nat \ {0} /\ setup.kind \in Wrapped
      OBVIOUS
    <3> QED BY <2>1, <2>2, <2>5, <2>6, <3>1, BlockBy
  <2> QED BY <2>3, <2>7 DEF Haves
<1>2. CASE setup.kind = "aioredis"
  <2> DEFINE s == <<"have_pool", "lookup", "connect", "store", "keep_pool", "have_attr", "await_pool", "keep_attr">>
  <2>1. s \in Seq(Words) /\ Len(s) = 8
    BY DEF Words, CtxSteps
  <2>2. s[1] = "have_pool" /\ s[2] = "lookup" /\ s[3] = "connect" /\ s[4] = "store" /\ s[5] = "keep_pool" /\ s[6] = "have_attr" /\ s[7] = "await_pool" /\ s[8] = "keep_attr"
    OBVIOUS
  <2>3. connect = s
    BY <1>2, Written DEF connect
  <2> HIDE DEF s
  <2>4. \A i \in 1..8 : i = 1 \/ i = 2 \/ i = 3 \/ i = 4 \/ i = 5 \/ i = 6 \/ i = 7 \/ i = 8
    OBVIOUS
  <2>5. \A i \in 1..8 : s[i] \in ConnectWords /\ Fits(setup.kind, TRUE, s, i)
    BY <1>2, <2>1, <2>2, <2>4 DEF Fits, Pair, Gain, Looks, CtxSteps, ConnectWords
  <2>6. \A i \in 1..8 : i < 8 => Follows(TRUE, s[i], s[i + 1])
    BY <2>2, <2>4 DEF Follows, Ends, Haves
  <2>7. Block(s, "have_pool", "keep_attr", ConnectWords)
    <3>1. 8 \in Nat \ {0} /\ setup.kind \in Wrapped
      OBVIOUS
    <3> QED BY <2>1, <2>2, <2>5, <2>6, <3>1, BlockBy
  <2> QED BY <2>3, <2>7 DEF Haves
<1>3. CASE setup.kind \in {"memcached", "aiomemcached"}
  <2> DEFINE s == <<"have_attr", "connect", "keep_attr">>
  <2>1. s \in Seq(Words) /\ Len(s) = 3
    BY DEF Words, CtxSteps
  <2>2. s[1] = "have_attr" /\ s[2] = "connect" /\ s[3] = "keep_attr"
    OBVIOUS
  <2>3. connect = s
    BY <1>3 DEF connect, MemcachedConnect, AsyncMemcachedConnect
  <2> HIDE DEF s
  <2>4. \A i \in 1..3 : i = 1 \/ i = 2 \/ i = 3
    OBVIOUS
  <2>5. \A i \in 1..3 : s[i] \in ConnectWords /\ Fits(setup.kind, TRUE, s, i)
    BY <1>3, <2>1, <2>2, <2>4 DEF Fits, Pair, Gain, Looks, CtxSteps, ConnectWords
  <2>6. \A i \in 1..3 : i < 3 => Follows(TRUE, s[i], s[i + 1])
    BY <2>2, <2>4 DEF Follows, Ends, Haves
  <2>7. Block(s, "have_attr", "keep_attr", ConnectWords)
    <3>1. 3 \in Nat \ {0} /\ setup.kind \in Wrapped
      OBVIOUS
    <3> QED BY <2>1, <2>2, <2>5, <2>6, <3>1, BlockBy
  <2> QED BY <2>3, <2>7 DEF Haves
<1> QED
  BY <1>1, <1>2, <1>3 DEF Wrapped

\* close, of each kind of adapter.
LEMMA CloseBlock ==
  ASSUME setup.kind \in Wrapped
  PROVE  Block(close, "shut_attr", "delete", CloseWords)
<1>1. CASE setup.kind = "aioredis"
  <2> DEFINE s == <<"shut_attr", "clear_attr", "clear_pool", "seek", "shut", "delete">>
  <2>1. s \in Seq(Words) /\ Len(s) = 6
    BY DEF Words, CtxSteps
  <2>2. s[1] = "shut_attr" /\ s[2] = "clear_attr" /\ s[3] = "clear_pool" /\ s[4] = "seek" /\ s[5] = "shut" /\ s[6] = "delete"
    OBVIOUS
  <2>3. close = s
    BY <1>1, Written DEF close
  <2> HIDE DEF s
  <2>4. \A i \in 1..6 : i = 1 \/ i = 2 \/ i = 3 \/ i = 4 \/ i = 5 \/ i = 6
    OBVIOUS
  <2>5. \A i \in 1..6 : s[i] \in CloseWords /\ Fits(setup.kind, TRUE, s, i)
    BY <1>1, <2>1, <2>2, <2>4 DEF Fits, Pair, Gain, Looks, CtxSteps, CloseWords
  <2>6. \A i \in 1..6 : i < 6 => Follows(TRUE, s[i], s[i + 1])
    BY <2>2, <2>4 DEF Follows, Ends, Haves
  <2>7. Block(s, "shut_attr", "delete", CloseWords)
    <3>1. 6 \in Nat \ {0} /\ setup.kind \in Wrapped
      OBVIOUS
    <3> QED BY <2>1, <2>2, <2>5, <2>6, <3>1, BlockBy
  <2> QED BY <2>3, <2>7
<1>2. CASE setup.kind \in {"redis", "memcached", "aiomemcached"}
  <2> DEFINE s == <<"shut_attr", "clear_attr", "seek", "shut", "delete">>
  <2>1. s \in Seq(Words) /\ Len(s) = 5
    BY DEF Words, CtxSteps
  <2>2. s[1] = "shut_attr" /\ s[2] = "clear_attr" /\ s[3] = "seek" /\ s[4] = "shut" /\ s[5] = "delete"
    OBVIOUS
  <2>3. close = s
    BY <1>2, Written DEF close
  <2> HIDE DEF s
  <2>4. \A i \in 1..5 : i = 1 \/ i = 2 \/ i = 3 \/ i = 4 \/ i = 5
    OBVIOUS
  <2>5. \A i \in 1..5 : s[i] \in CloseWords /\ Fits(setup.kind, TRUE, s, i)
    BY <1>2, <2>1, <2>2, <2>4 DEF Fits, Pair, Gain, Looks, CtxSteps, CloseWords
  <2>6. \A i \in 1..5 : i < 5 => Follows(TRUE, s[i], s[i + 1])
    BY <2>2, <2>4 DEF Follows, Ends, Haves
  <2>7. Block(s, "shut_attr", "delete", CloseWords)
    <3>1. 5 \in Nat \ {0} /\ setup.kind \in Wrapped
      OBVIOUS
    <3> QED BY <2>1, <2>2, <2>5, <2>6, <3>1, BlockBy
  <2> QED BY <2>3, <2>7
<1> QED
  BY <1>1, <1>2 DEF Wrapped

-----------------------------------------------------------------------------
PlainWords == ConnectWords \cup CloseWords \cup {"command"}
Stays == CtxSteps \ {"virt_exit", "exited", "virt_enter", "entered", "shared"}
Enters == Stays \cup {"virt_enter", "entered"}
Shares == Stays \cup {"shared"}
Leaves == PlainWords \cup {"virt_exit", "exited"}

\* A block made of some words is a block of any larger set of them.
LEMMA Widen ==
  ASSUME NEW s, NEW a, NEW b, NEW V, Block(s, a, b, V), NEW W, V \subseteq W
  PROVE  Block(s, a, b, W)
BY DEF Block

\* How the sets of words of the blocks lie in one another.
LEMMA WordsAre ==
  /\ ConnectWords \subseteq PlainWords /\ CloseWords \subseteq PlainWords /\ "command" \in PlainWords
  /\ PlainWords \subseteq Stays /\ PlainWords \subseteq Leaves /\ PlainWords \cup PlainWords = PlainWords
  /\ Stays \cup Stays = Stays
BY DEF ConnectWords, CloseWords, PlainWords, Stays, Leaves, CtxSteps

\* Two of them, of the same steps.
LEMMA JoinSame ==
  ASSUME NEW W, NEW s, NEW a, NEW b, Block(s, a, b, W),
         NEW t, NEW c, NEW d, Block(t, c, d, W), Follows(TRUE, b, c)
  PROVE  Block(s \o t, a, d, W) /\ Len(s \o t) = Len(s) + Len(t)
<1>1. Block(s \o t, a, d, W \cup W) /\ Len(s \o t) = Len(s) + Len(t)
  BY JoinBlocks
<1>2. W \cup W = W
  OBVIOUS
<1> QED
  BY <1>1, <1>2

\* Connecting, closing, and a command.
LEMMA PlainBlocks ==
  ASSUME setup.kind \in Wrapped
  PROVE  /\ Block(close, "shut_attr", "delete", PlainWords)
         /\ \E a \in Haves : Block(connect, a, "keep_attr", PlainWords)
         /\ \E a \in Haves : Block(Use, a, "command", PlainWords)
         /\ Block(reconnect, "shut_attr", "keep_attr", PlainWords)
         /\ Block(Enter, "shut_attr", "keep_attr", PlainWords)
         /\ \E b \in {"delete", "keep_attr"} : Block(Exit, "shut_attr", b, PlainWords)
<1>1. Block(close, "shut_attr", "delete", PlainWords)
  BY CloseBlock, Widen, WordsAre
<1>2. PICK a \in Haves : Block(connect, a, "keep_attr", PlainWords)
  BY ConnectBlock, Widen, WordsAre
<1>3. Block(<<"command">>, "command", "command", PlainWords)
  <2>1. Block(<<"command">>, "command", "command", {"command"})
    BY SingleBlocks
  <2>2. {"command"} \subseteq PlainWords
    BY WordsAre
  <2> QED BY <2>1, <2>2, Widen
<1>4. Follows(TRUE, "keep_attr", "command") /\ \A h \in Haves : Follows(TRUE, "delete", h)
  BY DEF Follows, Ends, Haves
<1>5. Block(Use, a, "command", PlainWords)
  BY <1>2, <1>3, <1>4, JoinSame DEF Use
<1>6. Block(reconnect, "shut_attr", "keep_attr", PlainWords)
  BY <1>1, <1>2, <1>4, JoinSame DEF reconnect
<1>7. Enter = reconnect /\ Exit \in {close, reconnect}
  BY DEF Enter, Exit, adapter_enter, adapter_aenter, adapter_exit, adapter_aexit
<1> QED
  BY <1>1, <1>2, <1>5, <1>6, <1>7

\* Making an adapter, and what is done with it.
LEMMA MakeBlock ==
  ASSUME setup.kind \in Wrapped, NEW t, NEW c \in {"install", "share", "unset"}, NEW d,
         Block(t, c, d, Stays)
  PROVE  Block(Construct \o t, "make", d, Stays) /\ Len(Construct \o t) = Len(Construct) + Len(t)
<1>1. t \in Seq(Words) /\ Len(t) \in Nat /\ Len(t) > 0 /\ t[1] = c
  BY DEF Block, Shape
<1>2. {"make"} \cup Stays = Stays /\ "make" \in Words
  BY DEF Stays, CtxSteps, Words
<1>3. CASE setup.kind = "redis"
  <2>1. PICK s \in Seq(Words) : /\ s = <<"lookup", "connect", "store", "keep_attr">> /\ Len(s) = 4
                                /\ s[1] = "lookup" /\ s[2] = "connect" /\ s[3] = "store" /\ s[4] = "keep_attr"
    <3>1. <<"lookup", "connect", "store", "keep_attr">> \in Seq(Words)
      BY DEF Words, CtxSteps
    <3> QED BY <3>1
  <2>2. s \in Seq(Words) /\ Len(s) = 4 /\ s[1] = "lookup" /\ s[2] = "connect" /\ s[3] = "store" /\ s[4] = "keep_attr"
    BY <2>1
  <2>3. Construct = <<"make">> \o s
    <3>1. get_redis \o <<"keep_attr">> = s
      BY <2>1, JoinThreeOne DEF get_redis
    <3> QED BY <1>3, <3>1 DEF Construct
  <2>4. \A i \in 1..4 : i = 1 \/ i = 2 \/ i = 3 \/ i = 4
    OBVIOUS
  <2>5. \A i \in 1..4 : s[i] \in Stays /\ Fits(setup.kind, TRUE, s, i)
    BY <1>3, <2>2, <2>4 DEF Fits, Pair, Looks, CtxSteps, Stays
  <2>6. \A i \in 1..4 : i < 4 => Follows(TRUE, s[i], s[i + 1])
    BY <2>2, <2>4 DEF Follows, Ends
  <2>7. Block(s, "lookup", "keep_attr", Stays)
    <3>1. 4 \in Nat \ {0} /\ setup.kind \in Wrapped
      OBVIOUS
    <3> QED BY <2>2, <2>5, <2>6, <3>1, BlockBy
  <2>8. Block(s \o t, "lookup", d, Stays) /\ Len(s \o t) = 4 + Len(t)
    <3>1. Follows(TRUE, "keep_attr", c)
      BY DEF Follows, Ends
    <3>2. Block(s \o t, "lookup", d, Stays)
      BY <2>7, <3>1, JoinSame
    <3>3. Len(s \o t) = Len(s) + Len(t)
      BY <2>7, <3>1, JoinSame
    <3> QED BY <2>2, <3>2, <3>3
  <2>9. <<"make">> \in Seq(Words) /\ Construct \o t = <<"make">> \o (s \o t)
    <3>1. <<"make">> \in Seq(Words)
      BY <1>2
    <3> QED BY <1>1, <2>2, <2>3, <3>1, Associate
  <2>10. Fits(setup.kind, TRUE, <<"make">> \o (s \o t), 1)
    <3> DEFINE r == <<"make">> \o (s \o t)
    <3>1. s \o t \in Seq(Words) /\ \A i \in 1..4 : (s \o t)[i] = s[i]
      <4>1. s \o t \in Seq(Words)
        BY <1>1, <2>2
      <4>2. \A i \in 1..Len(s) + Len(t) : (s \o t)[i] = IF i <= Len(s) THEN s[i] ELSE t[i - Len(s)]
        BY <1>1, <2>2, ConcatProperties
      <4>3. \A i \in 1..4 : i \in 1..Len(s) + Len(t) /\ i <= Len(s)
        BY <1>1, <2>2
      <4> QED BY <4>1, <4>2, <4>3
    <3>2. Len(r) = 5 + Len(t) /\ r[1] = "make" /\ \A i \in 1..4 : r[i + 1] = s[i]
      <4>1. Len(r) = 1 + Len(s \o t) /\ r[1] = "make" /\ \A i \in 1..Len(s \o t) : r[i + 1] = (s \o t)[i]
        BY <3>1
      <4>2. \A i \in 1..4 : i \in 1..Len(s \o t)
        BY <1>1, <2>8
      <4> QED BY <1>1, <2>8, <3>1, <4>1, <4>2
    <3> HIDE DEF r
    <3>3. r[1 + 1] = "lookup" /\ r[1 + 2] = "connect" /\ r[1 + 3] = "store" /\ r[1 + 4] = "keep_attr"
      <4>1. r[1 + 1] = s[1] /\ r[2 + 1] = s[2] /\ r[3 + 1] = s[3] /\ r[4 + 1] = s[4]
        BY <3>2
      <4> QED BY <2>2, <4>1
    <3>4. Gain(r, 1, "keep_attr")
      BY <1>1, <3>2, <3>3 DEF Gain, Pair, Looks
    <3>5. Fits(setup.kind, TRUE, r, 1)
      BY <1>3, <3>2, <3>4 DEF Fits, CtxSteps
    <3> QED BY <3>5 DEF r
  <2>11. Block(<<"make">> \o (s \o t), "make", d, {"make"} \cup Stays)
    <3>1. Follows(TRUE, "make", "lookup")
      BY DEF Follows, Ends
    <3> QED BY <1>2, <2>8, <2>10, <3>1, PutBefore
  <2>12. Len(<<"make">> \o (s \o t)) = 1 + (4 + Len(t))
    <3>1. s \o t \in Seq(Words)
      BY <1>1, <2>2
    <3> QED BY <2>8, <3>1
  <2>13. Len(Construct) = 5 /\ 5 + Len(t) = 1 + (4 + Len(t))
    BY <1>1, <1>3, Lengths DEF MakeLen
  <2>14. Block(Construct \o t, "make", d, Stays)
    BY <1>2, <2>9, <2>11
  <2>15. Len(Construct \o t) = Len(Construct) + Len(t)
    BY <2>9, <2>12, <2>13
  <2> QED BY <2>14, <2>15
<1>4. CASE setup.kind # "redis"
  <2>1. Construct = <<"make">>
    BY <1>4, Written
  <2>2. Fits(setup.kind, TRUE, <<"make">> \o t, 1)
    <3> DEFINE r == <<"make">> \o t
    <3>1. Len(r) = 1 + Len(t) /\ r[1] = "make" /\ r[1 + 1] = t[1]
      BY <1>1
    <3> HIDE DEF r
    <3>2. Looks(r, 1, 1, c)
      BY <1>1, <3>1 DEF Looks
    <3>3. Fits(setup.kind, TRUE, r, 1)
      BY <1>4, <3>1, <3>2 DEF Fits, CtxSteps
    <3> QED BY <3>3 DEF r
  <2>3. Block(<<"make">> \o t, "make", d, {"make"} \cup Stays)
    <3>1. Follows(TRUE, "make", c)
      BY DEF Follows, Ends
    <3> QED BY <1>2, <2>2, <3>1, PutBefore
  <2>4. Len(<<"make">> \o t) = 1 + Len(t)
    BY <1>1
  <2> QED BY <1>2, <1>4, <2>1, <2>3, <2>4, Lengths DEF MakeLen
<1> QED
  BY <1>3, <1>4

\* Single steps that leave the wrapper where it is, as blocks.
LEMMA StaysBlocks ==
  ASSUME setup.kind \in Wrapped, NEW a \in {"install", "share", "unset", "command"}
  PROVE  Block(<<a>>, a, a, Stays) /\ Len(<<a>>) = 1
<1>1. Block(<<a>>, a, a, {a})
  BY SingleBlocks
<1>2. {a} \subseteq Stays
  BY DEF Stays, CtxSteps
<1>3. Len(<<a>>) = 1
  OBVIOUS
<1> QED
  BY <1>1, <1>2, <1>3, Widen

\* A step before two lists finds the second one behind the first.
LEMMA Behind ==
  ASSUME NEW a \in Words, NEW s \in Seq(Words), NEW t \in Seq(Words), NEW j \in 1..Len(t),
         NEW b, t[j] = b
  PROVE  Looks(<<a>> \o (s \o t), 1, Len(s) + j, b)
<1>1. Len(s) \in Nat /\ Len(t) \in Nat /\ s \o t \in Seq(Words)
  OBVIOUS
<1>2. Len(s \o t) = Len(s) + Len(t) /\ (s \o t)[Len(s) + j] = t[j]
  <2>1. Len(s \o t) = Len(s) + Len(t)
    OBVIOUS
  <2>2. (s \o t)[Len(s) + j] = t[j]
    OBVIOUS
  <2> QED BY <2>1, <2>2
<1>3. PICK r \in Seq(Words) : r = s \o t
  BY <1>1
<1>4. Len(r) = Len(s) + Len(t) /\ r[Len(s) + j] = t[j] /\ Len(s) + j \in 1..Len(r)
  BY <1>1, <1>2, <1>3
<1>5. Len(<<a>> \o r) = 1 + Len(r) /\ (<<a>> \o r)[1] = a
  OBVIOUS
<1>6. (<<a>> \o r)[1 + (Len(s) + j)] = r[Len(s) + j]
  BY <1>4
<1>7. 1 + (Len(s) + j) <= Len(<<a>> \o r)
  BY <1>1, <1>4, <1>5
<1>8. Looks(<<a>> \o r, 1, Len(s) + j, b)
  BY <1>4, <1>6, <1>7 DEF Looks
<1> QED
  BY <1>3, <1>8

\* The first step.
LEMMA Before ==
  ASSUME NEW a \in Words, NEW s \in Seq(Words)
  PROVE  (<<a>> \o s)[1] = a
OBVIOUS

\* A step before a program of steps it is one of.
LEMMA PutSame ==
  ASSUME NEW W, NEW t, NEW c, NEW d, Block(t, c, d, W),
         NEW a \in Words, a \in W, Fits(setup.kind, TRUE, <<a>> \o t, 1), Follows(TRUE, a, c)
  PROVE  Block(<<a>> \o t, a, d, W)
<1>1. Block(<<a>> \o t, a, d, {a} \cup W)
  BY PutBefore
<1>2. {a} \cup W = W
  OBVIOUS
<1> QED
  BY <1>1, <1>2

\* The construction of a wrapper's adapter is a sequence of words.
LEMMA ConstructIs == Construct \in Seq(Words)
<1>1. <<"make", "lookup", "connect", "store", "keep_attr">> \in Seq(Words)
  BY DEF Words, CtxSteps
<1>2. <<"make">> \in Seq(Words)
  BY DEF Words, CtxSteps
<1> QED
  BY <1>1, <1>2, Written

\* What is installed and shared.
LEMMA MadeBlocks ==
  ASSUME setup.kind \in Wrapped
  PROVE  /\ Block(Construct \o <<"install">>, "make", "install", Stays)
         /\ Block(Construct \o <<"unset">>, "make", "unset", Stays)
         /\ Block(Construct \o <<"share">>, "make", "share", Stays)
         /\ Block(Construct \o <<"share", "install">>, "make", "install", Stays)
<1>1. /\ Block(<<"install">>, "install", "install", Stays) /\ Block(<<"unset">>, "unset", "unset", Stays)
      /\ Block(<<"share">>, "share", "share", Stays)
  BY StaysBlocks
<1>2. Block(<<"share", "install">>, "share", "install", Stays)
  <2>1. PICK s \in Seq(Words) : /\ s = <<"share", "install">> /\ Len(s) = 2
                                /\ s[1] = "share" /\ s[2] = "install"
    <3>1. <<"share", "install">> \in Seq(Words)
      BY DEF Words, CtxSteps
    <3> QED BY <3>1
  <2>2. \A i \in 1..2 : i = 1 \/ i = 2
    OBVIOUS
  <2>3. \A i \in 1..2 : s[i] \in Stays /\ Fits(setup.kind, TRUE, s, i)
    BY <2>1, <2>2 DEF Fits, CtxSteps, Stays
  <2>4. \A i \in 1..2 : i < 2 => Follows(TRUE, s[i], s[i + 1])
    BY <2>1, <2>2 DEF Follows, Ends
  <2>5. 2 \in Nat \ {0} /\ setup.kind \in Wrapped
    OBVIOUS
  <2>6. Block(s, "share", "install", Stays)
    BY <2>1, <2>3, <2>4, <2>5, BlockBy
  <2> QED BY <2>1, <2>6
<1>3. Block(Construct \o <<"install">>, "make", "install", Stays)
  BY <1>1, MakeBlock
<1>4. Block(Construct \o <<"unset">>, "make", "unset", Stays)
  BY <1>1, MakeBlock
<1>5. Block(Construct \o <<"share">>, "make", "share", Stays)
  BY <1>1, MakeBlock
<1>6. Block(Construct \o <<"share", "install">>, "make", "install", Stays)
  BY <1>2, MakeBlock
<1> QED
  BY <1>3, <1>4, <1>5, <1>6

\* Looking for an adapter before one is made.
LEMMA AdapterBlocks ==
  ASSUME setup.kind \in Wrapped
  PROVE  /\ Block(get_adapter, "get_adapter", "install", Stays)
         /\ setup.kind \in Sync => Block(adapter_get, "shared", "share", Shares)
         /\ setup.kind \notin Sync => Block(async_adapter_get, "shared", "install", Shares)
<1>1. ASSUME NEW a \in {"get_adapter", "shared"}
      PROVE  a \in Words /\ a \in CtxSteps /\ <<a>> \in Seq(Words) /\ Follows(TRUE, a, "make")
  <2>1. a \in Words /\ a \in CtxSteps
    BY DEF Words, CtxSteps
  <2>2. <<a>> \in Seq(Words)
    BY <2>1
  <2>3. Follows(TRUE, a, "make")
    BY DEF Follows, Ends
  <2> QED BY <2>1, <2>2, <2>3
<1>2. \A a \in {"install", "share"} : <<a>> \in Seq(Words) /\ Len(<<a>>) = 1 /\ <<a>>[1] = a
  BY DEF Words, CtxSteps
<1>3. Len(Construct) = MakeLen(setup.kind) /\ "get_adapter" \in Stays /\ "shared" \in Shares /\ Stays \subseteq Shares
  <2>1. "get_adapter" \in Stays /\ "shared" \in Shares /\ Stays \subseteq Shares
    BY DEF Stays, Shares, CtxSteps
  <2> QED BY <2>1, Lengths
<1>4. Block(get_adapter, "get_adapter", "install", Stays)
  <2>1. Looks(<<"get_adapter">> \o (Construct \o <<"install">>), 1, Len(Construct) + 1, "install")
    <3>1. 1 \in 1..Len(<<"install">>) /\ <<"install">>[1] = "install" /\ <<"install">> \in Seq(Words)
      BY <1>2
    <3>2. "get_adapter" \in Words
      BY <1>1
    <3> QED BY <3>1, <3>2, ConstructIs, Behind
  <2>2. Fits(setup.kind, TRUE, <<"get_adapter">> \o (Construct \o <<"install">>), 1)
    <3>1. Construct \o <<"install">> \in Seq(Words) /\ "get_adapter" \in Words /\ "get_adapter" \in CtxSteps
      BY <1>1, MadeBlocks, BlocksAre
    <3>2. (<<"get_adapter">> \o (Construct \o <<"install">>))[1] = "get_adapter"
      BY <3>1, Before
    <3> QED BY <1>3, <2>1, <3>1, <3>2 DEF Fits
  <2>3. Block(<<"get_adapter">> \o (Construct \o <<"install">>), "get_adapter", "install", Stays)
    BY <1>1, <1>3, <2>2, MadeBlocks, PutSame
  <2>4. get_adapter = <<"get_adapter">> \o (Construct \o <<"install">>)
    BY <1>1, <1>2, ConstructIs, Associate DEF get_adapter
  <2> QED BY <2>3, <2>4
<1>5. ASSUME setup.kind \in Sync PROVE Block(adapter_get, "shared", "share", Shares)
  <2>1. Looks(<<"shared">> \o (Construct \o <<"share">>), 1, Len(Construct) + 1, "share")
    <3>1. 1 \in 1..Len(<<"share">>) /\ <<"share">>[1] = "share" /\ <<"share">> \in Seq(Words)
      BY <1>2
    <3>2. "shared" \in Words
      BY <1>1
    <3> QED BY <3>1, <3>2, ConstructIs, Behind
  <2>2. Fits(setup.kind, TRUE, <<"shared">> \o (Construct \o <<"share">>), 1)
    <3>1. Construct \o <<"share">> \in Seq(Words) /\ "shared" \in Words /\ "shared" \in CtxSteps
      BY <1>1, MadeBlocks, BlocksAre
    <3>2. (<<"shared">> \o (Construct \o <<"share">>))[1] = "shared"
      BY <3>1, Before
    <3> QED BY <1>3, <1>5, <2>1, <3>1, <3>2 DEF Fits
  <2>3. Block(<<"shared">> \o (Construct \o <<"share">>), "shared", "share", Shares)
    <3>1. Block(Construct \o <<"share">>, "make", "share", Shares)
      BY <1>3, MadeBlocks, Widen
    <3>2. "shared" \in Words /\ "shared" \in Shares /\ Follows(TRUE, "shared", "make")
      BY <1>1, <1>3
    <3> QED BY <2>2, <3>1, <3>2, PutSame
  <2>4. adapter_get = <<"shared">> \o (Construct \o <<"share">>)
    BY <1>1, <1>2, ConstructIs, Associate DEF adapter_get
  <2> QED BY <2>3, <2>4
<1>6. ASSUME setup.kind \notin Sync PROVE Block(async_adapter_get, "shared", "install", Shares)
  <2>1. PICK t \in Seq(Words) : t = <<"share", "install">> /\ Len(t) = 2 /\ t[1] = "share" /\ t[2] = "install"
    <3>1. <<"share", "install">> \in Seq(Words)
      BY DEF Words, CtxSteps
    <3> QED BY <3>1
  <2>2. 1 \in 1..Len(t) /\ 2 \in 1..Len(t)
    BY <2>1
  <2>3. Looks(<<"shared">> \o (Construct \o t), 1, Len(Construct) + 1, "share")
        /\ (<<"shared">> \o (Construct \o t))[1] = "shared"
    <3>1. "shared" \in Words /\ Construct \o t \in Seq(Words)
      BY <1>1, <2>1, ConstructIs
    <3>2. Looks(<<"shared">> \o (Construct \o t), 1, Len(Construct) + 1, "share")
      BY <2>1, <2>2, <3>1, ConstructIs, Behind
    <3>3. (<<"shared">> \o (Construct \o t))[1] = "shared"
      BY <3>1, Before
    <3> QED BY <3>2, <3>3
  <2>4. Looks(<<"shared">> \o (Construct \o t), 1, Len(Construct) + 2, "install")
    <3>1. "shared" \in Words
      BY <1>1
    <3> QED BY <2>1, <2>2, <3>1, ConstructIs, Behind
  <2>5. Fits(setup.kind, TRUE, <<"shared">> \o (Construct \o t), 1)
    BY <1>1, <1>3, <2>3, <2>4 DEF Fits
  <2>6. Block(<<"shared">> \o (Construct \o t), "shared", "install", Shares)
    <3>1. Block(Construct \o t, "make", "install", Shares)
      BY <1>3, <2>1, MadeBlocks, Widen
    <3>2. "shared" \in Words /\ "shared" \in Shares /\ Follows(TRUE, "shared", "make")
      BY <1>1, <1>3
    <3> QED BY <2>5, <3>1, <3>2, PutSame
  <2>7. async_adapter_get = <<"shared">> \o (Construct \o t)
    BY <1>1, <2>1, ConstructIs, Associate DEF async_adapter_get
  <2> QED BY <2>6, <2>7
<1> QED
  BY <1>4, <1>5, <1>6

\* Entering and leaving the object of a LayeredContext.
LEMMA CrossingBlocks ==
  ASSUME setup.kind \in Wrapped
  PROVE  /\ Block(<<"virt_enter">> \o (Enter \o <<"entered">>), "virt_enter", "entered", Enters)
         /\ Block(wrapper_exit, "virt_exit", "exited", Leaves)
         /\ \A i \in 2..Len(wrapper_exit) : wrapper_exit[i] # "virt_exit"
<1>1. /\ "virt_enter" \in Words /\ "virt_exit" \in Words /\ "virt_enter" \in Enters /\ Stays \subseteq Enters
      /\ <<"virt_exit">> \in Seq(Words)
  <2>1. "virt_enter" \in Words /\ "virt_exit" \in Words
    BY DEF Words, CtxSteps
  <2>2. "virt_enter" \in Enters /\ Stays \subseteq Enters
    BY DEF Enters
  <2>3. <<"virt_exit">> \in Seq(Words)
    BY <2>1
  <2> QED BY <2>1, <2>2, <2>3
<1>2. PICK b \in {"delete", "keep_attr"} : Block(Exit, "shut_attr", b, PlainWords)
  BY PlainBlocks
<1>3. Block(Enter, "shut_attr", "keep_attr", Enters) /\ Enter \in Seq(Words) /\ Exit \in Seq(Words)
  <2>1. Block(Enter, "shut_attr", "keep_attr", PlainWords)
    BY PlainBlocks
  <2>2. PlainWords \subseteq Enters
    BY WordsAre DEF Enters
  <2>3. Block(Enter, "shut_attr", "keep_attr", Enters)
    BY <2>1, <2>2, Widen
  <2> QED BY <1>2, <2>3, BlocksAre
<1>4. /\ Follows(TRUE, "keep_attr", "entered") /\ Follows(TRUE, b, "exited")
      /\ Follows(TRUE, "virt_enter", "shut_attr") /\ Follows(TRUE, "virt_exit", "shut_attr")
  BY DEF Follows, Ends
<1>5. \A a \in {"entered", "exited"} : <<a>> \in Seq(Words) /\ 1 \in 1..Len(<<a>>) /\ <<a>>[1] = a
  BY DEF Words, CtxSteps
<1>6. Block(<<"virt_enter">> \o (Enter \o <<"entered">>), "virt_enter", "entered", Enters)
  <2>1. Block(<<"entered">>, "entered", "entered", Enters)
    <3>1. Block(<<"entered">>, "entered", "entered", {"entered"})
      BY SingleBlocks
    <3>2. {"entered"} \subseteq Enters
      BY DEF Enters
    <3> QED BY <3>1, <3>2, Widen
  <2>2. Block(Enter \o <<"entered">>, "shut_attr", "entered", Enters)
    BY <1>3, <1>4, <2>1, JoinSame
  <2>3. Looks(<<"virt_enter">> \o (Enter \o <<"entered">>), 1, Len(Enter) + 1, "entered")
        /\ (<<"virt_enter">> \o (Enter \o <<"entered">>))[1] = "virt_enter"
    <3>1. 1 \in 1..Len(<<"entered">>) /\ <<"entered">>[1] = "entered" /\ <<"entered">> \in Seq(Words)
      BY <1>5
    <3>2. "virt_enter" \in Words /\ Enter \in Seq(Words) /\ Enter \o <<"entered">> \in Seq(Words)
      BY <1>1, <1>3, <3>1
    <3>3. Looks(<<"virt_enter">> \o (Enter \o <<"entered">>), 1, Len(Enter) + 1, "entered")
      BY <3>1, <3>2, Behind
    <3>4. (<<"virt_enter">> \o (Enter \o <<"entered">>))[1] = "virt_enter"
      BY <3>2, Before
    <3> QED BY <3>3, <3>4
  <2>4. Fits(setup.kind, TRUE, <<"virt_enter">> \o (Enter \o <<"entered">>), 1)
    BY <2>3, Lengths DEF Fits, CtxSteps
  <2>5. "virt_enter" \in Words /\ "virt_enter" \in Enters /\ Follows(TRUE, "virt_enter", "shut_attr")
    BY <1>1, <1>4
  <2> QED BY <2>2, <2>4, <2>5, PutSame
<1>7. PICK t : t = Exit \o <<"exited">> /\ Block(t, "shut_attr", "exited", PlainWords \cup {"exited"})
  <2>1. Block(<<"exited">>, "exited", "exited", {"exited"})
    BY SingleBlocks
  <2>2. Block(Exit \o <<"exited">>, "shut_attr", "exited", PlainWords \cup {"exited"})
    BY <1>2, <1>4, <2>1, JoinBlocks
  <2> QED BY <2>2
<1>8. wrapper_exit = <<"virt_exit">> \o t
  BY <1>1, <1>3, <1>5, <1>7, Associate DEF wrapper_exit
<1>9. Block(wrapper_exit, "virt_exit", "exited", Leaves)
  <2>1. Looks(<<"virt_exit">> \o t, 1, Len(Exit) + 1, "exited") /\ (<<"virt_exit">> \o t)[1] = "virt_exit"
    <3>1. 1 \in 1..Len(<<"exited">>) /\ <<"exited">>[1] = "exited" /\ <<"exited">> \in Seq(Words)
      BY <1>5
    <3>2. "virt_exit" \in Words /\ Exit \in Seq(Words) /\ t \in Seq(Words)
      BY <1>1, <1>3, <1>7, BlocksAre
    <3>3. Looks(<<"virt_exit">> \o (Exit \o <<"exited">>), 1, Len(Exit) + 1, "exited")
      BY <3>1, <3>2, Behind
    <3>4. (<<"virt_exit">> \o t)[1] = "virt_exit"
      BY <3>2, Before
    <3> QED BY <1>7, <3>3, <3>4
  <2>2. Fits(setup.kind, TRUE, <<"virt_exit">> \o t, 1)
    BY <2>1, Lengths DEF Fits, CtxSteps
  <2>3. Block(<<"virt_exit">> \o t, "virt_exit", "exited", {"virt_exit"} \cup (PlainWords \cup {"exited"}))
    BY <1>1, <1>4, <1>7, <2>2, PutBefore
  <2>4. {"virt_exit"} \cup (PlainWords \cup {"exited"}) \subseteq Leaves
    BY DEF Leaves
  <2> QED BY <1>8, <2>3, <2>4, Widen
<1>10. \A i \in 2..Len(wrapper_exit) : wrapper_exit[i] # "virt_exit"
  <2>1. t \in Seq(Words) /\ Len(t) \in Nat /\ \A i \in 1..Len(t) : t[i] # "virt_exit"
    <3>1. \A i \in 1..Len(t) : t[i] \in PlainWords \cup {"exited"}
      BY <1>7 DEF Block
    <3>2. "virt_exit" \notin PlainWords \cup {"exited"}
      BY DEF PlainWords, ConnectWords, CloseWords
    <3>3. t \in Seq(Words)
      BY <1>7, BlocksAre
    <3> QED BY <3>1, <3>2, <3>3
  <2>2. TAKE i \in 2..Len(wrapper_exit)
  <2>3. Len(<<"virt_exit">> \o t) = 1 + Len(t)
    BY <1>1, <2>1
  <2>4. i - 1 \in 1..Len(t) /\ i = 1 + (i - 1)
    BY <1>8, <2>1, <2>2, <2>3
  <2>5. (<<"virt_exit">> \o t)[1 + (i - 1)] = t[i - 1]
    BY <1>1, <2>1, <2>4
  <2> QED BY <1>8, <2>1, <2>4, <2>5
<1> QED
  BY <1>6, <1>9, <1>10

-----------------------------------------------------------------------------
\* Where a call on an adapter or on the wrapper begins.
CtxWords(op) == CASE op = "exit" -> Leaves [] op = "enter" -> Enters [] op = "module_call" -> Shares [] OTHER -> Stays
Begins(op, a) ==
  /\ a \in Haves \cup {"shut_attr", "virt_exit", "get_adapter", "shared", "make"}
  /\ op = "exit" <=> a = "virt_exit"
  /\ op = "enter" => a = "get_adapter"
  /\ op \notin {"use", "close_adapter", "reconnect", "memo", "exit"} => a \in {"get_adapter", "shared", "make"}

\* The programs of the adapters and of the wrapper: none ends where an adapter has given up its connection.
LEMMA CtxProgramBlocks ==
  ASSUME setup.kind \in Wrapped, NEW op \in CtxOps
  PROVE  \E a, b : /\ Begins(op, a) /\ Block(CtxPrograms[op], a, b, CtxWords(op))
                    /\ b \notin {"clear_attr", "clear_pool"}
<1>1. Block(close, "shut_attr", "delete", Stays)
  BY PlainBlocks, WordsAre, Widen
<1>2. PICK a \in Haves : Block(Use, a, "command", Stays)
  BY PlainBlocks, WordsAre, Widen
<1>3. Block(reconnect, "shut_attr", "keep_attr", Stays) /\ Block(Enter, "shut_attr", "keep_attr", Stays)
  BY PlainBlocks, WordsAre, Widen
<1>4. PICK b \in {"delete", "keep_attr"} : Block(Exit, "shut_attr", b, Stays)
  BY PlainBlocks, WordsAre, Widen
<1>5. /\ Follows(TRUE, "command", a) /\ Follows(TRUE, "keep_attr", a) /\ Follows(TRUE, "command", "shut_attr")
      /\ Follows(TRUE, "install", "shut_attr") /\ Follows(TRUE, "install", "virt_enter")
      /\ Follows(TRUE, "install", "make") /\ Follows(TRUE, "share", a) /\ Follows(TRUE, "install", a)
  BY DEF Follows, Ends, Haves
<1>6. Block(get_adapter, "get_adapter", "install", Stays)
  BY AdapterBlocks
<1>7. get_adapter \in Seq(Words) /\ Enter \in Seq(Words) /\ Construct \in Seq(Words)
  BY <1>3, <1>6, BlocksAre, ConstructIs
<1>8. \A w \in {"virt_enter", "entered", "install", "unset", "share"} : <<w>> \in Seq(Words)
  BY DEF Words, CtxSteps
<1>9. \A h \in Haves : Begins("use", h) /\ Begins("memo", h)
  BY DEF Begins, Haves
<1>10. CASE op = "use"
  <2>1. CtxPrograms[op] = Use /\ CtxWords(op) = Stays
    BY <1>10 DEF CtxPrograms, CtxWords
  <2> QED BY <1>2, <1>9, <1>10, <2>1
<1>11. CASE op = "close_adapter"
  <2>1. CtxPrograms[op] = close /\ Begins(op, "shut_attr") /\ CtxWords(op) = Stays
    BY <1>11 DEF CtxPrograms, Begins, CtxWords
  <2> QED BY <1>1, <2>1
<1>12. CASE op = "reconnect"
  <2>1. CtxPrograms[op] = reconnect /\ Begins(op, "shut_attr") /\ CtxWords(op) = Stays
    BY <1>12 DEF CtxPrograms, Begins, CtxWords
  <2> QED BY <1>3, <2>1
<1>13. CASE op = "memo" /\ setup.kind \in Sync
  <2>1. CtxPrograms[op] = Use \o Use /\ CtxWords(op) = Stays
    BY <1>13 DEF CtxPrograms, r_cache, CtxWords
  <2>2. Block(Use \o Use, a, "command", Stays)
    BY <1>2, <1>5, JoinSame
  <2> QED BY <1>2, <1>9, <1>13, <2>1, <2>2
<1>14. CASE op = "memo" /\ setup.kind \notin Sync
  <2>1. CtxPrograms[op] = ((reconnect \o Use) \o Use) \o reconnect /\ Begins(op, "shut_attr") /\ CtxWords(op) = Stays
    BY <1>14 DEF CtxPrograms, r_cache_async, adapter_aenter, adapter_aexit, Begins, CtxWords
  <2>2. Block(reconnect \o Use, "shut_attr", "command", Stays)
    BY <1>2, <1>3, <1>5, JoinSame
  <2>3. Block((reconnect \o Use) \o Use, "shut_attr", "command", Stays)
    BY <1>2, <1>5, <2>2, JoinSame
  <2>4. Block(((reconnect \o Use) \o Use) \o reconnect, "shut_attr", "keep_attr", Stays)
    BY <1>3, <1>5, <2>3, JoinSame
  <2> QED BY <2>1, <2>4
<1>15. CASE op = "call"
  <2>1. CtxPrograms[op] = ((get_adapter \o Enter) \o Use) \o Exit /\ Begins(op, "get_adapter") /\ CtxWords(op) = Stays
    BY <1>15 DEF CtxPrograms, wrapper_call, Begins, CtxWords
  <2>2. Block(get_adapter \o Enter, "get_adapter", "keep_attr", Stays)
    BY <1>3, <1>5, <1>6, JoinSame
  <2>3. Block((get_adapter \o Enter) \o Use, "get_adapter", "command", Stays)
    BY <1>2, <1>5, <2>2, JoinSame
  <2>4. Block(((get_adapter \o Enter) \o Use) \o Exit, "get_adapter", b, Stays)
    BY <1>4, <1>5, <2>3, JoinSame
  <2> QED BY <2>1, <2>4
<1>16. CASE op = "enter"
  <2>1. CtxPrograms[op] = ((get_adapter \o <<"virt_enter">>) \o Enter) \o <<"entered">>
        /\ Begins(op, "get_adapter") /\ CtxWords(op) = Enters
    BY <1>16 DEF CtxPrograms, wrapper_enter, Begins, CtxWords
  <2>2. ((get_adapter \o <<"virt_enter">>) \o Enter) \o <<"entered">>
          = get_adapter \o (<<"virt_enter">> \o (Enter \o <<"entered">>))
    <3>1. get_adapter \o <<"virt_enter">> \in Seq(Words) /\ Enter \o <<"entered">> \in Seq(Words)
          /\ <<"virt_enter">> \in Seq(Words) /\ <<"entered">> \in Seq(Words)
      BY <1>7, <1>8
    <3>2. ((get_adapter \o <<"virt_enter">>) \o Enter) \o <<"entered">>
            = (get_adapter \o <<"virt_enter">>) \o (Enter \o <<"entered">>)
      BY <1>7, <3>1, Associate
    <3>3. (get_adapter \o <<"virt_enter">>) \o (Enter \o <<"entered">>)
            = get_adapter \o (<<"virt_enter">> \o (Enter \o <<"entered">>))
      BY <1>7, <3>1, Associate
    <3> QED BY <3>2, <3>3
  <2>3. Block(get_adapter \o (<<"virt_enter">> \o (Enter \o <<"entered">>)), "get_adapter", "entered", Enters)
    <3>1. Stays \subseteq Enters
      BY DEF Enters
    <3>2. Block(get_adapter, "get_adapter", "install", Enters)
      BY <1>6, <3>1, Widen
    <3> QED BY <1>5, <3>2, CrossingBlocks, JoinSame
  <2>4. Block(CtxPrograms[op], "get_adapter", "entered", CtxWords(op))
    BY <2>1, <2>2, <2>3
  <2> QED BY <2>1, <2>4
<1>17. CASE op = "exit"
  <2>1. CtxPrograms[op] = wrapper_exit /\ Begins(op, "virt_exit") /\ CtxWords(op) = Leaves
    BY <1>17 DEF CtxPrograms, Begins, CtxWords
  <2> QED BY <1>17, <2>1, CrossingBlocks
<1>18. CASE op = "set_adapter"
  <2>1. CtxPrograms[op] = Construct \o <<"install">> /\ Begins(op, "make") /\ CtxWords(op) = Stays
    BY <1>18 DEF CtxPrograms, set_adapter, Begins, CtxWords
  <2> QED BY <2>1, MadeBlocks
<1>19. CASE op = "reset_adapter"
  <2>1. CtxPrograms[op] = (get_adapter \o Construct) \o <<"unset">> /\ Begins(op, "get_adapter") /\ CtxWords(op) = Stays
    BY <1>19 DEF CtxPrograms, reset_adapter, Begins, CtxWords
  <2>2. (get_adapter \o Construct) \o <<"unset">> = get_adapter \o (Construct \o <<"unset">>)
    BY <1>7, <1>8, Associate
  <2>3. Block(get_adapter \o (Construct \o <<"unset">>), "get_adapter", "unset", Stays)
    BY <1>5, <1>6, MadeBlocks, JoinSame
  <2>4. Block(CtxPrograms[op], "get_adapter", "unset", CtxWords(op))
    BY <2>1, <2>2, <2>3
  <2> QED BY <2>1, <2>4
<1>20. CASE op = "adapter_set"
  <2>1. CtxPrograms[op] = Construct \o <<"share", "install">> /\ Begins(op, "make") /\ CtxWords(op) = Stays
    BY <1>20 DEF CtxPrograms, adapter_set, async_adapter_set, Begins, CtxWords
  <2> QED BY <2>1, MadeBlocks
<1>21. CASE op = "module_call" /\ setup.kind \in Sync
  <2>1. CtxPrograms[op] = adapter_get \o Use /\ Begins(op, "shared") /\ CtxWords(op) = Shares
    BY <1>21 DEF CtxPrograms, module_call, Begins, CtxWords
  <2>2. Block(adapter_get \o Use, "shared", "command", Shares)
    <3>1. Stays \subseteq Shares
      BY DEF Shares
    <3>2. Block(Use, a, "command", Shares)
      BY <1>2, <3>1, Widen
    <3> QED BY <1>5, <1>21, <3>2, AdapterBlocks, JoinSame
  <2> QED BY <2>1, <2>2
<1>22. CASE op = "module_call" /\ setup.kind \notin Sync
  <2>1. CtxPrograms[op] = async_adapter_get \o Use /\ Begins(op, "shared") /\ CtxWords(op) = Shares
    BY <1>22 DEF CtxPrograms, module_call, Begins, CtxWords
  <2>2. Block(async_adapter_get \o Use, "shared", "command", Shares)
    <3>1. Stays \subseteq Shares
      BY DEF Shares
    <3>2. Block(Use, a, "command", Shares)
      BY <1>2, <3>1, Widen
    <3> QED BY <1>5, <1>22, <3>2, AdapterBlocks, JoinSame
  <2> QED BY <2>1, <2>2
<1> QED
  BY <1>10, <1>11, <1>12, <1>13, <1>14, <1>15, <1>16, <1>17, <1>18, <1>19, <1>20, <1>21, <1>22 DEF CtxOps

-----------------------------------------------------------------------------
\* Which calls on the store have a step.
Allows(op, w) ==
  /\ w = "purge" => op = "clean_everything"
  /\ w = "drop" => op = "clean_thread"
  /\ w \in {"walk", "sweep"} => op \in {"close_all", "clean_all"}
  /\ w = "promise" => setup.kind \in {"aioredis", "aiomemcached"} /\ op \in {"reset", "configure"}
  /\ w = "store" /\ setup.kind \in Managers => op = "get"
  /\ w = "own" => setup.kind \in Managers

\* What a call on the store has in its program, and where it begins.
Opens(op, s) ==
  \/ s[1] \in {"lookup", "seek", "own", "walk"}
  \/ s[1] = "connect" /\ Len(s) = 1
  \/ op \in Cleans
StoreProgram(op, s) ==
  /\ Shape(setup.kind, FALSE, s) /\ Len(s) > 0 /\ Opens(op, s)
  /\ \A i \in 1..Len(s) : Allows(op, s[i])

\* The programs of the store, by what they are made of.
LEMMA StoreProgramBy ==
  ASSUME NEW op, NEW s \in Seq(Words), NEW n \in Nat \ {0}, Len(s) = n,
         \A i \in 1..n : Fits(setup.kind, FALSE, s, i),
         \A i \in 1..n : i < n => Follows(FALSE, s[i], s[i + 1]),
         \A i \in 1..n : Allows(op, s[i]), Opens(op, s)
  PROVE  StoreProgram(op, s)
<1>1. Shape(setup.kind, FALSE, s)
  BY DEF Shape
<1>2. Len(s) > 0 /\ \A i \in 1..Len(s) : Allows(op, s[i])
  OBVIOUS
<1> QED
  BY <1>1, <1>2 DEF StoreProgram

\* The programs of a plugin's own operations, one by one.
LEMMA StoreLiterals ==
  ASSUME NEW op
  PROVE
    /\ (op = "get" \/ setup.kind \notin Managers) => StoreProgram(op, <<"lookup", "connect", "store">>)
    /\ StoreProgram(op, <<"seek", "shut", "delete">>)
    /\ (setup.kind \in Managers) => StoreProgram(op, <<"own", "shut", "delete">>)
    /\ (setup.kind \notin Managers) => StoreProgram(op, <<"seek", "shut", "delete", "connect", "store">>)
    /\ (setup.kind \in {"aioredis", "aiomemcached"} /\ op \in {"reset", "configure"}) => StoreProgram(op, <<"seek", "shut", "delete", "promise", "connect">>)
    /\ (setup.kind \notin Managers) => StoreProgram(op, <<"seek", "shut", "delete", "lookup", "connect", "store">>)
    /\ StoreProgram(op, <<"connect">>)
    /\ (op = "close_all" /\ setup.kind \in Managers) => StoreProgram(op, <<"own", "shut", "sweep">>)
    /\ (op = "close_all") => StoreProgram(op, <<"walk", "sweep">>)
    /\ (op = "clean") => StoreProgram(op, <<"delete">>)
    /\ (op = "clean_thread") => StoreProgram(op, <<"drop">>)
    /\ (op = "clean_all") => StoreProgram(op, <<"sweep">>)
    /\ (op = "clean_everything") => StoreProgram(op, <<"purge">>)
<1>1. ASSUME op = "get" \/ setup.kind \notin Managers PROVE StoreProgram(op, <<"lookup", "connect", "store">>)
  <2>1. PICK s \in Seq(Words) : s = <<"lookup", "connect", "store">> /\ Len(s) = 3 /\ s[1] = "lookup" /\ s[2] = "connect" /\ s[3] = "store"
    <3>1. <<"lookup", "connect", "store">> \in Seq(Words)
      BY DEF Words, StoreSteps
    <3> QED BY <3>1
  <2>2. 3 \in Nat \ {0} /\ \A i \in 1..3 : i = 1 \/ i = 2 \/ i = 3
    OBVIOUS
  <2>3. \A i \in 1..3 : Fits(setup.kind, FALSE, s, i)
    BY <2>1, <2>2 DEF Fits, Pair, Looks, StoreSteps
  <2>4. \A i \in 1..3 : i < 3 => Follows(FALSE, s[i], s[i + 1])
    BY <2>1, <2>2 DEF Follows, Ends
  <2>5. \A i \in 1..3 : Allows(op, s[i])
    BY <1>1, <2>1, <2>2 DEF Allows
  <2>6. Opens(op, s)
    BY <1>1, <2>1 DEF Opens, Cleans
  <2>7. StoreProgram(op, s)
    BY <2>1, <2>2, <2>3, <2>4, <2>5, <2>6, StoreProgramBy
  <2> QED BY <2>1, <2>7
<1>2. ASSUME TRUE PROVE StoreProgram(op, <<"seek", "shut", "delete">>)
  <2>1. PICK s \in Seq(Words) : s = <<"seek", "shut", "delete">> /\ Len(s) = 3 /\ s[1] = "seek" /\ s[2] = "shut" /\ s[3] = "delete"
    <3>1. <<"seek", "shut", "delete">> \in Seq(Words)
      BY DEF Words, StoreSteps
    <3> QED BY <3>1
  <2>2. 3 \in Nat \ {0} /\ \A i \in 1..3 : i = 1 \/ i = 2 \/ i = 3
    OBVIOUS
  <2>3. \A i \in 1..3 : Fits(setup.kind, FALSE, s, i)
    BY <2>1, <2>2 DEF Fits, Pair, Looks, StoreSteps
  <2>4. \A i \in 1..3 : i < 3 => Follows(FALSE, s[i], s[i + 1])
    BY <2>1, <2>2 DEF Follows, Ends
  <2>5. \A i \in 1..3 : Allows(op, s[i])
    BY <1>2, <2>1, <2>2 DEF Allows
  <2>6. Opens(op, s)
    BY <1>2, <2>1 DEF Opens, Cleans
  <2>7. StoreProgram(op, s)
    BY <2>1, <2>2, <2>3, <2>4, <2>5, <2>6, StoreProgramBy
  <2> QED BY <2>1, <2>7
<1>3. ASSUME setup.kind \in Managers PROVE StoreProgram(op, <<"own", "shut", "delete">>)
  <2>1. PICK s \in Seq(Words) : s = <<"own", "shut", "delete">> /\ Len(s) = 3 /\ s[1] = "own" /\ s[2] = "shut" /\ s[3] = "delete"
    <3>1. <<"own", "shut", "delete">> \in Seq(Words)
      BY DEF Words, StoreSteps
    <3> QED BY <3>1
  <2>2. 3 \in Nat \ {0} /\ \A i \in 1..3 : i = 1 \/ i = 2 \/ i = 3
    OBVIOUS
  <2>3. \A i \in 1..3 : Fits(setup.kind, FALSE, s, i)
    BY <2>1, <2>2 DEF Fits, Pair, Looks, StoreSteps
  <2>4. \A i \in 1..3 : i < 3 => Follows(FALSE, s[i], s[i + 1])
    BY <2>1, <2>2 DEF Follows, Ends
  <2>5. \A i \in 1..3 : Allows(op, s[i])
    BY <1>3, <2>1, <2>2 DEF Allows
  <2>6. Opens(op, s)
    BY <1>3, <2>1 DEF Opens, Cleans
  <2>7. StoreProgram(op, s)
    BY <2>1, <2>2, <2>3, <2>4, <2>5, <2>6, StoreProgramBy
  <2> QED BY <2>1, <2>7
<1>4. ASSUME setup.kind \notin Managers PROVE StoreProgram(op, <<"seek", "shut", "delete", "connect", "store">>)
  <2>1. PICK s \in Seq(Words) : s = <<"seek", "shut", "delete", "connect", "store">> /\ Len(s) = 5 /\ s[1] = "seek" /\ s[2] = "shut" /\ s[3] = "delete" /\ s[4] = "connect" /\ s[5] = "store"
    <3>1. <<"seek", "shut", "delete", "connect", "store">> \in Seq(Words)
      BY DEF Words, StoreSteps
    <3> QED BY <3>1
  <2>2. 5 \in Nat \ {0} /\ \A i \in 1..5 : i = 1 \/ i = 2 \/ i = 3 \/ i = 4 \/ i = 5
    OBVIOUS
  <2>3. \A i \in 1..5 : Fits(setup.kind, FALSE, s, i)
    BY <2>1, <2>2 DEF Fits, Pair, Looks, StoreSteps
  <2>4. \A i \in 1..5 : i < 5 => Follows(FALSE, s[i], s[i + 1])
    BY <2>1, <2>2 DEF Follows, Ends
  <2>5. \A i \in 1..5 : Allows(op, s[i])
    BY <1>4, <2>1, <2>2 DEF Allows
  <2>6. Opens(op, s)
    BY <1>4, <2>1 DEF Opens, Cleans
  <2>7. StoreProgram(op, s)
    BY <2>1, <2>2, <2>3, <2>4, <2>5, <2>6, StoreProgramBy
  <2> QED BY <2>1, <2>7
<1>5. ASSUME setup.kind \in {"aioredis", "aiomemcached"} /\ op \in {"reset", "configure"} PROVE StoreProgram(op, <<"seek", "shut", "delete", "promise", "connect">>)
  <2>1. PICK s \in Seq(Words) : s = <<"seek", "shut", "delete", "promise", "connect">> /\ Len(s) = 5 /\ s[1] = "seek" /\ s[2] = "shut" /\ s[3] = "delete" /\ s[4] = "promise" /\ s[5] = "connect"
    <3>1. <<"seek", "shut", "delete", "promise", "connect">> \in Seq(Words)
      BY DEF Words, StoreSteps
    <3> QED BY <3>1
  <2>2. 5 \in Nat \ {0} /\ \A i \in 1..5 : i = 1 \/ i = 2 \/ i = 3 \/ i = 4 \/ i = 5
    OBVIOUS
  <2>3. \A i \in 1..5 : Fits(setup.kind, FALSE, s, i)
    BY <2>1, <2>2 DEF Fits, Pair, Looks, StoreSteps
  <2>4. \A i \in 1..5 : i < 5 => Follows(FALSE, s[i], s[i + 1])
    BY <2>1, <2>2 DEF Follows, Ends
  <2>5. \A i \in 1..5 : Allows(op, s[i])
    BY <1>5, <2>1, <2>2 DEF Allows
  <2>6. Opens(op, s)
    BY <1>5, <2>1 DEF Opens, Cleans
  <2>7. StoreProgram(op, s)
    BY <2>1, <2>2, <2>3, <2>4, <2>5, <2>6, StoreProgramBy
  <2> QED BY <2>1, <2>7
<1>6. ASSUME setup.kind \notin Managers PROVE StoreProgram(op, <<"seek", "shut", "delete", "lookup", "connect", "store">>)
  <2>1. PICK s \in Seq(Words) : s = <<"seek", "shut", "delete", "lookup", "connect", "store">> /\ Len(s) = 6 /\ s[1] = "seek" /\ s[2] = "shut" /\ s[3] = "delete" /\ s[4] = "lookup" /\ s[5] = "connect" /\ s[6] = "store"
    <3>1. <<"seek", "shut", "delete", "lookup", "connect", "store">> \in Seq(Words)
      BY DEF Words, StoreSteps
    <3> QED BY <3>1
  <2>2. 6 \in Nat \ {0} /\ \A i \in 1..6 : i = 1 \/ i = 2 \/ i = 3 \/ i = 4 \/ i = 5 \/ i = 6
    OBVIOUS
  <2>3. \A i \in 1..6 : Fits(setup.kind, FALSE, s, i)
    BY <2>1, <2>2 DEF Fits, Pair, Looks, StoreSteps
  <2>4. \A i \in 1..6 : i < 6 => Follows(FALSE, s[i], s[i + 1])
    BY <2>1, <2>2 DEF Follows, Ends
  <2>5. \A i \in 1..6 : Allows(op, s[i])
    BY <1>6, <2>1, <2>2 DEF Allows
  <2>6. Opens(op, s)
    BY <1>6, <2>1 DEF Opens, Cleans
  <2>7. StoreProgram(op, s)
    BY <2>1, <2>2, <2>3, <2>4, <2>5, <2>6, StoreProgramBy
  <2> QED BY <2>1, <2>7
<1>7. ASSUME TRUE PROVE StoreProgram(op, <<"connect">>)
  <2>1. PICK s \in Seq(Words) : s = <<"connect">> /\ Len(s) = 1 /\ s[1] = "connect"
    <3>1. <<"connect">> \in Seq(Words)
      BY DEF Words, StoreSteps
    <3> QED BY <3>1
  <2>2. 1 \in Nat \ {0} /\ \A i \in 1..1 : i = 1
    OBVIOUS
  <2>3. \A i \in 1..1 : Fits(setup.kind, FALSE, s, i)
    BY <2>1, <2>2 DEF Fits, Pair, Looks, StoreSteps
  <2>4. \A i \in 1..1 : i < 1 => Follows(FALSE, s[i], s[i + 1])
    BY <2>1, <2>2 DEF Follows, Ends
  <2>5. \A i \in 1..1 : Allows(op, s[i])
    BY <1>7, <2>1, <2>2 DEF Allows
  <2>6. Opens(op, s)
    BY <1>7, <2>1 DEF Opens, Cleans
  <2>7. StoreProgram(op, s)
    BY <2>1, <2>2, <2>3, <2>4, <2>5, <2>6, StoreProgramBy
  <2> QED BY <2>1, <2>7
<1>8. ASSUME op = "close_all" /\ setup.kind \in Managers PROVE StoreProgram(op, <<"own", "shut", "sweep">>)
  <2>1. PICK s \in Seq(Words) : s = <<"own", "shut", "sweep">> /\ Len(s) = 3 /\ s[1] = "own" /\ s[2] = "shut" /\ s[3] = "sweep"
    <3>1. <<"own", "shut", "sweep">> \in Seq(Words)
      BY DEF Words, StoreSteps
    <3> QED BY <3>1
  <2>2. 3 \in Nat \ {0} /\ \A i \in 1..3 : i = 1 \/ i = 2 \/ i = 3
    OBVIOUS
  <2>3. \A i \in 1..3 : Fits(setup.kind, FALSE, s, i)
    BY <2>1, <2>2 DEF Fits, Pair, Looks, StoreSteps
  <2>4. \A i \in 1..3 : i < 3 => Follows(FALSE, s[i], s[i + 1])
    BY <2>1, <2>2 DEF Follows, Ends
  <2>5. \A i \in 1..3 : Allows(op, s[i])
    BY <1>8, <2>1, <2>2 DEF Allows
  <2>6. Opens(op, s)
    BY <1>8, <2>1 DEF Opens, Cleans
  <2>7. StoreProgram(op, s)
    BY <2>1, <2>2, <2>3, <2>4, <2>5, <2>6, StoreProgramBy
  <2> QED BY <2>1, <2>7
<1>9. ASSUME op = "close_all" PROVE StoreProgram(op, <<"walk", "sweep">>)
  <2>1. PICK s \in Seq(Words) : s = <<"walk", "sweep">> /\ Len(s) = 2 /\ s[1] = "walk" /\ s[2] = "sweep"
    <3>1. <<"walk", "sweep">> \in Seq(Words)
      BY DEF Words, StoreSteps
    <3> QED BY <3>1
  <2>2. 2 \in Nat \ {0} /\ \A i \in 1..2 : i = 1 \/ i = 2
    OBVIOUS
  <2>3. \A i \in 1..2 : Fits(setup.kind, FALSE, s, i)
    BY <2>1, <2>2 DEF Fits, Pair, Looks, StoreSteps
  <2>4. \A i \in 1..2 : i < 2 => Follows(FALSE, s[i], s[i + 1])
    BY <2>1, <2>2 DEF Follows, Ends
  <2>5. \A i \in 1..2 : Allows(op, s[i])
    BY <1>9, <2>1, <2>2 DEF Allows
  <2>6. Opens(op, s)
    BY <1>9, <2>1 DEF Opens, Cleans
  <2>7. StoreProgram(op, s)
    BY <2>1, <2>2, <2>3, <2>4, <2>5, <2>6, StoreProgramBy
  <2> QED BY <2>1, <2>7
<1>10. ASSUME op = "clean" PROVE StoreProgram(op, <<"delete">>)
  <2>1. PICK s \in Seq(Words) : s = <<"delete">> /\ Len(s) = 1 /\ s[1] = "delete"
    <3>1. <<"delete">> \in Seq(Words)
      BY DEF Words, StoreSteps
    <3> QED BY <3>1
  <2>2. 1 \in Nat \ {0} /\ \A i \in 1..1 : i = 1
    OBVIOUS
  <2>3. \A i \in 1..1 : Fits(setup.kind, FALSE, s, i)
    BY <2>1, <2>2 DEF Fits, Pair, Looks, StoreSteps
  <2>4. \A i \in 1..1 : i < 1 => Follows(FALSE, s[i], s[i + 1])
    BY <2>1, <2>2 DEF Follows, Ends
  <2>5. \A i \in 1..1 : Allows(op, s[i])
    BY <1>10, <2>1, <2>2 DEF Allows
  <2>6. Opens(op, s)
    BY <1>10, <2>1 DEF Opens, Cleans
  <2>7. StoreProgram(op, s)
    BY <2>1, <2>2, <2>3, <2>4, <2>5, <2>6, StoreProgramBy
  <2> QED BY <2>1, <2>7
<1>11. ASSUME op = "clean_thread" PROVE StoreProgram(op, <<"drop">>)
  <2>1. PICK s \in Seq(Words) : s = <<"drop">> /\ Len(s) = 1 /\ s[1] = "drop"
    <3>1. <<"drop">> \in Seq(Words)
      BY DEF Words, StoreSteps
    <3> QED BY <3>1
  <2>2. 1 \in Nat \ {0} /\ \A i \in 1..1 : i = 1
    OBVIOUS
  <2>3. \A i \in 1..1 : Fits(setup.kind, FALSE, s, i)
    BY <2>1, <2>2 DEF Fits, Pair, Looks, StoreSteps
  <2>4. \A i \in 1..1 : i < 1 => Follows(FALSE, s[i], s[i + 1])
    BY <2>1, <2>2 DEF Follows, Ends
  <2>5. \A i \in 1..1 : Allows(op, s[i])
    BY <1>11, <2>1, <2>2 DEF Allows
  <2>6. Opens(op, s)
    BY <1>11, <2>1 DEF Opens, Cleans
  <2>7. StoreProgram(op, s)
    BY <2>1, <2>2, <2>3, <2>4, <2>5, <2>6, StoreProgramBy
  <2> QED BY <2>1, <2>7
<1>12. ASSUME op = "clean_all" PROVE StoreProgram(op, <<"sweep">>)
  <2>1. PICK s \in Seq(Words) : s = <<"sweep">> /\ Len(s) = 1 /\ s[1] = "sweep"
    <3>1. <<"sweep">> \in Seq(Words)
      BY DEF Words, StoreSteps
    <3> QED BY <3>1
  <2>2. 1 \in Nat \ {0} /\ \A i \in 1..1 : i = 1
    OBVIOUS
  <2>3. \A i \in 1..1 : Fits(setup.kind, FALSE, s, i)
    BY <2>1, <2>2 DEF Fits, Pair, Looks, StoreSteps
  <2>4. \A i \in 1..1 : i < 1 => Follows(FALSE, s[i], s[i + 1])
    BY <2>1, <2>2 DEF Follows, Ends
  <2>5. \A i \in 1..1 : Allows(op, s[i])
    BY <1>12, <2>1, <2>2 DEF Allows
  <2>6. Opens(op, s)
    BY <1>12, <2>1 DEF Opens, Cleans
  <2>7. StoreProgram(op, s)
    BY <2>1, <2>2, <2>3, <2>4, <2>5, <2>6, StoreProgramBy
  <2> QED BY <2>1, <2>7
<1>13. ASSUME op = "clean_everything" PROVE StoreProgram(op, <<"purge">>)
  <2>1. PICK s \in Seq(Words) : s = <<"purge">> /\ Len(s) = 1 /\ s[1] = "purge"
    <3>1. <<"purge">> \in Seq(Words)
      BY DEF Words, StoreSteps
    <3> QED BY <3>1
  <2>2. 1 \in Nat \ {0} /\ \A i \in 1..1 : i = 1
    OBVIOUS
  <2>3. \A i \in 1..1 : Fits(setup.kind, FALSE, s, i)
    BY <2>1, <2>2 DEF Fits, Pair, Looks, StoreSteps
  <2>4. \A i \in 1..1 : i < 1 => Follows(FALSE, s[i], s[i + 1])
    BY <2>1, <2>2 DEF Follows, Ends
  <2>5. \A i \in 1..1 : Allows(op, s[i])
    BY <1>13, <2>1, <2>2 DEF Allows
  <2>6. Opens(op, s)
    BY <1>13, <2>1 DEF Opens, Cleans
  <2>7. StoreProgram(op, s)
    BY <2>1, <2>2, <2>3, <2>4, <2>5, <2>6, StoreProgramBy
  <2> QED BY <2>1, <2>7
<1> QED
  BY <1>1, <1>2, <1>3, <1>4, <1>5, <1>6, <1>7, <1>8, <1>9, <1>10, <1>11, <1>12, <1>13

\* The same programs put together.
LEMMA StoreWritten ==
  /\ reset_redis = <<"seek", "shut", "delete", "connect", "store">>
  /\ reset_memcached = <<"seek", "shut", "delete", "connect", "store">>
  /\ reset_redis_async = <<"seek", "shut", "delete", "promise", "connect">>
  /\ reset_memcached_async = <<"seek", "shut", "delete", "promise", "connect">>
  /\ reset_geoip = <<"seek", "shut", "delete", "lookup", "connect", "store">>
<1>1. reset_redis = <<"seek", "shut", "delete", "connect", "store">>
  BY JoinThreeTwo DEF reset_redis, close_redis
<1>2. reset_memcached = <<"seek", "shut", "delete", "connect", "store">>
  BY JoinThreeTwo DEF reset_memcached, close_memcached
<1>3. reset_redis_async = <<"seek", "shut", "delete", "promise", "connect">>
  BY JoinThreeTwo DEF reset_redis_async, close_redis_async
<1>4. reset_memcached_async = <<"seek", "shut", "delete", "promise", "connect">>
  BY JoinThreeTwo DEF reset_memcached_async, close_memcached_async
<1>5. reset_geoip = <<"seek", "shut", "delete", "lookup", "connect", "store">>
  BY JoinThreeThree DEF reset_geoip, close_geoip, get_geoip
<1> QED
  BY <1>1, <1>2, <1>3, <1>4, <1>5

\* The programs of the store.
LEMMA StorePrograms ==
  ASSUME setup.kind \in Sync \cup Async, NEW op \in DOMAIN Kind \cup DOMAIN Common
  PROVE  StoreProgram(op, Program(op))
<1>1. CASE op \in DOMAIN Kind
  <2>1. Program(op) = Kind[op]
    BY <1>1 DEF Program
  <2>2. CASE setup.kind = "redis"
    <3>1. Kind = [get |-> get_redis, close |-> close_redis, reset |-> reset_redis, configure |-> configure_redis]
      BY <2>2 DEF Kind, Programs
    <3>2. op \in {"get", "close", "reset", "configure"} /\ setup.kind \notin Managers
      BY <1>1, <2>2, <3>1 DEF Managers
    <3>3. CASE op = "get"
      BY <2>1, <3>1, <3>3, StoreLiterals DEF get_redis
    <3>4. CASE op = "close"
      BY <2>1, <3>1, <3>4, StoreLiterals DEF close_redis
    <3>5. CASE op \in {"reset", "configure"}
      <4>1. Kind[op] = reset_redis
        BY <3>1, <3>5 DEF configure_redis
      <4> QED BY <2>1, <3>2, <4>1, StoreWritten, StoreLiterals
    <3> QED BY <3>2, <3>3, <3>4, <3>5
  <2>3. CASE setup.kind = "memcached"
    <3>1. Kind = [get |-> get_memcached, close |-> close_memcached, reset |-> reset_memcached,
                  configure |-> configure_memcached]
      BY <2>3 DEF Kind, Programs
    <3>2. op \in {"get", "close", "reset", "configure"} /\ setup.kind \notin Managers
      BY <1>1, <2>3, <3>1 DEF Managers
    <3>3. CASE op = "get"
      BY <2>1, <3>1, <3>3, StoreLiterals DEF get_memcached
    <3>4. CASE op = "close"
      BY <2>1, <3>1, <3>4, StoreLiterals DEF close_memcached
    <3>5. CASE op \in {"reset", "configure"}
      <4>1. Kind[op] = reset_memcached
        BY <3>1, <3>5 DEF configure_memcached
      <4> QED BY <2>1, <3>2, <4>1, StoreWritten, StoreLiterals
    <3> QED BY <3>2, <3>3, <3>4, <3>5
  <2>4. CASE setup.kind = "geoip"
    <3>1. Kind = [get |-> get_geoip, close |-> close_geoip, reset |-> reset_geoip]
      BY <2>4 DEF Kind, Programs
    <3>2. op \in {"get", "close", "reset"} /\ setup.kind \notin Managers
      BY <1>1, <2>4, <3>1 DEF Managers
    <3>3. CASE op = "get"
      BY <2>1, <3>1, <3>3, StoreLiterals DEF get_geoip
    <3>4. CASE op = "close"
      BY <2>1, <3>1, <3>4, StoreLiterals DEF close_geoip
    <3>5. CASE op = "reset"
      <4>1. Kind[op] = reset_geoip
        BY <3>1, <3>5
      <4> QED BY <2>1, <3>2, <4>1, StoreWritten, StoreLiterals
    <3> QED BY <3>2, <3>3, <3>4, <3>5
  <2>5. CASE setup.kind = "aioredis"
    <3>1. Kind = [get |-> get_redis_async, close |-> close_redis_async, reset |-> reset_redis_async,
                  configure |-> configure_redis_async]
      BY <2>5 DEF Kind, Programs
    <3>2. op \in {"get", "close", "reset", "configure"}
      BY <1>1, <3>1
    <3>3. CASE op = "get"
      BY <2>1, <3>1, <3>3, StoreLiterals DEF get_redis_async
    <3>4. CASE op = "close"
      BY <2>1, <3>1, <3>4, StoreLiterals DEF close_redis_async
    <3>5. CASE op \in {"reset", "configure"}
      <4>1. Kind[op] = reset_redis_async
        BY <3>1, <3>5 DEF configure_redis_async
      <4> QED BY <2>1, <2>5, <3>5, <4>1, StoreWritten, StoreLiterals
    <3> QED BY <3>2, <3>3, <3>4, <3>5
  <2>6. CASE setup.kind = "aiomemcached"
    <3>1. Kind = [get |-> get_memcached_async, close |-> close_memcached_async,
                  reset |-> reset_memcached_async, configure |-> configure_memcached_async]
      BY <2>6 DEF Kind, Programs
    <3>2. op \in {"get", "close", "reset", "configure"}
      BY <1>1, <3>1
    <3>3. CASE op = "get"
      BY <2>1, <3>1, <3>3, StoreLiterals DEF get_memcached_async
    <3>4. CASE op = "close"
      BY <2>1, <3>1, <3>4, StoreLiterals DEF close_memcached_async
    <3>5. CASE op \in {"reset", "configure"}
      <4>1. Kind[op] = reset_memcached_async
        BY <3>1, <3>5 DEF configure_memcached_async
      <4> QED BY <2>1, <2>6, <3>5, <4>1, StoreWritten, StoreLiterals
    <3> QED BY <3>2, <3>3, <3>4, <3>5
  <2>7. CASE setup.kind = "sqlite"
    <3>1. Kind = [get |-> sqlite_conn, close |-> sqlite_close]
      BY <2>7 DEF Kind, Programs
    <3>2. op \in {"get", "close"}
      BY <1>1, <3>1
    <3>3. CASE op = "get"
      BY <2>1, <3>1, <3>3, StoreLiterals DEF sqlite_conn
    <3>4. CASE op = "close"
      <4>1. setup.kind \in Managers /\ Program(op) = <<"own", "shut", "delete">>
        BY <2>1, <2>7, <3>1, <3>4 DEF Managers, sqlite_close
      <4> QED BY <4>1, StoreLiterals
    <3> QED BY <3>2, <3>3, <3>4
  <2>8. CASE setup.kind = "aiosqlite"
    <3>1. Kind = [get |-> sqlite_conn_async, close |-> sqlite_close_async]
      BY <2>8 DEF Kind, Programs
    <3>2. op \in {"get", "close"}
      BY <1>1, <3>1
    <3>3. CASE op = "get"
      BY <2>1, <3>1, <3>3, StoreLiterals DEF sqlite_conn_async
    <3>4. CASE op = "close"
      <4>1. setup.kind \in Managers /\ Program(op) = <<"own", "shut", "delete">>
        BY <2>1, <2>8, <3>1, <3>4 DEF Managers, sqlite_close_async
      <4> QED BY <4>1, StoreLiterals
    <3> QED BY <3>2, <3>3, <3>4
  <2> QED BY <2>2, <2>3, <2>4, <2>5, <2>6, <2>7, <2>8 DEF Sync, Async
<1>2. CASE op \notin DOMAIN Kind
  <2>1. Program(op) = Common[op] /\ op \in {"new", "close_all", "clean", "clean_thread", "clean_all", "clean_everything"}
    BY <1>2 DEF Program, Common
  <2>2. CASE op = "new"
    BY <2>1, <2>2, StoreLiterals DEF Common
  <2>3. CASE op = "close_all"
    <3>1. Common[op] = IF setup.kind \in Managers THEN <<"own", "shut", "sweep">> ELSE <<"walk", "sweep">>
      BY <2>3 DEF Common
    <3> QED BY <2>1, <2>3, <3>1, StoreLiterals
  <2>4. CASE op = "clean"
    BY <2>1, <2>4, StoreLiterals DEF Common
  <2>5. CASE op = "clean_thread"
    BY <2>1, <2>5, StoreLiterals DEF Common
  <2>6. CASE op = "clean_all"
    BY <2>1, <2>6, StoreLiterals DEF Common
  <2>7. CASE op = "clean_everything"
    BY <2>1, <2>7, StoreLiterals DEF Common
  <2> QED BY <2>1, <2>2, <2>3, <2>4, <2>5, <2>6, <2>7
<1> QED
  BY <1>1, <1>2

-----------------------------------------------------------------------------
(* The inductive invariant *)
Held == 1..made \cup {Nothing, Coroutine}
Valid == 1..adapters
InCtx(u) == job[u].op \in CtxOps
Says(u, step) == \E i \in 1..Len(todo[u]) : todo[u][i] = step
Searches == {"get_adapter", "shared", "make"}

ConnTypes ==
  /\ made \in Nat /\ open \subseteq 1..made
  /\ conns \in [Threads -> Held] /\ rd \in [Users -> Held]
  /\ attr \in [Adapters -> Held] /\ pool \in [Adapters -> Held]
KeyTypes ==
  /\ order \in Seq(Threads \cup {Nothing})
  /\ \A t \in Threads : conns[t] # Nothing => t \in Keys
CallTypes ==
  /\ setup \in Setups
  /\ job \in [Users -> [op : setup.ops \cup {"none"}, tid : Threads \cup {Nothing}, on : Int \cup {Nothing}]]
  /\ todo \in [Users -> Seq(Words)]
  /\ DOMAIN answer = Users /\ DOMAIN walk = Users
  /\ \A u \in Users : walk[u] # Nothing => walk[u].at \in Nat \ {0}
  /\ loop # Nothing => loop \in Users /\ todo[loop] # <<>>
AdapterTypes ==
  /\ adapters \in 0..MaxAdapters
  /\ {instance, shared, tracked} \subseteq Valid \cup {Nothing}
  /\ instance # Nothing => tracked # Nothing
  /\ tracker \in [Adapters -> [layer : Int, virtual : Nat, contexts : Int]]
  /\ depth \in [Users -> Nat]
  /\ \A u \in Users : depth[u] > 0 => tracked # Nothing

\* Where a call is.
Under(u) ==
  todo[u] # <<>> =>
    /\ Shape(setup.kind, InCtx(u), todo[u])
    /\ u \in Crew /\ job[u].tid \in Threads
    /\ InCtx(u) => /\ setup.kind \in Wrapped /\ job[u].tid = setup.home[u]
                   /\ \A i \in 1..Len(todo[u]) : todo[u][i] \in CtxWords(job[u].op)
                   /\ job[u].on \in Valid \/ todo[u][1] \in Searches
    /\ todo[u][1] = "virt_enter" => tracked # Nothing
    /\ Says(u, "entered") => tracked # Nothing \/ Says(u, "install")

CtxInv == ConnTypes /\ KeyTypes /\ CallTypes /\ AdapterTypes /\ \A u \in Users : Under(u)

WalkTypes == DOMAIN walk = Users /\ \A u \in Users : walk[u] # Nothing => walk[u].at \in Nat \ {0}

Runs(u, n) == todo' = [todo EXCEPT ![u] = Drop(todo[u], n)]

-----------------------------------------------------------------------------
\* The head of a program that is not done, and its words.
LEMMA Heads ==
  ASSUME CtxInv, NEW u \in Users, NEW w, At(u, w), w # "none"
  PROVE  /\ todo[u] # <<>> /\ todo[u] \in Seq(Words) /\ Len(todo[u]) \in Nat \ {0} /\ todo[u][1] = w
         /\ Shape(setup.kind, InCtx(u), todo[u]) /\ u \in Crew /\ job[u].tid \in Threads
         /\ Fits(setup.kind, InCtx(u), todo[u], 1)
<1>1. todo[u] \in Seq(Words)
  BY DEF CtxInv, CallTypes
<1>2. todo[u] # <<>> /\ Head(todo[u]) = w
  BY DEF At, Step
<1>3. Len(todo[u]) \in Nat \ {0} /\ todo[u][1] = w
  BY <1>1, <1>2
<1>4. Shape(setup.kind, InCtx(u), todo[u]) /\ u \in Crew /\ job[u].tid \in Threads
  BY <1>2 DEF CtxInv, Under
<1>5. Fits(setup.kind, InCtx(u), todo[u], 1)
  BY <1>3, <1>4 DEF Shape
<1> QED
  BY <1>1, <1>2, <1>3, <1>4, <1>5

\* A call goes on: what is left of it is still where a call can be.
LEMMA Advance ==
  ASSUME CtxInv, NEW u \in Users, todo[u] # <<>>, NEW n \in 1..Len(todo[u]), Runs(u, n), setup' = setup,
         job'[u].op = job[u].op, job'[u].tid = job[u].tid,
         tracked # Nothing => tracked' # Nothing,
         n < Len(todo[u]) => job'[u].on \in 1..adapters' \/ todo[u][n + 1] \in Searches \/ ~InCtx(u),
         n < Len(todo[u]) /\ todo[u][n + 1] = "virt_enter" => tracked' # Nothing,
         tracked' # Nothing \/ (\A i \in 1..n : todo[u][i] # "install") \/ ~Says(u, "entered")
  PROVE  Under(u)'
<1> DEFINE r == Drop(todo[u], n)
<1>1. Shape(setup.kind, InCtx(u), todo[u]) /\ n \in Nat /\ n <= Len(todo[u]) /\ n > 0
      /\ todo[u] \in Seq(Words) /\ Len(todo[u]) \in Nat
  BY DEF CtxInv, Under, CallTypes
<1>2. /\ Shape(setup.kind, InCtx(u), r) /\ Len(r) = Len(todo[u]) - n
      /\ \A i \in 1..Len(todo[u]) - n : r[i] = todo[u][n + i]
      /\ r = <<>> <=> n = Len(todo[u])
  BY <1>1, DropShape
<1>3. todo'[u] = r
  BY DEF Runs, CtxInv, CallTypes
<1> HIDE DEF r
<1> SUFFICES ASSUME r # <<>>
             PROVE  Under(u)'
  BY <1>3 DEF Under
<1>4. n < Len(todo[u]) /\ r[1] = todo[u][n + 1]
  <2>1. n < Len(todo[u])
    BY <1>1, <1>2
  <2>2. 1 \in 1..Len(todo[u]) - n
    BY <1>1, <2>1
  <2> QED BY <1>2, <2>1, <2>2
<1>5. InCtx(u)' <=> InCtx(u)
  BY DEF InCtx
<1>6. InCtx(u) \in BOOLEAN /\ InCtx(u)' = InCtx(u)
  BY DEF InCtx
<1>7. Shape(setup.kind, InCtx(u), todo[u])'
  BY <1>2, <1>3, <1>6
<1>8. /\ u \in Crew /\ job[u].tid \in Threads
      /\ InCtx(u) => /\ setup.kind \in Wrapped /\ job[u].tid = setup.home[u]
                     /\ \A i \in 1..Len(todo[u]) : todo[u][i] \in CtxWords(job[u].op)
      /\ Says(u, "entered") => tracked # Nothing \/ Says(u, "install")
  BY DEF CtxInv, Under
<1>9. \A i \in 1..Len(r) : n + i \in 1..Len(todo[u]) /\ r[i] = todo[u][n + i]
  BY <1>1, <1>2
<1>10. InCtx(u) => \A i \in 1..Len(r) : r[i] \in CtxWords(job[u].op)
  BY <1>8, <1>9
<1>11. (\E i \in 1..Len(r) : r[i] = "entered") => tracked' # Nothing \/ \E i \in 1..Len(r) : r[i] = "install"
  <2> SUFFICES ASSUME \E i \in 1..Len(r) : r[i] = "entered", tracked' = Nothing
               PROVE  \E i \in 1..Len(r) : r[i] = "install"
    OBVIOUS
  <2>1. Says(u, "entered")
    BY <1>9 DEF Says
  <2>2. \A i \in 1..n : todo[u][i] # "install"
    BY <2>1
  <2>3. PICK j \in 1..Len(todo[u]) : todo[u][j] = "install"
    BY <1>8, <2>1 DEF Says
  <2>4. j > n
    BY <1>1, <2>2, <2>3
  <2>5. j - n \in 1..Len(r) /\ r[j - n] = todo[u][n + (j - n)] /\ n + (j - n) = j
    BY <1>1, <1>2, <2>3, <2>4
  <2> QED BY <2>3, <2>5
<1>12. (Crew' = Crew) /\ (CtxWords(job[u].op)' = CtxWords(job[u].op))
  BY DEF Crew, CtxWords
<1>13. InCtx(u)' => job'[u].on \in 1..adapters' \/ r[1] \in Searches
  BY <1>4, <1>5
<1>14. r[1] = "virt_enter" => tracked' # Nothing
  BY <1>4
<1> QED
  BY <1>3, <1>5, <1>7, <1>8, <1>10, <1>11, <1>12, <1>13, <1>14 DEF Under, Says, Valid

\* The others are where they were.
LEMMA OthersUnder ==
  ASSUME CtxInv, NEW u \in Users, todo'[u] = todo[u], job'[u] = job[u], setup' = setup,
         adapters' \in Nat, adapters \in Nat, adapters <= adapters', tracked # Nothing => tracked' # Nothing
  PROVE  Under(u)'
<1>1. Under(u)
  BY DEF CtxInv
<1>2. InCtx(u)' = InCtx(u) /\ Crew' = Crew /\ CtxWords(job[u].op)' = CtxWords(job[u].op) /\ Valid \subseteq Valid'
  BY DEF InCtx, Crew, CtxWords, Valid
<1>3. Shape(setup.kind, InCtx(u), todo[u])' <=> Shape(setup.kind, InCtx(u), todo[u])
  BY <1>2
<1> QED
  BY <1>1, <1>2, <1>3 DEF Under, Says

\* What a context is entered behind.
LEMMA OnlyInstallEnters ==
  ASSUME NEW ctx, NEW a \in Words, Follows(ctx, a, "virt_enter")
  PROVE  a = "install"
BY DEF Follows, Ends, Haves, Words, StoreSteps, CtxSteps

\* A step that is neither the wrapper's nor the module's.
LEMMA PlainAdvance ==
  ASSUME CtxInv, NEW u \in Users, todo[u] # <<>>, NEW n \in 1..Len(todo[u]), Runs(u, n),
         UNCHANGED <<setup, job, tracked, adapters>>,
         \A i \in 1..n : todo[u][i] \notin Searches \cup {"install", "virt_enter"}
  PROVE  \A w \in Users : Under(w)'
<1>1. adapters \in Nat /\ todo \in [Users -> Seq(Words)]
  BY DEF CtxInv, AdapterTypes, CallTypes
<1>2. \A w \in Users \ {u} : Under(w)'
  <2> TAKE w \in Users \ {u}
  <2>1. todo'[w] = todo[w]
    BY <1>1 DEF Runs
  <2> QED BY <1>1, <2>1, OthersUnder
<1>3. Under(u)'
  <2>1. InCtx(u) => job[u].on \in Valid
    <3>1. todo[u][1] \notin Searches
      <4>1. 1 \in 1..n
        BY <1>1
      <4> QED BY <4>1
    <3> QED BY <3>1 DEF CtxInv, Under
  <2>2. n < Len(todo[u]) => todo[u][n + 1] # "virt_enter"
    <3> HAVE n < Len(todo[u])
    <3>1. n \in 1..Len(todo[u]) /\ n \in 1..n
      BY <1>1
    <3>2. Follows(InCtx(u), todo[u][n], todo[u][n + 1]) /\ todo[u][n] \in Words
      <4>1. Shape(setup.kind, InCtx(u), todo[u])
        BY DEF CtxInv, Under
      <4> QED BY <1>1, <3>1, <4>1 DEF Shape
    <3>3. todo[u][n] # "install"
      BY <3>1
    <3> QED BY <3>2, <3>3, OnlyInstallEnters
  <2> QED BY <2>1, <2>2, Advance DEF Valid
<1> QED
  BY <1>2, <1>3
-----------------------------------------------------------------------------
\* A call that skips n steps and goes on, or returns.
LEMMA SkipTypes ==
  ASSUME CtxInv, NEW u \in Users, NEW n \in Nat, n + 1 <= Len(todo[u]), Skip(u, n), setup' = setup,
         job' \in [Users -> [op : setup.ops \cup {"none"}, tid : Threads \cup {Nothing}, on : Int \cup {Nothing}]],
         DOMAIN walk' = Users, \A w \in Users : walk'[w] # Nothing => walk'[w].at \in Nat \ {0}
  PROVE  CallTypes' /\ Runs(u, n + 1) /\ n + 1 \in 1..Len(todo[u])
<1>1. todo \in [Users -> Seq(Words)] /\ Len(todo[u]) \in Nat /\ DOMAIN answer = Users /\ setup \in Setups
  BY DEF CtxInv, CallTypes
<1>2. Runs(u, n + 1) /\ n + 1 \in 1..Len(todo[u])
  <2>1. Runs(u, n + 1)
    BY DEF Skip, Continue, Proceed, Runs
  <2> QED BY <1>1, <2>1
<1>3. Drop(todo[u], n + 1) \in Seq(Words)
  BY <1>1, <1>2 DEF Drop
<1>4. todo' \in [Users -> Seq(Words)] /\ todo'[u] = Drop(todo[u], n + 1)
  BY <1>1, <1>2, <1>3 DEF Runs
<1>5. loop' \in {Nothing, u} /\ (loop' # Nothing => Drop(todo[u], n + 1) # <<>>)
  BY DEF Skip, Continue, Proceed
<1>6. DOMAIN answer' = Users
  BY <1>1 DEF Skip, Continue, Proceed
<1> QED
  BY <1>1, <1>2, <1>4, <1>5, <1>6 DEF CallTypes

\* A call of the store or of an adapter that goes on.
LEMMA PlainSkip ==
  ASSUME CtxInv, NEW u \in Users, NEW n \in Nat, n + 1 <= Len(todo[u]), Skip(u, n),
         UNCHANGED <<setup, job, tracked, adapters>>, WalkTypes',
         \A i \in 1..n + 1 : todo[u][i] \notin Searches \cup {"install", "virt_enter"}
  PROVE  CallTypes' /\ \A w \in Users : Under(w)'
<1>1. CallTypes' /\ Runs(u, n + 1) /\ n + 1 \in 1..Len(todo[u])
  BY SkipTypes DEF CtxInv, CallTypes, WalkTypes
<1>2. todo[u] # <<>>
  <2>1. todo[u] \in Seq(Words)
    BY DEF CtxInv, CallTypes
  <2> QED BY <1>1, <2>1
<1> QED
  BY <1>1, <1>2, PlainAdvance

\* A call that fails.
LEMMA RaiseTypes ==
  ASSUME CtxInv, NEW u \in Users, Raise(u), UNCHANGED <<setup, job, tracked, adapters>>
  PROVE  CallTypes' /\ \A w \in Users : Under(w)'
<1>1. /\ todo \in [Users -> Seq(Words)] /\ DOMAIN answer = Users /\ setup \in Setups /\ DOMAIN walk = Users
      /\ \A w \in Users : walk[w] # Nothing => walk[w].at \in Nat \ {0}
      /\ job \in [Users -> [op : setup.ops \cup {"none"}, tid : Threads \cup {Nothing}, on : Int \cup {Nothing}]]
      /\ adapters \in Nat
  BY DEF CtxInv, CallTypes, AdapterTypes
<1>2. todo' = [todo EXCEPT ![u] = <<>>] /\ walk' = [walk EXCEPT ![u] = Nothing] /\ loop' = Nothing
      /\ DOMAIN answer' = Users
  BY <1>1 DEF Raise
<1>3. <<>> \in Seq(Words)
  OBVIOUS
<1>4. CallTypes'
  BY <1>1, <1>2, <1>3 DEF CallTypes
<1>5. \A w \in Users : Under(w)'
  <2> TAKE w \in Users
  <2>1. CASE w = u
    BY <1>1, <1>2, <2>1 DEF Under
  <2>2. CASE w # u
    <3>1. todo'[w] = todo[w]
      BY <1>1, <1>2, <2>2
    <3> QED BY <1>1, <3>1, OthersUnder
  <2> QED BY <2>1, <2>2
<1> QED
  BY <1>4, <1>5

\* The store of a thread is made.
LEMMA Touches ==
  ASSUME order \in Seq(Threads \cup {Nothing}), NEW t \in Threads, Touch(t)
  PROVE  order' \in Seq(Threads \cup {Nothing}) /\ Keys \subseteq Keys' /\ t \in Keys'
<1>1. CASE t \in Keys
  BY <1>1 DEF Touch, Keys
<1>2. CASE t \notin Keys
  <2>1. order' = Append(order, t)
    BY <1>2 DEF Touch
  <2>2. order' \in Seq(Threads \cup {Nothing}) /\ Len(order') = Len(order) + 1 /\ order'[Len(order) + 1] = t
        /\ \A i \in 1..Len(order) : order'[i] = order[i]
    BY <2>1
  <2>3. DOMAIN order = 1..Len(order) /\ DOMAIN order' = 1..Len(order') /\ Len(order) \in Nat
    BY <2>2
  <2>4. Len(order) + 1 \in DOMAIN order' /\ DOMAIN order \subseteq DOMAIN order'
    BY <2>2, <2>3
  <2> QED BY <2>2, <2>3, <2>4 DEF Keys
<1> QED
  BY <1>1, <1>2

\* An entry is only where there is a store.
LEMMA KeysStay ==
  ASSUME KeyTypes, order' \in Seq(Threads \cup {Nothing}), Keys \subseteq Keys',
         \A t \in Threads : conns'[t] # Nothing => conns[t] # Nothing \/ t \in Keys'
  PROVE  KeyTypes'
BY DEF KeyTypes

\* The thread a call is about.
LEMMA HomeIs ==
  ASSUME CtxInv, NEW u \in Users, u \in Crew
  PROVE  setup.home[u] \in Threads
BY StoreAssumption DEF CtxInv, CallTypes, StoreAssumption, Crew

\* What the steps of the store skip.
LEMMA StoreSkips ==
  ASSUME NEW kind, NEW ctx, NEW s \in Seq(Words), Fits(kind, ctx, s, 1)
  PROVE  /\ s[1] \in {"lookup", "seek"} =>
              3 <= Len(s) /\ \A i \in 1..3 : s[i] \in {"lookup", "seek", "connect", "store", "shut", "delete"}
         /\ s[1] = "own" => 2 <= Len(s) /\ \A i \in 1..2 : s[i] \in {"own", "shut"}
<1>1. \A i \in 1..3 : i = 1 \/ i = 2 \/ i = 3
  OBVIOUS
<1>2. \A i \in 1..2 : i = 1 \/ i = 2
  OBVIOUS
<1>3. s[1] = "lookup" => 3 <= Len(s) /\ s[2] = "connect" /\ s[3] = "store"
  BY DEF Fits, Pair, Looks
<1>4. s[1] = "seek" => 3 <= Len(s) /\ s[2] = "shut" /\ s[3] = "delete"
  BY DEF Fits, Pair, Looks
<1>5. s[1] = "own" => 2 <= Len(s) /\ s[2] = "shut"
  BY DEF Fits, Pair, Looks
<1> QED
  BY <1>1, <1>2, <1>3, <1>4, <1>5

\* A step that only goes on.
LEMMA GoOnWalking ==
  ASSUME CtxInv, NEW u \in Users, NEW w, At(u, w), w \notin Searches \cup {"install", "virt_enter", "none"},
         Go(u), UNCHANGED <<setup, job, tracked, adapters>>, WalkTypes'
  PROVE  CallTypes' /\ \A v \in Users : Under(v)'
<1>1. Len(todo[u]) \in Nat \ {0} /\ todo[u][1] = w
  BY Heads
<1>2. 0 \in Nat /\ 0 + 1 <= Len(todo[u]) /\ Skip(u, 0)
  BY <1>1 DEF Go
<1>3. \A i \in 1..0 + 1 : i = 1
  OBVIOUS
<1>4. \A i \in 1..0 + 1 : todo[u][i] \notin Searches \cup {"install", "virt_enter"}
  BY <1>1, <1>3
<1> QED
  BY <1>2, <1>4, PlainSkip

\* A step that leaves the iterations alone leaves them typed.
LEMMA WalkStays ==
  ASSUME CtxInv, UNCHANGED walk
  PROVE  WalkTypes'
BY DEF CtxInv, CallTypes, WalkTypes

\* A call goes on with what is left of its program: the types of its job and its words stay.
LEMMA GoOn ==
  ASSUME CtxInv, NEW u \in Users, NEW w, At(u, w), w \notin Searches \cup {"install", "virt_enter", "none"},
         Go(u), UNCHANGED <<setup, job, tracked, adapters, walk>>
  PROVE  CallTypes' /\ \A v \in Users : Under(v)'
BY GoOnWalking, WalkStays

\* The steps of the store one by one.
LEMMA LookupTypes ==
  ASSUME CtxInv, NEW u \in Users, Lookup(u), UNCHANGED <<setup, job, tracked, adapters, attr, pool>>
  PROVE  ConnTypes' /\ KeyTypes' /\ CallTypes' /\ \A w \in Users : Under(w)'
<1>1. At(u, "lookup") /\ UNCHANGED <<conns, made, open, given, faults, walk>> /\ Touch(job[u].tid)
      /\ Holds(u, conns[job[u].tid]) /\ IF conns[job[u].tid] # Nothing THEN Skip(u, 2) ELSE Go(u)
  BY DEF Lookup
<1>2. Len(todo[u]) \in Nat \ {0} /\ todo[u][1] = "lookup" /\ job[u].tid \in Threads /\ todo[u] \in Seq(Words)
      /\ Fits(setup.kind, InCtx(u), todo[u], 1)
  BY <1>1, Heads
<1>3. ConnTypes'
  BY <1>1, <1>2 DEF CtxInv, ConnTypes, Holds, Held
<1>4. KeyTypes'
  BY <1>1, <1>2, Touches, KeysStay DEF CtxInv, KeyTypes
<1>5. CallTypes' /\ \A w \in Users : Under(w)'
  <2>1. CASE conns[job[u].tid] # Nothing
    <3>1. 3 <= Len(todo[u]) /\ \A i \in 1..2 + 1 : todo[u][i] \notin Searches \cup {"install", "virt_enter"}
      BY <1>2, StoreSkips DEF Searches
    <3>2. 2 \in Nat /\ 2 + 1 <= Len(todo[u]) /\ Skip(u, 2)
      BY <1>1, <2>1, <3>1
    <3> QED BY <1>1, <3>1, <3>2, PlainSkip, WalkStays
  <2>2. CASE conns[job[u].tid] = Nothing
    BY <1>1, <2>2, GoOn DEF Searches
  <2> QED BY <2>1, <2>2
<1> QED
  BY <1>3, <1>4, <1>5

\* Looking for one's own connection before closing it keeps the types.
LEMMA SeekTypes ==
  ASSUME CtxInv, NEW u \in Users, Seek(u), UNCHANGED <<setup, job, tracked, adapters, attr, pool>>
  PROVE  ConnTypes' /\ KeyTypes' /\ CallTypes' /\ \A w \in Users : Under(w)'
<1>1. At(u, "seek") /\ UNCHANGED <<conns, made, open, given, faults, walk>> /\ Touch(job[u].tid)
      /\ Holds(u, conns[job[u].tid]) /\ IF conns[job[u].tid] = Nothing THEN Skip(u, 2) ELSE Go(u)
  BY DEF Seek
<1>2. Len(todo[u]) \in Nat \ {0} /\ todo[u][1] = "seek" /\ job[u].tid \in Threads /\ todo[u] \in Seq(Words)
      /\ Fits(setup.kind, InCtx(u), todo[u], 1)
  BY <1>1, Heads
<1>3. ConnTypes'
  BY <1>1, <1>2 DEF CtxInv, ConnTypes, Holds, Held
<1>4. KeyTypes'
  BY <1>1, <1>2, Touches, KeysStay DEF CtxInv, KeyTypes
<1>5. CallTypes' /\ \A w \in Users : Under(w)'
  <2>1. CASE conns[job[u].tid] = Nothing
    <3>1. 3 <= Len(todo[u]) /\ \A i \in 1..2 + 1 : todo[u][i] \notin Searches \cup {"install", "virt_enter"}
      BY <1>2, StoreSkips DEF Searches
    <3>2. 2 \in Nat /\ 2 + 1 <= Len(todo[u]) /\ Skip(u, 2)
      BY <1>1, <2>1, <3>1
    <3> QED BY <1>1, <3>1, <3>2, PlainSkip, WalkStays
  <2>2. CASE conns[job[u].tid] # Nothing
    BY <1>1, <2>2, GoOn DEF Searches
  <2> QED BY <2>1, <2>2
<1> QED
  BY <1>3, <1>4, <1>5

\* Asking whether the thread has a connection of its own keeps the types.
LEMMA OwnTypes ==
  ASSUME CtxInv, NEW u \in Users, Own(u), UNCHANGED <<setup, job, tracked, adapters, attr, pool>>
  PROVE  ConnTypes' /\ KeyTypes' /\ CallTypes' /\ \A w \in Users : Under(w)'
<1>1. At(u, "own") /\ UNCHANGED <<conns, made, open, given, faults, walk>> /\ Touch(setup.home[u])
      /\ Holds(u, conns[setup.home[u]]) /\ IF conns[setup.home[u]] = Nothing THEN Skip(u, 1) ELSE Go(u)
  BY DEF Own
<1>2. Len(todo[u]) \in Nat \ {0} /\ todo[u][1] = "own" /\ u \in Crew /\ todo[u] \in Seq(Words)
      /\ Fits(setup.kind, InCtx(u), todo[u], 1)
  BY <1>1, Heads
<1>3. setup.home[u] \in Threads
  BY <1>2, HomeIs
<1>4. ConnTypes'
  BY <1>1, <1>3 DEF CtxInv, ConnTypes, Holds, Held
<1>5. KeyTypes'
  BY <1>1, <1>3, Touches, KeysStay DEF CtxInv, KeyTypes
<1>6. CallTypes' /\ \A w \in Users : Under(w)'
  <2>1. CASE conns[setup.home[u]] = Nothing
    <3>1. 2 <= Len(todo[u]) /\ \A i \in 1..1 + 1 : todo[u][i] \notin Searches \cup {"install", "virt_enter"}
      BY <1>2, StoreSkips DEF Searches
    <3>2. 1 \in Nat /\ 1 + 1 <= Len(todo[u]) /\ Skip(u, 1)
      BY <1>1, <2>1, <3>1
    <3> QED BY <1>1, <3>1, <3>2, PlainSkip, WalkStays
  <2>2. CASE conns[setup.home[u]] # Nothing
    BY <1>1, <2>2, GoOn DEF Searches
  <2> QED BY <2>1, <2>2
<1> QED
  BY <1>4, <1>5, <1>6

\* Opening a connection keeps the types.
LEMMA ConnectTypes ==
  ASSUME CtxInv, NEW u \in Users, Connect(u) \/ ConnectFails(u),
         UNCHANGED <<setup, job, tracked, adapters, attr, pool>>
  PROVE  ConnTypes' /\ KeyTypes' /\ CallTypes' /\ \A w \in Users : Under(w)'
<1>1. CASE Connect(u)
  <2>1. At(u, "connect") /\ UNCHANGED <<order, conns, faults, walk>> /\ made' = made + 1
        /\ open' = open \cup {made + 1} /\ Holds(u, made + 1) /\ Go(u)
    BY <1>1 DEF Connect
  <2>2. made \in Nat /\ 1..made \subseteq 1..made' /\ made + 1 \in 1..made' /\ Held \subseteq Held'
    <3>1. made \in Nat
      BY DEF CtxInv, ConnTypes
    <3> QED BY <2>1, <3>1 DEF Held
  <2>3. ConnTypes'
    <3>1. made' \in Nat /\ open' \subseteq 1..made'
      BY <2>1, <2>2 DEF CtxInv, ConnTypes
    <3>2. made + 1 \in Held'
      BY <2>2 DEF Held
    <3>3. rd' \in [Users -> Held']
      BY <2>1, <2>2, <3>2 DEF CtxInv, ConnTypes, Holds
    <3>4. conns' \in [Threads -> Held'] /\ attr' \in [Adapters -> Held'] /\ pool' \in [Adapters -> Held']
      BY <2>1, <2>2 DEF CtxInv, ConnTypes
    <3> QED BY <3>1, <3>3, <3>4 DEF ConnTypes
  <2>4. KeyTypes'
    BY <2>1 DEF CtxInv, KeyTypes, Keys
  <2>5. CallTypes' /\ \A w \in Users : Under(w)'
    BY <2>1, GoOn DEF Searches
  <2> QED BY <2>3, <2>4, <2>5
<1>2. CASE ConnectFails(u)
  <2>1. Raise(u) /\ UNCHANGED <<order, conns, made, open, given, rd>>
    BY <1>2 DEF ConnectFails, storeVars
  <2>2. ConnTypes' /\ KeyTypes'
    BY <2>1 DEF CtxInv, ConnTypes, KeyTypes, Keys, Held
  <2> QED BY <2>1, <2>2, RaiseTypes
<1> QED
  BY <1>1, <1>2

\* Storing a connection under the thread's number keeps the types.
LEMMA StoreTypes ==
  ASSUME CtxInv, NEW u \in Users, Store(u) \/ Promise(u), UNCHANGED <<setup, job, tracked, adapters, attr, pool>>
  PROVE  ConnTypes' /\ KeyTypes' /\ CallTypes' /\ \A w \in Users : Under(w)'
<1>1. /\ At(u, "store") \/ At(u, "promise")
      /\ UNCHANGED <<made, open, given, faults, rd, walk>> /\ Touch(job[u].tid)
      /\ \E c \in {rd[u], Coroutine} : conns' = [conns EXCEPT ![job[u].tid] = c]
      /\ Go(u)
  BY DEF Store, Promise
<1>2. job[u].tid \in Threads
  BY <1>1, Heads
<1>3. ConnTypes'
  BY <1>1, <1>2 DEF CtxInv, ConnTypes, Held
<1>4. KeyTypes'
  <2>1. order' \in Seq(Threads \cup {Nothing}) /\ Keys \subseteq Keys' /\ job[u].tid \in Keys'
    BY <1>1, <1>2, Touches DEF CtxInv, KeyTypes
  <2>2. \A t \in Threads : conns'[t] # Nothing => conns[t] # Nothing \/ t \in Keys'
    BY <1>1, <2>1 DEF CtxInv, ConnTypes
  <2> QED BY <2>1, <2>2, KeysStay DEF CtxInv
<1>5. CallTypes' /\ \A w \in Users : Under(w)'
  BY <1>1, GoOn DEF Searches
<1> QED
  BY <1>3, <1>4, <1>5

\* Closing the connection that was read keeps the types.
LEMMA ShutTypes ==
  ASSUME CtxInv, NEW u \in Users, Shut(u), UNCHANGED <<setup, job, tracked, adapters, attr, pool>>
  PROVE  ConnTypes' /\ KeyTypes' /\ CallTypes' /\ \A w \in Users : Under(w)'
<1>1. At(u, "shut") /\ UNCHANGED <<order, conns, made, given, faults, rd>> /\ open' = open \ {rd[u]}
      /\ (Raise(u) \/ (UNCHANGED walk /\ Go(u)))
  BY DEF Shut
<1>2. ConnTypes' /\ KeyTypes'
  BY <1>1 DEF CtxInv, ConnTypes, KeyTypes, Keys, Held
<1>3. CallTypes' /\ \A w \in Users : Under(w)'
  <2>1. CASE Raise(u)
    BY <2>1, RaiseTypes
  <2>2. CASE UNCHANGED walk /\ Go(u)
    BY <1>1, <2>2, GoOn DEF Searches
  <2> QED BY <1>1, <2>1, <2>2
<1> QED
  BY <1>2, <1>3

\* Deleting the thread's entry keeps the types.
LEMMA DeleteTypes ==
  ASSUME CtxInv, NEW u \in Users, Delete(u) \/ DropThread(u),
         UNCHANGED <<setup, job, tracked, adapters, attr, pool>>
  PROVE  ConnTypes' /\ KeyTypes' /\ CallTypes' /\ \A w \in Users : Under(w)'
<1>1. /\ At(u, "delete") \/ At(u, "drop")
      /\ UNCHANGED <<made, open, given, faults, rd, walk>>
      /\ conns' = [conns EXCEPT ![job[u].tid] = Nothing] /\ Go(u)
  BY DEF Delete, DropThread
<1>2. ConnTypes'
  BY <1>1 DEF CtxInv, ConnTypes, Held
<1>3. KeyTypes'
  <2>1. conns \in [Threads -> Held] /\ order \in Seq(Threads \cup {Nothing})
        /\ \A t \in Threads : conns[t] # Nothing => t \in Keys
    BY DEF CtxInv, ConnTypes, KeyTypes
  <2>2. \A t \in Threads : conns'[t] # Nothing => conns[t] # Nothing /\ t # job[u].tid
    BY <1>1, <2>1
  <2>3. CASE Delete(u)
    BY <2>1, <2>2, <2>3 DEF Delete, KeyTypes, Keys
  <2>4. CASE DropThread(u)
    <3>1. order' = [i \in DOMAIN order |-> IF order[i] = job[u].tid THEN Nothing ELSE order[i]]
      BY <2>4 DEF DropThread
    <3>2. order' \in Seq(Threads \cup {Nothing})
      <4>1. DOMAIN order = 1..Len(order) /\ Len(order) \in Nat
        BY <2>1
      <4>2. order' \in [1..Len(order) -> Threads \cup {Nothing}]
        BY <2>1, <3>1, <4>1
      <4> QED BY <4>1, <4>2
    <3>3. \A t \in Threads : t \in Keys /\ t # job[u].tid => t \in Keys'
      BY <3>1 DEF Keys
    <3> QED BY <2>1, <2>2, <3>2, <3>3 DEF KeyTypes
  <2> QED BY <2>3, <2>4
<1>4. CallTypes' /\ \A w \in Users : Under(w)'
  BY <1>1, GoOn DEF Searches
<1> QED
  BY <1>2, <1>3, <1>4

\* The least of some numbers.
LEMMA LeastOne ==
  ASSUME NEW S, S \subseteq Nat, S # {}
  PROVE  First(S) \in S /\ \A n \in S : First(S) <= n
<1> DEFINE R == {ss \in Nat \X Nat : ss[1] < ss[2]}
<1>1. IsWellFoundedOn(R, Nat)
  BY NatLessThanWellFounded DEF OpToRel
<1>2. PICK m \in S : \A n \in S : <<n, m>> \notin R
  <2> HIDE DEF R
  <2> QED
    BY <1>1, WFMin
<1>3. ASSUME NEW n \in S PROVE m <= n
  <2>1. <<n, m>> \in Nat \X Nat /\ <<n, m>>[1] = n /\ <<n, m>>[2] = m
    OBVIOUS
  <2>2. n < m => <<n, m>> \in R
    <3> SUFFICES ASSUME n < m PROVE <<n, m>> \in R
      OBVIOUS
    <3>1. <<n, m>>[1] < <<n, m>>[2]
      BY <2>1
    <3> QED
      BY ONLY <2>1, <3>1
  <2> QED
    BY <1>2, <2>2
<1> QED
  BY <1>3 DEF First

\* The next entry of an iteration.
LEMMA NextIs ==
  ASSUME CtxInv, NEW i \in Nat \ {0}, Ahead(i) # {}
  PROVE  /\ First(Ahead(i)) \in Ahead(i) /\ First(Ahead(i)) \in i..Len(order) /\ First(Ahead(i)) \in Nat \ {0}
         /\ order[First(Ahead(i))] \in Threads /\ conns[order[First(Ahead(i))]] # Nothing
         /\ \A j \in Ahead(i) : First(Ahead(i)) <= j
<1>1. order \in Seq(Threads \cup {Nothing}) /\ Len(order) \in Nat
  BY DEF CtxInv, KeyTypes
<1>2. Ahead(i) \subseteq Nat /\ Ahead(i) \subseteq i..Len(order)
  BY <1>1 DEF Ahead
<1>3. First(Ahead(i)) \in Ahead(i) /\ \A j \in Ahead(i) : First(Ahead(i)) <= j
  BY <1>2, LeastOne
<1>4. order[First(Ahead(i))] # Nothing /\ conns[order[First(Ahead(i))]] # Nothing
  BY <1>3 DEF Ahead
<1>5. First(Ahead(i)) \in 1..Len(order)
  BY <1>1, <1>2, <1>3
<1> QED
  BY <1>1, <1>2, <1>3, <1>4, <1>5

\* The place of an iteration.
LEMMA PlaceIs ==
  ASSUME CtxInv, NEW u \in Users
  PROVE  Place(u).at \in Nat \ {0}
BY DEF CtxInv, CallTypes, Place

\* An iteration that ends.
LEMMA EndTypes ==
  ASSUME CtxInv, NEW u \in Users, At(u, "walk") \/ At(u, "sweep"), IterationEnds(u),
         UNCHANGED <<setup, job, tracked, adapters>>
  PROVE  CallTypes' /\ \A v \in Users : Under(v)'
<1>1. CASE Raise(u)
  BY <1>1, RaiseTypes
<1>2. CASE Go(u) /\ walk' = [walk EXCEPT ![u] = Nothing]
  <2>1. WalkTypes'
    BY <1>2 DEF CtxInv, CallTypes, WalkTypes
  <2> QED BY <1>2, <2>1, GoOnWalking DEF Searches
<1> QED
  BY <1>1, <1>2 DEF IterationEnds

\* An iteration that comes to an entry.
LEMMA NextTypes ==
  ASSUME CtxInv, NEW u \in Users, NextEntry(u)
  PROVE  WalkTypes' /\ order[Visited(u)] \in Threads /\ Visited(u) \in Nat \ {0}
<1>1. Visited(u) \in Nat \ {0} /\ order[Visited(u)] \in Threads
  BY PlaceIs, NextIs DEF NextEntry, Visited
<1>2. walk' = [walk EXCEPT ![u] = [at |-> Visited(u) + 1, size |-> Place(u).size]]
  BY DEF NextEntry
<1>3. Visited(u) + 1 \in Nat \ {0}
  BY <1>1
<1> QED
  BY <1>1, <1>2, <1>3 DEF CtxInv, CallTypes, WalkTypes

\* close_all closes the connection before it goes on.
LEMMA PutShut ==
  ASSUME NEW kind, NEW t, Shape(kind, FALSE, t), Len(t) > 0, t[1] = "walk"
  PROVE  Shape(kind, FALSE, <<"shut">> \o t) /\ \A i \in 1..Len(<<"shut">> \o t) : i = 1 \/ i - 1 \in 1..Len(t)
<1> DEFINE r == <<"shut">> \o t
<1>1. t \in Seq(Words) /\ Len(t) \in Nat /\ "shut" \in Words
  BY DEF Shape, Words, StoreSteps
<1>2. /\ r \in Seq(Words) /\ Len(r) = Len(t) + 1 /\ r[1] = "shut"
      /\ \A i \in 1..Len(t) : r[i + 1] = t[i]
  BY <1>1
<1> HIDE DEF r
<1>3. \A i \in 1..Len(r) : i = 1 \/ (i - 1 \in 1..Len(t) /\ i = (i - 1) + 1 /\ r[i] = t[i - 1])
  <2> TAKE i \in 1..Len(r)
  <2>1. i = 1 \/ (i - 1 \in 1..Len(t) /\ i = (i - 1) + 1)
    BY <1>1, <1>2
  <2> QED BY <1>2, <2>1
<1>4. ASSUME NEW i \in 1..Len(r), i # 1
      PROVE  Fits(kind, FALSE, r, i) /\ (i < Len(r) => Follows(FALSE, r[i], r[i + 1]))
  <2> DEFINE j == i - 1
  <2>1. j \in 1..Len(t) /\ i = 1 + j /\ r[i] = t[j]
    BY <1>3, <1>4
  <2> HIDE DEF j
  <2>2. Fits(kind, FALSE, t, j) /\ (j < Len(t) => Follows(FALSE, t[j], t[j + 1]))
    BY <2>1 DEF Shape
  <2>3. \A x : \A k \in Nat : Looks(t, j, k, x) => Looks(r, i, k, x)
    <3> SUFFICES ASSUME NEW k \in Nat, NEW x, Looks(t, j, k, x)
                 PROVE  Looks(r, i, k, x)
      OBVIOUS
    <3>1. j + k \in 1..Len(t) /\ t[j + k] = x /\ i + k = (j + k) + 1
      BY <1>1, <2>1 DEF Looks
    <3>2. r[i + k] = x /\ i + k <= Len(r)
      BY <1>1, <1>2, <3>1
    <3> QED BY <3>2 DEF Looks
  <2>4. i < Len(r) => Follows(FALSE, r[i], r[i + 1])
    <3> HAVE i < Len(r)
    <3>1. j + 1 \in 1..Len(t) /\ i + 1 = (j + 1) + 1 /\ j < Len(t)
      BY <1>1, <1>2, <2>1
    <3>2. r[i + 1] = t[j + 1]
      BY <1>2, <3>1
    <3> QED BY <2>1, <2>2, <3>1, <3>2
  <2>5. t[j] = "promise" => Len(r) = i + 1
    <3> HAVE t[j] = "promise"
    <3>1. Len(t) = j + 1
      BY <2>2 DEF Fits
    <3> QED BY <1>1, <1>2, <2>1, <3>1
  <2>6. Fits(kind, FALSE, r, i)
    BY <2>1, <2>2, <2>3, <2>5, FitsAgain
  <2> QED BY <2>4, <2>6
<1>5. Fits(kind, FALSE, r, 1) /\ Follows(FALSE, r[1], r[2])
  <2>1. Fits(kind, FALSE, r, 1)
    BY <1>2 DEF Fits, StoreSteps
  <2>2. r[1 + 1] = t[1]
    BY <1>1, <1>2
  <2>3. r[2] = "walk" /\ r[1] = "shut"
    BY <1>2, <2>2
  <2> QED BY <2>1, <2>3 DEF Follows, Ends
<1>6. Shape(kind, FALSE, r)
  <2>1. ASSUME NEW i \in 1..Len(r)
        PROVE  Fits(kind, FALSE, r, i) /\ (i < Len(r) => Follows(FALSE, r[i], r[i + 1]))
    <3>1. CASE i = 1
      <4>1. i + 1 = 2
        BY <3>1
      <4> QED BY <1>5, <3>1, <4>1
    <3>2. CASE i # 1
      BY <1>4, <3>2
    <3> QED BY <3>1, <3>2
  <2> QED BY <1>2, <2>1 DEF Shape
<1> QED
  BY <1>3, <1>6 DEF r

\* An iteration over the store goes on: its place and size stay typed.
LEMMA WalkTypesStay ==
  ASSUME CtxInv, NEW u \in Users, Walk(u), UNCHANGED <<setup, job, tracked, adapters, attr, pool>>
  PROVE  ConnTypes' /\ KeyTypes' /\ CallTypes' /\ \A w \in Users : Under(w)'
<1>1. At(u, "walk") /\ UNCHANGED <<order, made, open, given, faults>>
  BY DEF Walk
<1>2. CASE IterationEnds(u)
  <2>1. UNCHANGED <<conns, rd>>
    BY <1>2 DEF IterationEnds
  <2>2. ConnTypes' /\ KeyTypes'
    BY <1>1, <2>1 DEF CtxInv, ConnTypes, KeyTypes, Keys, Held
  <2> QED BY <1>1, <1>2, <2>2, EndTypes
<1>3. CASE /\ NextEntry(u) /\ Holds(u, conns[order[Visited(u)]]) /\ UNCHANGED conns
           /\ Continue(u, <<"shut">> \o todo[u])
  <2>1. WalkTypes' /\ order[Visited(u)] \in Threads
    BY <1>3, NextTypes
  <2>2. ConnTypes'
    BY <1>1, <1>3, <2>1 DEF CtxInv, ConnTypes, Held, Holds
  <2>3. KeyTypes'
    BY <1>1, <1>3 DEF CtxInv, KeyTypes, Keys
  <2>4. /\ todo \in [Users -> Seq(Words)] /\ DOMAIN answer = Users /\ setup \in Setups
        /\ job \in [Users -> [op : setup.ops \cup {"none"}, tid : Threads \cup {Nothing}, on : Int \cup {Nothing}]]
        /\ adapters \in Nat
    BY DEF CtxInv, CallTypes, AdapterTypes
  <2>5. /\ todo[u] # <<>> /\ Len(todo[u]) \in Nat \ {0} /\ todo[u][1] = "walk" /\ todo[u] \in Seq(Words)
        /\ Shape(setup.kind, InCtx(u), todo[u]) /\ Fits(setup.kind, InCtx(u), todo[u], 1)
        /\ u \in Crew /\ job[u].tid \in Threads
    BY <1>1, Heads
  <2>6. ~InCtx(u) /\ InCtx(u) = FALSE
    <3>1. ~InCtx(u)
      BY <2>5 DEF Fits, CtxSteps
    <3> QED BY <3>1 DEF InCtx
  <2> DEFINE r == <<"shut">> \o todo[u]
  <2>7. Shape(setup.kind, FALSE, r) /\ \A i \in 1..Len(r) : i = 1 \/ i - 1 \in 1..Len(todo[u])
    <3>1. Shape(setup.kind, FALSE, todo[u]) /\ Len(todo[u]) > 0 /\ todo[u][1] = "walk"
      <4>1. Shape(setup.kind, InCtx(u), todo[u])
        BY <2>5
      <4>2. Shape(setup.kind, FALSE, todo[u])
        BY <2>6, <4>1
      <4>3. Len(todo[u]) > 0 /\ todo[u][1] = "walk"
        BY <2>5
      <4> QED BY <4>2, <4>3
    <3>2. Shape(setup.kind, FALSE, r)
      BY <3>1, PutShut
    <3>3. \A i \in 1..Len(r) : i = 1 \/ i - 1 \in 1..Len(todo[u])
      BY <3>1, PutShut
    <3> QED BY <3>2, <3>3
  <2>8. r \in Seq(Words) /\ r # <<>> /\ r[1] = "shut" /\ \A i \in 1..Len(todo[u]) : r[i + 1] = todo[u][i]
    <3>1. "shut" \in Words
      BY DEF Words, StoreSteps
    <3>2. r \in Seq(Words) /\ r[1] = "shut" /\ \A i \in 1..Len(todo[u]) : r[i + 1] = todo[u][i]
      BY <2>5, <3>1
    <3>3. Len(r) = 1 + Len(todo[u])
      BY <2>5, <3>1
    <3>4. r # <<>>
      <4> HIDE DEF r
      <4> QED BY <2>5, <3>2, <3>3
    <3> QED BY <3>2, <3>4
  <2>9. todo' = [todo EXCEPT ![u] = r] /\ loop' \in {Nothing, u} /\ DOMAIN answer' = Users
    BY <1>3, <2>4 DEF Continue, Proceed
  <2> HIDE DEF r
  <2>10. todo'[u] = r /\ todo' \in [Users -> Seq(Words)]
    BY <2>4, <2>8, <2>9
  <2>11. CallTypes'
    BY <2>1, <2>4, <2>8, <2>9, <2>10 DEF CallTypes, WalkTypes
  <2>12. ~Says(u, "entered")
    <3>1. \A i \in 1..Len(todo[u]) : todo[u][i] \in StoreSteps
      BY <2>5, <2>6 DEF Shape, Fits
    <3> QED BY <3>1 DEF Says, StoreSteps
  <2>13. Under(u)'
    <3>1. InCtx(u)' = FALSE /\ (Crew' = Crew)
      BY <2>6 DEF InCtx, Crew
    <3>2. Shape(setup.kind, InCtx(u), todo[u])'
      BY <2>7, <2>10, <3>1
    <3>3. ~Says(u, "entered")'
      <4> SUFFICES ASSUME NEW i \in 1..Len(r), r[i] = "entered" PROVE FALSE
        BY <2>10 DEF Says
      <4>1. i # 1
        BY <2>8
      <4>2. i - 1 \in 1..Len(todo[u]) /\ i = (i - 1) + 1
        BY <2>7, <4>1
      <4>3. todo[u][i - 1] = "entered"
        BY <2>8, <4>2
      <4> QED BY <2>12, <4>2, <4>3 DEF Says
    <3> QED BY <2>5, <2>8, <2>10, <3>1, <3>2, <3>3 DEF Under
  <2>14. \A w \in Users : Under(w)'
    <3> TAKE w \in Users
    <3>1. CASE w # u
      <4>1. todo'[w] = todo[w]
        BY <2>4, <2>9, <3>1
      <4> QED BY <2>4, <4>1, OthersUnder
    <3> QED BY <2>13, <3>1
  <2> QED BY <2>2, <2>3, <2>11, <2>14
<1> QED
  BY <1>2, <1>3 DEF Walk

\* Emptying the store after an iteration keeps the types.
LEMMA SweepTypes ==
  ASSUME CtxInv, NEW u \in Users, Sweep(u), UNCHANGED <<setup, job, tracked, adapters, attr, pool>>
  PROVE  ConnTypes' /\ KeyTypes' /\ CallTypes' /\ \A w \in Users : Under(w)'
<1>1. At(u, "sweep") /\ UNCHANGED <<order, made, open, given, faults>>
  BY DEF Sweep
<1>2. CASE IterationEnds(u)
  <2>1. UNCHANGED <<conns, rd>>
    BY <1>2 DEF IterationEnds
  <2>2. ConnTypes' /\ KeyTypes'
    BY <1>1, <2>1 DEF CtxInv, ConnTypes, KeyTypes, Keys, Held
  <2> QED BY <1>1, <1>2, <2>2, EndTypes
<1>3. CASE /\ NextEntry(u) /\ conns' = [conns EXCEPT ![order[Visited(u)]] = Nothing] /\ UNCHANGED rd
           /\ Continue(u, todo[u])
  <2>1. WalkTypes' /\ order[Visited(u)] \in Threads
    BY <1>3, NextTypes
  <2>2. ConnTypes'
    BY <1>1, <1>3, <2>1 DEF CtxInv, ConnTypes, Held
  <2>3. KeyTypes'
    BY <1>1, <1>3, <2>1 DEF CtxInv, KeyTypes, Keys, ConnTypes
  <2>4. /\ todo \in [Users -> Seq(Words)] /\ DOMAIN answer = Users /\ setup \in Setups
        /\ job \in [Users -> [op : setup.ops \cup {"none"}, tid : Threads \cup {Nothing}, on : Int \cup {Nothing}]]
        /\ adapters \in Nat
    BY DEF CtxInv, CallTypes, AdapterTypes
  <2>5. todo[u] # <<>>
    BY <1>1, Heads
  <2>6. todo' = todo /\ loop' \in {Nothing, u} /\ DOMAIN answer' = Users
    BY <1>3, <2>4 DEF Continue, Proceed
  <2>7. CallTypes'
    BY <2>1, <2>4, <2>5, <2>6 DEF CallTypes, WalkTypes
  <2>8. \A w \in Users : Under(w)'
    BY <2>4, <2>6, OthersUnder
  <2> QED BY <2>2, <2>3, <2>7, <2>8
<1> QED
  BY <1>2, <1>3 DEF Sweep, Clears

\* Replacing the dictionary of the store keeps the types.
LEMMA PurgeTypes ==
  ASSUME CtxInv, NEW u \in Users, Purge(u), UNCHANGED <<setup, job, tracked, adapters, attr, pool>>
  PROVE  ConnTypes' /\ KeyTypes' /\ CallTypes' /\ \A w \in Users : Under(w)'
<1>1. At(u, "purge") /\ UNCHANGED <<order, made, open, given, faults, rd>>
  BY DEF Purge
<1>2. CASE Go(u) /\ UNCHANGED <<conns, walk>>
  <2>1. ConnTypes' /\ KeyTypes'
    BY <1>1, <1>2 DEF CtxInv, ConnTypes, KeyTypes, Keys, Held
  <2> QED BY <1>1, <1>2, <2>1, GoOn DEF Searches
<1>3. CASE Raise(u) /\ conns' = [conns EXCEPT ![order[First(Ahead(1))]] = Nothing]
  <2>1. ConnTypes'
    BY <1>1, <1>3 DEF CtxInv, ConnTypes, Held
  <2>2. KeyTypes'
    BY <1>1, <1>3 DEF CtxInv, KeyTypes, Keys, ConnTypes
  <2> QED BY <1>3, <2>1, <2>2, RaiseTypes
<1> QED
  BY <1>2, <1>3 DEF Purge

\* A step of the store.
LEMMA StoreStepTypes ==
  ASSUME CtxInv, NEW u \in Users, StoreStepHere(u)
  PROVE  CtxInv'
<1>1. UNCHANGED <<setup, asked, job, adapters, attr, pool, instance, shared, tracker, tracked, depth>>
      /\ StoreStep(u)
  BY DEF StoreStepHere, StoreStep
<1>2. ConnTypes' /\ KeyTypes' /\ CallTypes' /\ \A w \in Users : Under(w)'
  BY <1>1, LookupTypes, ConnectTypes, StoreTypes, SeekTypes, OwnTypes, ShutTypes, DeleteTypes, WalkTypesStay,
     SweepTypes, PurgeTypes DEF StoreStep
<1>3. AdapterTypes'
  BY <1>1 DEF CtxInv, AdapterTypes, Valid
<1> QED
  BY <1>2, <1>3 DEF CtxInv

-----------------------------------------------------------------------------
\* A step of an adapter has one.
LEMMA OnIs ==
  ASSUME CtxInv, NEW u \in Users, NEW w, At(u, w), w # "none", w \notin StoreSteps \cup Searches
  PROVE  /\ InCtx(u) /\ setup.kind \in Wrapped /\ job[u].on \in Valid /\ job[u].on \in Adapters
         /\ job[u].tid = setup.home[u] /\ \A i \in 1..Len(todo[u]) : todo[u][i] \in CtxWords(job[u].op)
<1>1. todo[u] # <<>> /\ todo[u][1] = w /\ Fits(setup.kind, InCtx(u), todo[u], 1)
  BY Heads
<1>2. InCtx(u)
  BY <1>1 DEF Fits
<1>3. setup.kind \in Wrapped /\ job[u].on \in Valid /\ job[u].tid = setup.home[u]
      /\ \A i \in 1..Len(todo[u]) : todo[u][i] \in CtxWords(job[u].op)
  BY <1>1, <1>2 DEF CtxInv, Under
<1>4. job[u].on \in Adapters
  BY <1>3, ContextsAssumption DEF CtxInv, AdapterTypes, Valid, Adapters, ContextsAssumption
<1> QED
  BY <1>2, <1>3, <1>4

\* What the steps of an adapter skip.
LEMMA AdapterSkips ==
  ASSUME NEW kind, NEW ctx, NEW s \in Seq(Words), Fits(kind, ctx, s, 1)
  PROVE  /\ s[1] = "have_attr" /\ kind = "redis" =>
              5 <= Len(s) /\ \A i \in 1..5 : s[i] \in {"have_attr", "lookup", "connect", "store", "keep_attr"}
         /\ s[1] = "have_attr" /\ kind # "redis" =>
              3 <= Len(s) /\ \A i \in 1..3 : s[i] \in {"have_attr", "connect", "await_pool", "keep_attr"}
         /\ s[1] = "have_pool" =>
              5 <= Len(s) /\ \A i \in 1..5 : s[i] \in {"have_pool", "lookup", "connect", "store", "keep_pool"}
         /\ s[1] = "shut_attr" => 2 <= Len(s) /\ \A i \in 1..2 : s[i] \in {"shut_attr", "clear_attr"}
<1>1. \A i \in 1..5 : i = 1 \/ i = 2 \/ i = 3 \/ i = 4 \/ i = 5
  OBVIOUS
<1>2. \A i \in 1..3 : i = 1 \/ i = 2 \/ i = 3
  OBVIOUS
<1>3. \A i \in 1..2 : i = 1 \/ i = 2
  OBVIOUS
<1>4. s[1] = "have_attr" /\ kind = "redis" =>
        5 <= Len(s) /\ s[2] = "lookup" /\ s[3] = "connect" /\ s[4] = "store" /\ s[5] = "keep_attr"
  BY DEF Fits, Gain, Pair, Looks
<1>5. s[1] = "have_attr" /\ kind # "redis" =>
        3 <= Len(s) /\ s[2] \in {"connect", "await_pool"} /\ s[3] = "keep_attr"
  BY DEF Fits, Pair, Looks
<1>6. s[1] = "have_pool" =>
        5 <= Len(s) /\ s[2] = "lookup" /\ s[3] = "connect" /\ s[4] = "store" /\ s[5] = "keep_pool"
  BY DEF Fits, Gain, Pair, Looks
<1>7. s[1] = "shut_attr" => 2 <= Len(s) /\ s[2] = "clear_attr"
  BY DEF Fits, Pair, Looks
<1> QED
  BY <1>1, <1>2, <1>3, <1>4, <1>5, <1>6, <1>7

\* Asking whether an adapter has a connection in its attribute keeps the types.
LEMMA HaveTypes ==
  ASSUME CtxInv, NEW u \in Users, HaveAttr(u) \/ HavePool(u), UNCHANGED <<setup, job, tracked, adapters, walk>>
  PROVE  (rd' \in [Users -> Held]) /\ CallTypes' /\ \A w \in Users : Under(w)'
<1>1. CASE HaveAttr(u)
  <2>1. At(u, "have_attr") /\ Holds(u, attr[On(u)])
        /\ IF attr[On(u)] = Nothing THEN Go(u) ELSE Skip(u, CASE setup.kind = "redis" -> 4 [] OTHER -> 2)
    BY <1>1 DEF HaveAttr
  <2>2. job[u].on \in Adapters
    BY <2>1, OnIs DEF StoreSteps, Searches
  <2>3. rd' \in [Users -> Held]
    BY <2>1, <2>2 DEF CtxInv, ConnTypes, Holds, On
  <2>4. todo[u] \in Seq(Words) /\ todo[u][1] = "have_attr" /\ Fits(setup.kind, InCtx(u), todo[u], 1)
    BY <2>1, Heads
  <2>5. CASE attr[On(u)] = Nothing
    <3>1. Go(u)
      BY <2>1, <2>5
    <3> QED BY <2>1, <2>3, <3>1, GoOn DEF Searches
  <2>6. CASE attr[On(u)] # Nothing /\ setup.kind = "redis"
    <3>1. Skip(u, 4)
      BY <2>1, <2>6
    <3>2. 4 \in Nat /\ 4 + 1 <= Len(todo[u]) /\ \A i \in 1..4 + 1 : todo[u][i] \notin Searches \cup {"install", "virt_enter"}
      BY <2>4, <2>6, AdapterSkips DEF Searches
    <3> QED BY <2>3, <3>1, <3>2, PlainSkip, WalkStays
  <2>7. CASE attr[On(u)] # Nothing /\ setup.kind # "redis"
    <3>1. Skip(u, 2)
      BY <2>1, <2>7
    <3>2. 2 \in Nat /\ 2 + 1 <= Len(todo[u]) /\ \A i \in 1..2 + 1 : todo[u][i] \notin Searches \cup {"install", "virt_enter"}
      BY <2>4, <2>7, AdapterSkips DEF Searches
    <3> QED BY <2>3, <3>1, <3>2, PlainSkip, WalkStays
  <2> QED BY <2>5, <2>6, <2>7
<1>2. CASE HavePool(u)
  <2>1. At(u, "have_pool") /\ Holds(u, pool[On(u)]) /\ IF pool[On(u)] = Nothing THEN Go(u) ELSE Skip(u, 4)
    BY <1>2 DEF HavePool
  <2>2. job[u].on \in Adapters
    BY <2>1, OnIs DEF StoreSteps, Searches
  <2>3. rd' \in [Users -> Held]
    BY <2>1, <2>2 DEF CtxInv, ConnTypes, Holds, On
  <2>4. todo[u] \in Seq(Words) /\ todo[u][1] = "have_pool" /\ Fits(setup.kind, InCtx(u), todo[u], 1)
    BY <2>1, Heads
  <2>5. CASE pool[On(u)] = Nothing
    <3>1. Go(u)
      BY <2>1, <2>5
    <3> QED BY <2>1, <2>3, <3>1, GoOn DEF Searches
  <2>6. CASE pool[On(u)] # Nothing
    <3>1. Skip(u, 4)
      BY <2>1, <2>6
    <3>2. 4 \in Nat /\ 4 + 1 <= Len(todo[u]) /\ \A i \in 1..4 + 1 : todo[u][i] \notin Searches \cup {"install", "virt_enter"}
      BY <2>4, <2>6, AdapterSkips DEF Searches
    <3> QED BY <2>3, <3>1, <3>2, PlainSkip, WalkStays
  <2> QED BY <2>5, <2>6
<1> QED
  BY <1>1, <1>2

\* Closing the connection in an adapter's attribute keeps the types.
LEMMA ShutAttrTypes ==
  ASSUME CtxInv, NEW u \in Users, ShutAttr(u)
  PROVE  CallTypes' /\ \A w \in Users : Under(w)'
<1>1. At(u, "shut_attr") /\ UNCHANGED <<setup, walk, job, tracked, adapters, rd>>
      /\ IF attr[On(u)] = Nothing THEN Proceed(u, Drop(todo[u], 2), FALSE) ELSE Go(u)
  BY DEF ShutAttr, ctxVars
<1>2. todo[u] # <<>> /\ todo[u] \in Seq(Words) /\ todo[u][1] = "shut_attr" /\ Fits(setup.kind, InCtx(u), todo[u], 1)
  BY <1>1, Heads
<1>3. CASE attr[On(u)] = Nothing
  <2>1. 2 <= Len(todo[u]) /\ \A i \in 1..2 : todo[u][i] \notin Searches \cup {"install", "virt_enter"}
    BY <1>2, AdapterSkips DEF Searches
  <2>2. Runs(u, 2) /\ loop' \in {Nothing, u} /\ (loop' # Nothing => Drop(todo[u], 2) # <<>>)
    BY <1>1, <1>3 DEF Proceed, Runs
  <2>3. todo \in [Users -> Seq(Words)] /\ DOMAIN answer = Users /\ setup \in Setups
        /\ job \in [Users -> [op : setup.ops \cup {"none"}, tid : Threads \cup {Nothing}, on : Int \cup {Nothing}]]
        /\ DOMAIN walk = Users /\ \A w \in Users : walk[w] # Nothing => walk[w].at \in Nat \ {0}
    BY DEF CtxInv, CallTypes
  <2>4. DOMAIN answer' = Users
    BY <1>1, <1>3, <2>3 DEF Proceed
  <2>5. Drop(todo[u], 2) \in Seq(Words)
    BY <1>2, <2>1 DEF Drop
  <2>6. todo' \in [Users -> Seq(Words)] /\ todo'[u] = Drop(todo[u], 2)
    BY <2>2, <2>3, <2>5 DEF Runs
  <2>7. CallTypes'
    BY <1>1, <2>2, <2>3, <2>4, <2>6 DEF CallTypes
  <2>8. 2 \in 1..Len(todo[u])
    BY <1>2, <2>1
  <2> QED BY <1>1, <1>2, <2>1, <2>2, <2>7, <2>8, PlainAdvance
<1>4. CASE attr[On(u)] # Nothing
  BY <1>1, <1>4, GoOn DEF Searches
<1> QED
  BY <1>3, <1>4

\* A step of an adapter.
LEMMA AdapterStepTypes ==
  ASSUME CtxInv, NEW u \in Users, AdapterStep(u)
  PROVE  CtxInv'
<1>1. CASE ShutAttr(u)
  <2>1. UNCHANGED <<setup, order, conns, made, rd, ctxVars>> /\ open' = open \ {attr[On(u)]}
    BY <1>1 DEF ShutAttr
  <2>2. ConnTypes' /\ KeyTypes' /\ AdapterTypes'
    BY <2>1 DEF CtxInv, ConnTypes, KeyTypes, Keys, Held, AdapterTypes, Valid, ctxVars
  <2> QED BY <1>1, <2>2, ShutAttrTypes DEF CtxInv
<1>2. CASE /\ \/ HaveAttr(u) \/ HavePool(u) \/ KeepPool(u) \/ AwaitPool(u) \/ KeepAttr(u)
              \/ ClearAttr(u) \/ ClearPool(u) \/ Command(u)
           /\ UNCHANGED <<setup, storeVars, asked, faults, job, walk, adapters, instance, shared,
                          tracker, tracked, depth, disturbed>>
  <2>1. UNCHANGED <<setup, order, conns, made, open, job, walk, adapters, instance, shared, tracker, tracked, depth>>
    BY <1>2 DEF storeVars
  <2>2. AdapterTypes' /\ KeyTypes' /\ (Held' = Held)
    BY <2>1 DEF CtxInv, AdapterTypes, Valid, KeyTypes, Keys, Held
  <2>3. attr \in [Adapters -> Held] /\ pool \in [Adapters -> Held] /\ rd \in [Users -> Held]
        /\ Nothing \in Held /\ made \in Nat /\ open \subseteq 1..made /\ conns \in [Threads -> Held]
    BY DEF CtxInv, ConnTypes, Held
  <2>4. CASE HaveAttr(u) \/ HavePool(u)
    <3>1. UNCHANGED <<attr, pool>>
      BY <2>4 DEF HaveAttr, HavePool
    <3>2. rd' \in [Users -> Held]
      BY <2>1, <2>4, HaveTypes
    <3>3. ConnTypes'
      BY <2>1, <2>2, <2>3, <3>1, <3>2 DEF ConnTypes
    <3> QED BY <2>1, <2>2, <2>4, <3>3, HaveTypes DEF CtxInv
  <2>5. CASE AwaitPool(u)
    <3>1. At(u, "await_pool") /\ Holds(u, pool[On(u)]) /\ UNCHANGED <<attr, pool>> /\ Go(u)
      BY <2>5 DEF AwaitPool
    <3>2. job[u].on \in Adapters
      BY <3>1, OnIs DEF StoreSteps, Searches
    <3>3. rd' \in [Users -> Held]
      BY <2>3, <3>1, <3>2 DEF Holds, On
    <3>4. ConnTypes'
      BY <2>1, <2>2, <2>3, <3>1, <3>3 DEF ConnTypes
    <3> QED BY <2>1, <2>2, <3>1, <3>4, GoOn DEF CtxInv, Searches
  <2>6. CASE KeepPool(u) \/ KeepAttr(u) \/ ClearAttr(u) \/ ClearPool(u) \/ Command(u)
    <3>1. \E w \in {"keep_pool", "keep_attr", "clear_attr", "clear_pool", "command"} : At(u, w)
      BY <2>6 DEF KeepPool, KeepAttr, ClearAttr, ClearPool, Command
    <3>2. Go(u) /\ UNCHANGED rd
      BY <2>6 DEF KeepPool, KeepAttr, ClearAttr, ClearPool, Command
    <3>3. rd[u] \in Held
      BY <2>3
    <3>4. attr' \in [Adapters -> Held]
      BY <2>3, <2>6, <3>3 DEF KeepPool, KeepAttr, ClearAttr, ClearPool, Command
    <3>5. pool' \in [Adapters -> Held]
      BY <2>3, <2>6, <3>3 DEF KeepPool, KeepAttr, ClearAttr, ClearPool, Command
    <3>6. ConnTypes'
      BY <2>1, <2>2, <2>3, <3>2, <3>4, <3>5 DEF ConnTypes
    <3>7. CallTypes' /\ \A w \in Users : Under(w)'
      BY <2>1, <3>1, <3>2, GoOn DEF Searches
    <3> QED BY <2>2, <3>6, <3>7 DEF CtxInv
  <2> QED BY <1>2, <2>4, <2>5, <2>6
<1> QED
  BY <1>1, <1>2 DEF AdapterStep

-----------------------------------------------------------------------------
\* A call of the wrapper goes on, perhaps with another adapter.
LEMMA WrapperSkip ==
  ASSUME CtxInv, NEW u \in Users, todo[u] # <<>>, NEW n \in Nat, n + 1 <= Len(todo[u]), Skip(u, n),
         UNCHANGED <<setup, walk>>, job' = job \/ \E a \in 1..adapters' : SetOn(u, a),
         adapters' \in Nat, adapters <= adapters', tracked # Nothing => tracked' # Nothing,
         n + 1 < Len(todo[u]) => job'[u].on \in 1..adapters' \/ todo[u][n + 2] \in Searches,
         n + 1 < Len(todo[u]) /\ todo[u][n + 2] = "virt_enter" => tracked' # Nothing,
         tracked' # Nothing \/ (\A i \in 1..n + 1 : todo[u][i] # "install") \/ ~Says(u, "entered")
  PROVE  CallTypes' /\ \A w \in Users : Under(w)'
<1>1. /\ job \in [Users -> [op : setup.ops \cup {"none"}, tid : Threads \cup {Nothing}, on : Int \cup {Nothing}]]
      /\ DOMAIN walk = Users /\ (\A w \in Users : walk[w] # Nothing => walk[w].at \in Nat \ {0})
      /\ adapters \in Nat /\ todo \in [Users -> Seq(Words)]
  BY DEF CtxInv, CallTypes, AdapterTypes
<1>2. /\ job' \in [Users -> [op : setup.ops \cup {"none"}, tid : Threads \cup {Nothing}, on : Int \cup {Nothing}]]
      /\ job'[u].op = job[u].op /\ job'[u].tid = job[u].tid /\ \A w \in Users \ {u} : job'[w] = job[w]
  <2>1. CASE job' = job
    BY <1>1, <2>1
  <2>2. ASSUME NEW a \in 1..adapters', SetOn(u, a)
        PROVE  /\ job' \in [Users -> [op : setup.ops \cup {"none"}, tid : Threads \cup {Nothing}, on : Int \cup {Nothing}]]
               /\ job'[u].op = job[u].op /\ job'[u].tid = job[u].tid /\ \A w \in Users \ {u} : job'[w] = job[w]
    <3>1. a \in Int
      OBVIOUS
    <3> QED BY <1>1, <2>2, <3>1 DEF SetOn
  <2> QED BY <2>1, <2>2
<1>3. CallTypes' /\ Runs(u, n + 1) /\ n + 1 \in 1..Len(todo[u])
  BY <1>1, <1>2, SkipTypes
<1>4. (n + 1) + 1 = n + 2
  OBVIOUS
<1>5. Under(u)'
  BY <1>2, <1>3, <1>4, Advance
<1>6. \A w \in Users \ {u} : Under(w)'
  <2> TAKE w \in Users \ {u}
  <2>1. todo'[w] = todo[w]
    BY <1>1, <1>3 DEF Runs
  <2> QED BY <1>1, <1>2, <2>1, OthersUnder
<1> QED
  BY <1>3, <1>5, <1>6

\* The head of a wrapper's call, and the step behind it.
LEMMA WrapperHeads ==
  ASSUME CtxInv, NEW u \in Users, NEW w, At(u, w), w \notin StoreSteps \cup {"none"}
  PROVE  /\ todo[u] # <<>> /\ todo[u] \in Seq(Words) /\ Len(todo[u]) \in Nat \ {0} /\ todo[u][1] = w
         /\ InCtx(u) /\ setup.kind \in Wrapped /\ Fits(setup.kind, TRUE, todo[u], 1)
         /\ \A i \in 1..Len(todo[u]) - 1 : Follows(TRUE, todo[u][i], todo[u][i + 1])
         /\ \A i \in 1..Len(todo[u]) : todo[u][i] \in CtxWords(job[u].op)
         /\ Says(u, "entered") => tracked # Nothing \/ Says(u, "install")
<1>1. /\ todo[u] # <<>> /\ todo[u] \in Seq(Words) /\ Len(todo[u]) \in Nat \ {0} /\ todo[u][1] = w
      /\ Shape(setup.kind, InCtx(u), todo[u]) /\ Fits(setup.kind, InCtx(u), todo[u], 1)
  BY Heads
<1>2. InCtx(u)
  BY <1>1 DEF Fits
<1>3. InCtx(u) = TRUE
  BY <1>2 DEF InCtx
<1>4. Fits(setup.kind, TRUE, todo[u], 1) /\ Shape(setup.kind, TRUE, todo[u])
  BY <1>1, <1>3
<1>5. \A i \in 1..Len(todo[u]) - 1 : Follows(TRUE, todo[u][i], todo[u][i + 1])
  <2> TAKE i \in 1..Len(todo[u]) - 1
  <2>1. i \in 1..Len(todo[u]) /\ i < Len(todo[u])
    BY <1>1
  <2> QED BY <1>4, <2>1 DEF Shape
<1>6. /\ setup.kind \in Wrapped /\ \A i \in 1..Len(todo[u]) : todo[u][i] \in CtxWords(job[u].op)
      /\ Says(u, "entered") => tracked # Nothing \/ Says(u, "install")
  BY <1>1, <1>2 DEF CtxInv, Under
<1> QED
  BY <1>1, <1>2, <1>4, <1>5, <1>6

\* The step behind the head.
LEMMA NextWord ==
  ASSUME CtxInv, NEW u \in Users, NEW w, At(u, w), w \notin StoreSteps \cup {"none"}
  PROVE  /\ 0 + 1 <= Len(todo[u]) /\ (\A i \in 1..0 + 1 : todo[u][i] = w)
         /\ 0 + 1 < Len(todo[u]) => Follows(TRUE, w, todo[u][0 + 2])
<1>1. Len(todo[u]) \in Nat \ {0} /\ todo[u][1] = w
      /\ \A i \in 1..Len(todo[u]) - 1 : Follows(TRUE, todo[u][i], todo[u][i + 1])
  BY WrapperHeads
<1>2. 0 + 1 < Len(todo[u]) => 1 \in 1..Len(todo[u]) - 1
  BY <1>1
<1>3. 0 + 1 < Len(todo[u]) => Follows(TRUE, todo[u][1], todo[u][1 + 1])
  BY <1>1, <1>2
<1>4. \A i \in 1..0 + 1 : i = 1
  OBVIOUS
<1>5. \A i \in 1..0 + 1 : todo[u][i] = w
  BY <1>1, <1>4
<1>6. 0 + 1 <= Len(todo[u])
  BY <1>1
<1>7. 0 + 1 < Len(todo[u]) => Follows(TRUE, w, todo[u][0 + 2])
  <2>1. 1 + 1 = 0 + 2
    OBVIOUS
  <2> QED BY <1>1, <1>3, <2>1
<1> QED
  BY <1>5, <1>6, <1>7

\* A step that ends a program, and one that comes to it.
LEMMA NothingBehind ==
  ASSUME CtxInv, NEW u \in Users, NEW w, At(u, w), w \notin StoreSteps \cup {"none"},
         NEW n \in Nat, n + 1 <= Len(todo[u]), todo[u][n + 1] \in Ends
  PROVE  ~(n + 1 < Len(todo[u]))
<1> SUFFICES ASSUME n + 1 < Len(todo[u])
             PROVE  FALSE
  OBVIOUS
<1>1. Len(todo[u]) \in Nat \ {0} /\ \A i \in 1..Len(todo[u]) - 1 : Follows(TRUE, todo[u][i], todo[u][i + 1])
  BY WrapperHeads
<1>2. n + 1 \in 1..Len(todo[u]) - 1
  BY <1>1
<1>3. Follows(TRUE, todo[u][n + 1], todo[u][(n + 1) + 1])
  BY <1>1, <1>2
<1> QED
  BY <1>3 DEF Follows

\* Reading the wrapper's instance keeps the types.
LEMMA GetAdapterTypes ==
  ASSUME CtxInv, NEW u \in Users, GetAdapter(u)
  PROVE  CallTypes' /\ \A w \in Users : Under(w)'
<1>1. /\ At(u, "get_adapter") /\ UNCHANGED <<setup, walk, adapters, tracked>>
      /\ IF instance = Nothing THEN Go(u) /\ UNCHANGED job
         ELSE SetOn(u, instance) /\ Skip(u, Len(Construct) + 1)
  BY DEF GetAdapter, ctxVars
<1>2. /\ todo[u] # <<>> /\ Fits(setup.kind, TRUE, todo[u], 1) /\ todo[u][1] = "get_adapter"
      /\ Len(todo[u]) \in Nat \ {0} /\ adapters \in Nat /\ adapters <= adapters
  <2>1. adapters \in Nat /\ adapters <= adapters
    BY DEF CtxInv, AdapterTypes
  <2>2. "get_adapter" \notin StoreSteps \cup {"none"} /\ "shared" \notin StoreSteps \cup {"none"}
        /\ "make" \notin StoreSteps \cup {"none"}
    BY DEF StoreSteps
  <2> QED BY <1>1, <2>1, <2>2, WrapperHeads
<1>3. CASE instance = Nothing
  <2>1. Skip(u, 0) /\ job' = job
    BY <1>1, <1>3 DEF Go
  <2>2. /\ 0 \in Nat /\ 0 + 1 <= Len(todo[u]) /\ \A i \in 1..0 + 1 : todo[u][i] # "install"
        /\ 0 + 1 < Len(todo[u]) => todo[u][0 + 2] = "make"
    BY <1>1, NextWord DEF StoreSteps, Follows
  <2> QED BY <1>1, <1>2, <2>1, <2>2, WrapperSkip DEF Searches
<1>4. CASE instance # Nothing
  <2>1. SetOn(u, instance) /\ Skip(u, Len(Construct) + 1)
    BY <1>1, <1>4
  <2>2. instance \in 1..adapters /\ tracked # Nothing
    BY <1>4 DEF CtxInv, AdapterTypes, Valid
  <2>3. Len(Construct) + 1 \in Nat /\ (Len(Construct) + 1) + 1 <= Len(todo[u])
    <3>1. 1 + (MakeLen(setup.kind) + 1) <= Len(todo[u]) /\ MakeLen(setup.kind) \in Nat
      BY <1>2 DEF Fits, Looks, MakeLen
    <3> QED BY <3>1, Lengths
  <2>4. job'[u].on = instance
    BY <2>1 DEF SetOn, CtxInv, CallTypes
  <2> QED BY <1>1, <1>2, <2>1, <2>2, <2>3, <2>4, WrapperSkip
<1> QED
  BY <1>3, <1>4

\* Reading the adapter shared by the process keeps the types.
LEMMA SharedAdapterTypes ==
  ASSUME CtxInv, NEW u \in Users, SharedAdapter(u)
  PROVE  CallTypes' /\ \A w \in Users : Under(w)'
<1>1. /\ At(u, "shared") /\ UNCHANGED <<setup, walk, adapters, tracked>>
      /\ IF shared = Nothing THEN Go(u) /\ UNCHANGED job
         ELSE SetOn(u, shared) /\ Skip(u, Len(Construct) + (IF setup.kind \in Sync THEN 1 ELSE 2))
  BY DEF SharedAdapter, ctxVars
<1>2. /\ todo[u] # <<>> /\ Fits(setup.kind, TRUE, todo[u], 1) /\ todo[u][1] = "shared"
      /\ Len(todo[u]) \in Nat \ {0} /\ adapters \in Nat /\ adapters <= adapters
      /\ \A i \in 1..Len(todo[u]) : todo[u][i] \in CtxWords(job[u].op)
  <2>1. adapters \in Nat /\ adapters <= adapters
    BY DEF CtxInv, AdapterTypes
  <2>2. "get_adapter" \notin StoreSteps \cup {"none"} /\ "shared" \notin StoreSteps \cup {"none"}
        /\ "make" \notin StoreSteps \cup {"none"}
    BY DEF StoreSteps
  <2> QED BY <1>1, <2>1, <2>2, WrapperHeads
<1>3. \A i \in 1..Len(todo[u]) : todo[u][i] \notin {"virt_enter", "entered"}
  <2>1. "shared" \in CtxWords(job[u].op)
    <3>1. 1 \in 1..Len(todo[u])
      BY <1>2
    <3> QED BY <1>2, <3>1
  <2>2. CtxWords(job[u].op) = Shares
    BY <2>1 DEF CtxWords, Leaves, PlainWords, ConnectWords, CloseWords, Enters, Stays
  <2> QED BY <1>2, <2>2 DEF Shares, Stays
<1>4. ~Says(u, "entered")
  BY <1>3 DEF Says
<1>5. CASE shared = Nothing
  <2>1. Skip(u, 0) /\ job' = job
    BY <1>1, <1>5 DEF Go
  <2>2. /\ 0 \in Nat /\ 0 + 1 <= Len(todo[u])
        /\ 0 + 1 < Len(todo[u]) => todo[u][0 + 2] = "make"
    BY <1>1, NextWord DEF StoreSteps, Follows
  <2> QED BY <1>1, <1>2, <1>4, <2>1, <2>2, WrapperSkip DEF Searches
<1>6. CASE shared # Nothing
  <2> DEFINE n == Len(Construct) + (IF setup.kind \in Sync THEN 1 ELSE 2)
  <2>1. SetOn(u, shared) /\ Skip(u, n)
    BY <1>1, <1>6
  <2>2. shared \in 1..adapters
    BY <1>6 DEF CtxInv, AdapterTypes, Valid
  <2>3. n \in Nat /\ n + 1 <= Len(todo[u])
    <3>1. MakeLen(setup.kind) \in Nat /\ Len(Construct) = MakeLen(setup.kind)
      BY Lengths DEF MakeLen
    <3>2. 1 + (MakeLen(setup.kind) + 1) <= Len(todo[u])
      BY <1>2 DEF Fits, Looks
    <3>3. setup.kind \notin Sync => 1 + (MakeLen(setup.kind) + 2) <= Len(todo[u])
      BY <1>2 DEF Fits, Looks
    <3> QED BY <3>1, <3>2, <3>3
  <2>4. job'[u].on = shared
    BY <2>1 DEF SetOn, CtxInv, CallTypes
  <2> HIDE DEF n
  <2>5. ~(n + 1 < Len(todo[u]) /\ todo[u][n + 2] = "virt_enter")
    <3> SUFFICES ASSUME n + 1 < Len(todo[u]) PROVE todo[u][n + 2] # "virt_enter"
      OBVIOUS
    <3>1. n + 2 \in 1..Len(todo[u])
      BY <1>2, <2>3
    <3> QED BY <1>3, <3>1
  <2> QED BY <1>1, <1>2, <1>4, <2>1, <2>2, <2>3, <2>4, <2>5, WrapperSkip
<1> QED
  BY <1>5, <1>6

\* Constructing an adapter keeps the types.
LEMMA MakeTypes ==
  ASSUME CtxInv, NEW u \in Users, Make(u)
  PROVE  CallTypes' /\ \A w \in Users : Under(w)'
<1>1. /\ At(u, "make") /\ UNCHANGED <<setup, walk, tracked>> /\ adapters' = adapters + 1
      /\ SetOn(u, adapters + 1) /\ Skip(u, 0)
  BY DEF Make, Go
<1>2. todo[u] # <<>> /\ adapters \in Nat
  <2>1. adapters \in Nat /\ adapters <= adapters
    BY DEF CtxInv, AdapterTypes
  <2>2. "get_adapter" \notin StoreSteps \cup {"none"} /\ "shared" \notin StoreSteps \cup {"none"}
        /\ "make" \notin StoreSteps \cup {"none"}
    BY DEF StoreSteps
  <2> QED BY <1>1, <2>1, <2>2, WrapperHeads
<1>3. /\ 0 \in Nat /\ 0 + 1 <= Len(todo[u]) /\ \A i \in 1..0 + 1 : todo[u][i] # "install"
      /\ 0 + 1 < Len(todo[u]) => todo[u][0 + 2] # "virt_enter"
  BY <1>1, NextWord DEF StoreSteps, Follows
<1>4. adapters' \in Nat /\ adapters <= adapters' /\ adapters + 1 \in 1..adapters'
  BY <1>1, <1>2
<1>5. job'[u].on = adapters + 1
  BY <1>1 DEF SetOn, CtxInv, CallTypes
<1> QED
  BY <1>1, <1>2, <1>3, <1>4, <1>5, WrapperSkip

\* Keeping a constructed adapter as the wrapper's instance keeps the types.
LEMMA InstallTypes ==
  ASSUME CtxInv, NEW u \in Users, Install(u) \/ Share(u) \/ Unset(u)
  PROVE  CallTypes' /\ \A w \in Users : Under(w)'
<1>1. PICK w \in {"install", "share", "unset"} : At(u, w)
  BY DEF Install, Share, Unset
<1>2. UNCHANGED <<setup, walk, job, adapters>> /\ Skip(u, 0)
  BY DEF Install, Share, Unset, Go
<1>3. todo[u] # <<>> /\ adapters \in Nat /\ adapters <= adapters /\ job[u].on \in 1..adapters
  <2>1. adapters \in Nat
    BY DEF CtxInv, AdapterTypes
  <2>2. w \notin StoreSteps \cup {"none"} /\ w \notin StoreSteps \cup Searches
    BY DEF StoreSteps, Searches
  <2>3. job[u].on \in Valid
    BY <1>1, <2>2, OnIs
  <2>4. todo[u] # <<>>
    BY <1>1, <2>2, WrapperHeads
  <2> QED BY <2>1, <2>3, <2>4 DEF Valid
<1>4. /\ 0 \in Nat /\ 0 + 1 <= Len(todo[u]) /\ (\A i \in 1..0 + 1 : todo[u][i] = w)
      /\ 0 + 1 < Len(todo[u]) => Follows(TRUE, w, todo[u][0 + 2])
  <2>1. w \notin StoreSteps \cup {"none"}
    BY DEF StoreSteps
  <2> QED BY <1>1, <2>1, NextWord
<1>5. CASE Install(u)
  <2>1. tracked' = job[u].on
    BY <1>5 DEF Install, On
  <2>2. tracked' # Nothing
    BY <1>3, <2>1, StoreAssumption DEF StoreAssumption
  <2> QED BY <1>2, <1>3, <1>4, <2>2, WrapperSkip
<1>6. CASE Share(u) \/ Unset(u)
  <2>1. UNCHANGED tracked /\ w # "install"
    <3>1. w \in {"share", "unset"}
      BY <1>1, <1>6 DEF Share, Unset, At
    <3> QED BY <1>6, <3>1 DEF Share, Unset
  <2>2. 0 + 1 < Len(todo[u]) => todo[u][0 + 2] # "virt_enter"
    <3>1. 0 + 1 < Len(todo[u]) => Follows(TRUE, w, todo[u][0 + 2])
      BY <1>4
    <3> QED BY <2>1, <3>1 DEF Follows, Ends, Haves
  <2> QED BY <1>2, <1>3, <1>4, <2>1, <2>2, WrapperSkip
<1> QED
  BY <1>5, <1>6

\* Counting a block in keeps the types: there is a tracker to count in.
LEMMA VirtEnterTypes ==
  ASSUME CtxInv, NEW u \in Users, VirtEnterStep(u)
  PROVE  CallTypes' /\ \A w \in Users : Under(w)'
<1>1. /\ At(u, "virt_enter") /\ UNCHANGED <<setup, walk, adapters, tracked>> /\ SetOn(u, tracked)
      /\ Skip(u, 0) \/ Skip(u, Len(Enter) + 1)
  BY DEF VirtEnterStep, Go
<1>2. /\ todo[u] # <<>> /\ Fits(setup.kind, TRUE, todo[u], 1) /\ todo[u][1] = "virt_enter"
      /\ Len(todo[u]) \in Nat \ {0} /\ setup.kind \in Wrapped
  <2>1. "virt_enter" \notin StoreSteps \cup {"none"}
    BY DEF StoreSteps
  <2> QED BY <1>1, <2>1, WrapperHeads
<1>3. tracked # Nothing
  BY <1>2 DEF CtxInv, Under
<1>4. adapters \in Nat /\ adapters <= adapters /\ tracked \in 1..adapters
  BY <1>3 DEF CtxInv, AdapterTypes, Valid
<1>5. job'[u].on = tracked
  BY <1>1 DEF SetOn, CtxInv, CallTypes
<1>6. CASE Skip(u, 0)
  <2>1. /\ 0 \in Nat /\ 0 + 1 <= Len(todo[u])
        /\ 0 + 1 < Len(todo[u]) => todo[u][0 + 2] # "virt_enter"
    BY <1>1, NextWord DEF StoreSteps, Follows
  <2> QED BY <1>1, <1>2, <1>3, <1>4, <1>5, <1>6, <2>1, WrapperSkip
<1>7. CASE Skip(u, Len(Enter) + 1)
  <2>1. Len(Enter) + 1 \in Nat /\ (Len(Enter) + 1) + 1 <= Len(todo[u])
    <3>1. 1 + (EnterLen(setup.kind) + 1) <= Len(todo[u]) /\ EnterLen(setup.kind) \in Nat
      BY <1>2 DEF Fits, Looks, EnterLen
    <3> QED BY <1>2, <3>1, Lengths
  <2> QED BY <1>1, <1>2, <1>3, <1>4, <1>5, <1>7, <2>1, WrapperSkip
<1> QED
  BY <1>1, <1>6, <1>7

\* Having entered keeps the types: one more block is open.
LEMMA EnteredTypes ==
  ASSUME CtxInv, NEW u \in Users, EnteredStep(u)
  PROVE  tracked # Nothing /\ CallTypes' /\ \A w \in Users : Under(w)'
<1>1. At(u, "entered") /\ UNCHANGED <<setup, walk, adapters, tracked, job>> /\ Skip(u, 0)
  BY DEF EnteredStep, Go
<1>2. "entered" \notin StoreSteps \cup {"none"}
  BY DEF StoreSteps
<1>3. /\ todo[u] # <<>> /\ todo[u][1] = "entered" /\ Len(todo[u]) \in Nat \ {0}
      /\ Says(u, "entered") => tracked # Nothing \/ Says(u, "install")
  BY <1>1, <1>2, WrapperHeads
<1>4. 0 \in Nat /\ 0 + 1 <= Len(todo[u]) /\ ~(0 + 1 < Len(todo[u]))
  <2>1. 0 \in Nat /\ 0 + 1 <= Len(todo[u]) /\ todo[u][0 + 1] \in Ends
    BY <1>3 DEF Ends
  <2> QED BY <1>1, <1>2, <2>1, NothingBehind
<1>5. tracked # Nothing
  <2>1. Len(todo[u]) = 1
    <3>1. ~(0 + 1 < Len(todo[u])) /\ Len(todo[u]) \in Nat \ {0}
      BY <1>3, <1>4
    <3>2. \A n \in Nat \ {0} : ~(0 + 1 < n) => n = 1
      OBVIOUS
    <3> QED BY <3>1, <3>2
  <2>2. Says(u, "entered")
    <3>1. 1 \in 1..Len(todo[u])
      BY <2>1
    <3> QED BY <1>3, <3>1 DEF Says
  <2>3. ~Says(u, "install")
    <3>1. \A i \in 1..Len(todo[u]) : i = 1
      BY <2>1
    <3> QED BY <1>3, <3>1 DEF Says
  <2> QED BY <1>3, <2>2, <2>3
<1>6. adapters \in Nat /\ adapters <= adapters
  BY DEF CtxInv, AdapterTypes
<1> QED
  BY <1>1, <1>3, <1>4, <1>5, <1>6, WrapperSkip

\* Counting a block out keeps the types.
LEMMA VirtExitTypes ==
  ASSUME CtxInv, NEW u \in Users, VirtExitStep(u)
  PROVE  CallTypes' /\ \A w \in Users : Under(w)'
<1>1. /\ At(u, "virt_exit") /\ UNCHANGED <<setup, walk, adapters, tracked, job>>
      /\ Skip(u, 0) \/ Skip(u, Len(Exit) + 1)
  BY DEF VirtExitStep, Go
<1>2. "virt_exit" \notin StoreSteps \cup {"none"} /\ "virt_exit" \notin StoreSteps \cup Searches
  BY DEF StoreSteps, Searches
<1>3. /\ todo[u] # <<>> /\ Fits(setup.kind, TRUE, todo[u], 1) /\ todo[u][1] = "virt_exit"
      /\ Len(todo[u]) \in Nat \ {0} /\ setup.kind \in Wrapped /\ job[u].on \in 1..adapters
      /\ \A i \in 1..Len(todo[u]) : todo[u][i] \in CtxWords(job[u].op)
  BY <1>1, <1>2, WrapperHeads, OnIs DEF Valid
<1>4. adapters \in Nat /\ adapters <= adapters
  BY DEF CtxInv, AdapterTypes
<1>5. \A i \in 1..Len(todo[u]) : todo[u][i] \notin {"install", "virt_enter", "entered"}
  <2>1. "virt_exit" \in CtxWords(job[u].op)
    <3>1. 1 \in 1..Len(todo[u])
      BY <1>3
    <3> QED BY <1>3, <3>1
  <2>2. CtxWords(job[u].op) = Leaves
    BY <2>1 DEF CtxWords, Shares, Enters, Stays
  <2> QED BY <1>3, <2>2 DEF Leaves, PlainWords, ConnectWords, CloseWords
<1>6. ~Says(u, "entered")
  BY <1>5 DEF Says
<1>7. CASE Skip(u, 0)
  <2>1. /\ 0 \in Nat /\ 0 + 1 <= Len(todo[u])
        /\ 0 + 1 < Len(todo[u]) => todo[u][0 + 2] # "virt_enter"
    BY <1>1, <1>2, NextWord DEF Follows
  <2> QED BY <1>1, <1>3, <1>4, <1>6, <1>7, <2>1, WrapperSkip
<1>8. CASE Skip(u, Len(Exit) + 1)
  <2>1. /\ Len(Exit) + 1 \in Nat /\ (Len(Exit) + 1) + 1 <= Len(todo[u])
        /\ todo[u][(Len(Exit) + 1) + 1] \in Ends
    <3>1. Looks(todo[u], 1, ExitLen(setup.kind) + 1, "exited") /\ ExitLen(setup.kind) \in Nat
      BY <1>3 DEF Fits, ExitLen, EnterLen
    <3>2. Len(Exit) = ExitLen(setup.kind) /\ 1 + (Len(Exit) + 1) = (Len(Exit) + 1) + 1
      BY <1>3, <3>1, Lengths
    <3>3. 1 + (ExitLen(setup.kind) + 1) <= Len(todo[u]) /\ todo[u][1 + (ExitLen(setup.kind) + 1)] = "exited"
      BY <3>1 DEF Looks
    <3>4. "exited" \in Ends
      BY DEF Ends
    <3> QED BY <3>1, <3>2, <3>3, <3>4
  <2>2. ~((Len(Exit) + 1) + 1 < Len(todo[u]))
    BY <1>1, <1>2, <2>1, NothingBehind
  <2>3. (Len(Exit) + 1) + 1 < Len(todo[u]) => job'[u].on \in 1..adapters'
    BY <2>2
  <2>4. tracked' # Nothing \/ (\A i \in 1..(Len(Exit) + 1) + 1 : todo[u][i] # "install") \/ ~Says(u, "entered")
    BY <1>6
  <2> QED BY <1>1, <1>3, <1>4, <1>8, <2>1, <2>2, <2>3, <2>4, WrapperSkip
<1> QED
  BY <1>1, <1>7, <1>8

\* Having left keeps the types.
LEMMA ExitedTypes ==
  ASSUME CtxInv, NEW u \in Users, ExitedStep(u)
  PROVE  CallTypes' /\ \A w \in Users : Under(w)'
<1>1. /\ At(u, "exited") /\ UNCHANGED <<setup, adapters, tracked, job>>
      /\ Raise(u) \/ (UNCHANGED walk /\ Skip(u, 0))
  BY DEF ExitedStep, Go
<1>2. CASE Raise(u)
  BY <1>1, <1>2, RaiseTypes
<1>3. CASE UNCHANGED walk /\ Skip(u, 0)
  <2>1. "exited" \notin StoreSteps \cup {"none"}
    BY DEF StoreSteps
  <2>2. todo[u] # <<>> /\ todo[u][1] = "exited" /\ Len(todo[u]) \in Nat \ {0}
    BY <1>1, <2>1, WrapperHeads
  <2>3. 0 \in Nat /\ 0 + 1 <= Len(todo[u]) /\ ~(0 + 1 < Len(todo[u])) /\ \A i \in 1..0 + 1 : todo[u][i] # "install"
    <3>1. 0 \in Nat /\ 0 + 1 <= Len(todo[u]) /\ todo[u][0 + 1] \in Ends
      BY <2>2 DEF Ends
    <3>2. ~(0 + 1 < Len(todo[u]))
      BY <1>1, <2>1, <3>1, NothingBehind
    <3>3. \A i \in 1..0 + 1 : i = 1
      OBVIOUS
    <3> QED BY <2>2, <3>1, <3>2, <3>3
  <2>4. adapters \in Nat /\ adapters <= adapters
    BY DEF CtxInv, AdapterTypes
  <2> QED BY <1>1, <1>3, <2>2, <2>3, <2>4, WrapperSkip
<1> QED
  BY <1>1, <1>2, <1>3

\* What the wrapper's steps do to the adapters and their layers.
LEMMA WrapperData ==
  ASSUME CtxInv, NEW u \in Users, WrapperStep(u)
  PROVE  ConnTypes' /\ KeyTypes' /\ AdapterTypes'
<1>1. UNCHANGED <<setup, order, conns, made, open, rd, attr, pool>>
  BY DEF WrapperStep, GetAdapter, SharedAdapter, Make, Install, Share, Unset, VirtEnterStep, EnteredStep,
         VirtExitStep, ExitedStep, storeVars, ctxVars
<1>2. ConnTypes' /\ KeyTypes'
  BY <1>1 DEF CtxInv, ConnTypes, KeyTypes, Keys, Held
<1>3. /\ adapters \in 0..MaxAdapters /\ MaxAdapters \in Nat
      /\ {instance, shared, tracked} \subseteq 1..adapters \cup {Nothing} /\ (instance # Nothing => tracked # Nothing)
      /\ tracker \in [Adapters -> [layer : Int, virtual : Nat, contexts : Int]]
      /\ depth \in [Users -> Nat] /\ \A w \in Users : depth[w] > 0 => tracked # Nothing
  BY ContextsAssumption DEF CtxInv, AdapterTypes, Valid, ContextsAssumption
<1>4. CASE GetAdapter(u) \/ SharedAdapter(u)
  <2>1. UNCHANGED <<adapters, instance, shared, tracked, tracker, depth>>
    BY <1>4 DEF GetAdapter, SharedAdapter, ctxVars
  <2>2. AdapterTypes'
    BY <1>3, <2>1 DEF AdapterTypes, Valid
  <2> QED BY <1>2, <2>2
<1>5. CASE Make(u)
  <2>1. UNCHANGED <<instance, shared, tracked, tracker, depth>> /\ adapters' = adapters + 1 /\ adapters < MaxAdapters
    BY <1>5 DEF Make
  <2>2. adapters' \in 0..MaxAdapters /\ 1..adapters \subseteq 1..adapters'
    BY <1>3, <2>1
  <2>3. AdapterTypes'
    BY <1>3, <2>1, <2>2 DEF AdapterTypes, Valid
  <2> QED BY <1>2, <2>3
<1>6. CASE Install(u) \/ Share(u) \/ Unset(u)
  <2>1. UNCHANGED <<adapters, depth>> /\ (tracker' = [tracker EXCEPT ![On(u)] = NoLayers] \/ UNCHANGED tracker)
    BY <1>6 DEF Install, Share, Unset
  <2>2. job[u].on \in 1..adapters
    <3>1. PICK w \in {"install", "share", "unset"} : At(u, w)
      BY <1>6 DEF Install, Share, Unset
    <3>2. w \notin StoreSteps \cup Searches /\ w # "none"
      BY DEF StoreSteps, Searches
    <3> QED BY <3>1, <3>2, OnIs DEF Valid
  <2>3. tracker' \in [Adapters -> [layer : Int, virtual : Nat, contexts : Int]]
    <3>1. NoLayers \in [layer : Int, virtual : Nat, contexts : Int]
      BY DEF NoLayers
    <3> QED BY <1>3, <2>1, <3>1
  <2>4. {instance', shared', tracked'} \subseteq 1..adapters' \cup {Nothing}
    BY <1>3, <1>6, <2>1, <2>2 DEF Install, Share, Unset, On
  <2>5. (instance' # Nothing => tracked' # Nothing) /\ \A w \in Users : depth'[w] > 0 => tracked' # Nothing
    <3>1. job[u].on # Nothing
      BY <2>2, StoreAssumption DEF StoreAssumption
    <3> QED BY <1>3, <1>6, <2>1, <3>1 DEF Install, Share, Unset, On
  <2>6. AdapterTypes'
    BY <1>3, <2>1, <2>3, <2>4, <2>5 DEF AdapterTypes, Valid
  <2> QED BY <1>2, <2>6
<1>7. CASE VirtEnterStep(u)
  <2>1. /\ UNCHANGED <<adapters, instance, shared, tracked>> /\ tracker' = [tracker EXCEPT ![tracked] = VirtEnter(tracker[tracked])]
        /\ UNCHANGED depth \/ depth' = [depth EXCEPT ![u] = @ + 1]
    BY <1>7 DEF VirtEnterStep
  <2>2. tracked # Nothing
    <3>1. At(u, "virt_enter") /\ "virt_enter" # "none"
      BY <1>7 DEF VirtEnterStep
    <3>2. todo[u] # <<>> /\ todo[u][1] = "virt_enter"
      BY <3>1, Heads
    <3> QED BY <3>2 DEF CtxInv, Under
  <2>3. tracker[tracked] \in [layer : Int, virtual : Nat, contexts : Int]
    BY <1>3, <2>2 DEF Adapters
  <2>4. VirtEnter(tracker[tracked]) \in [layer : Int, virtual : Nat, contexts : Int]
    BY <2>3 DEF VirtEnter
  <2>5. tracker' \in [Adapters -> [layer : Int, virtual : Nat, contexts : Int]] /\ depth' \in [Users -> Nat]
    <3>1. tracker' \in [Adapters -> [layer : Int, virtual : Nat, contexts : Int]]
      BY <1>3, <2>1, <2>4
    <3>2. depth' \in [Users -> Nat]
      BY <1>3, <2>1
    <3> QED BY <3>1, <3>2
  <2>6. AdapterTypes'
    BY <1>3, <2>1, <2>2, <2>5 DEF AdapterTypes, Valid
  <2> QED BY <1>2, <2>6
<1>8. CASE EnteredStep(u) \/ VirtExitStep(u) \/ ExitedStep(u)
  <2>1. /\ UNCHANGED <<adapters, instance, shared, tracked>>
        /\ UNCHANGED depth \/ (EnteredStep(u) /\ depth' = [depth EXCEPT ![u] = @ + 1])
    BY <1>8 DEF EnteredStep, VirtExitStep, ExitedStep
  <2>2. job[u].on \in Adapters
    <3>1. PICK w \in {"entered", "virt_exit", "exited"} : At(u, w)
      BY <1>8 DEF EnteredStep, VirtExitStep, ExitedStep
    <3>2. w \notin StoreSteps \cup Searches /\ w # "none"
      BY DEF StoreSteps, Searches
    <3> QED BY <3>1, <3>2, OnIs
  <2>3. PICK l \in [layer : Int, virtual : Nat, contexts : Int] : l = tracker[On(u)]
    BY <1>3, <2>2 DEF On
  <2>4. Entered(l) \in [layer : Int, virtual : Nat, contexts : Int]
        /\ VirtExit(l) \in [layer : Int, virtual : Nat, contexts : Int]
        /\ Exited(l) \in [layer : Int, virtual : Nat, contexts : Int]
    <3>1. Entered(l) \in [layer : Int, virtual : Nat, contexts : Int]
      <4>1. l.layer + 1 \in Int /\ l.contexts + 1 \in Int
        OBVIOUS
      <4> QED BY <4>1, Zenon DEF Entered
    <3>2. VirtExit(l) \in [layer : Int, virtual : Nat, contexts : Int]
      BY DEF VirtExit
    <3>3. Exited(l) \in [layer : Int, virtual : Nat, contexts : Int]
      <4>1. l.layer - 1 \in Int /\ l.contexts - 1 \in Int /\ l.contexts \in Int
        OBVIOUS
      <4>2. (IF PopFails(l) THEN l.contexts ELSE l.contexts - 1) \in Int
        BY <4>1
      <4> QED BY <4>1, <4>2 DEF Exited
    <3> QED BY <3>1, <3>2, <3>3
  <2>5. \/ tracker' = [tracker EXCEPT ![On(u)] = Entered(l)] \/ tracker' = [tracker EXCEPT ![On(u)] = VirtExit(l)]
        \/ tracker' = [tracker EXCEPT ![On(u)] = Exited(l)]
    BY <1>8, <2>3 DEF EnteredStep, VirtExitStep, ExitedStep
  <2>6. tracker' \in [Adapters -> [layer : Int, virtual : Nat, contexts : Int]]
    BY <1>3, <2>4, <2>5
  <2>7. depth' \in [Users -> Nat] /\ \A w \in Users : depth'[w] > 0 => tracked # Nothing
    BY <1>3, <2>1, EnteredTypes
  <2>8. AdapterTypes'
    BY <1>3, <2>1, <2>6, <2>7 DEF AdapterTypes, Valid
  <2> QED BY <1>2, <2>8
<1> QED
  BY <1>4, <1>5, <1>6, <1>7, <1>8 DEF WrapperStep

\* A step of the wrapper.
LEMMA WrapperStepTypes ==
  ASSUME CtxInv, NEW u \in Users, WrapperStep(u)
  PROVE  CtxInv'
<1>1. CallTypes' /\ \A w \in Users : Under(w)'
  BY GetAdapterTypes, SharedAdapterTypes, MakeTypes, InstallTypes, VirtEnterTypes, EnteredTypes, VirtExitTypes,
     ExitedTypes DEF WrapperStep
<1> QED
  BY <1>1, WrapperData DEF CtxInv

-----------------------------------------------------------------------------
\* A call begins: what is left to show is where it is.
LEMMA CallBegins ==
  ASSUME CtxInv, NEW u \in Users, NEW op \in setup.ops, NEW t \in Threads, NEW on \in Int \cup {Nothing},
         NEW s \in Seq(Words), job' = [job EXCEPT ![u] = [op |-> op, tid |-> t, on |-> on]],
         todo' = [todo EXCEPT ![u] = s], rd' = [rd EXCEPT ![u] = Nothing],
         answer' = [answer EXCEPT ![u] = NoAnswer], loop = Nothing,
         UNCHANGED <<setup, order, conns, made, open, walk, loop, adapters, attr, pool, instance, shared,
                     tracker, tracked>>,
         depth' = depth \/ (depth' = [depth EXCEPT ![u] = @ - 1] /\ depth[u] > 0),
         Under(u)'
  PROVE  CtxInv'
<1>1. ConnTypes'
  BY DEF CtxInv, ConnTypes, Held
<1>2. KeyTypes'
  BY DEF CtxInv, KeyTypes, Keys
<1>3. /\ job \in [Users -> [op : setup.ops \cup {"none"}, tid : Threads \cup {Nothing}, on : Int \cup {Nothing}]]
      /\ todo \in [Users -> Seq(Words)] /\ adapters \in Nat /\ DOMAIN answer = Users
  BY DEF CtxInv, CallTypes, AdapterTypes
<1>4. CallTypes'
  <2>1. job' \in [Users -> [op : setup.ops \cup {"none"}, tid : Threads \cup {Nothing}, on : Int \cup {Nothing}]]
    BY <1>3
  <2>2. todo' \in [Users -> Seq(Words)] /\ DOMAIN answer' = Users
    BY <1>3
  <2> QED BY <2>1, <2>2 DEF CtxInv, CallTypes
<1>5. AdapterTypes'
  <2>1. depth \in [Users -> Nat] /\ \A w \in Users : depth[w] > 0 => tracked # Nothing
    BY DEF CtxInv, AdapterTypes
  <2>2. depth' \in [Users -> Nat] /\ \A w \in Users : depth'[w] > 0 => tracked # Nothing
    <3>1. CASE depth' = depth
      BY <2>1, <3>1
    <3>2. CASE depth' = [depth EXCEPT ![u] = @ - 1] /\ depth[u] > 0
      <4>1. depth[u] - 1 \in Nat
        BY <2>1, <3>2
      <4> QED BY <2>1, <3>2, <4>1
    <3> QED BY <3>1, <3>2
  <2> QED BY <2>2 DEF CtxInv, AdapterTypes, Valid
<1>6. \A w \in Users : Under(w)'
  <2> TAKE w \in Users
  <2>1. CASE w # u
    <3>1. todo'[w] = todo[w] /\ job'[w] = job[w]
      BY <1>3, <2>1
    <3> QED BY <1>3, <3>1, OthersUnder
  <2> QED BY <2>1
<1> QED
  BY <1>1, <1>2, <1>4, <1>5, <1>6 DEF CtxInv

\* The calls of the store, and those of the adapters and the wrapper.
LEMMA OpsApart ==
  ASSUME setup.kind \in Sync \cup Async, NEW op \in DOMAIN Kind \cup DOMAIN Common
  PROVE  op \notin CtxOps
<1>1. DOMAIN Kind \subseteq {"get", "close", "reset", "configure"}
  <2>1. setup.kind \in {"redis", "memcached", "geoip", "sqlite", "aioredis", "aiomemcached", "aiosqlite"}
    BY DEF Sync, Async
  <2> QED BY <2>1 DEF Kind, Programs
<1>2. DOMAIN Common = {"new", "close_all", "clean", "clean_thread", "clean_all", "clean_everything"}
  BY DEF Common
<1>3. op \in {"get", "close", "reset", "configure", "new", "close_all", "clean", "clean_thread", "clean_all",
              "clean_everything"}
  BY <1>1, <1>2
<1> QED
  BY <1>3 DEF CtxOps

\* A call on the store that begins keeps the types.
LEMMA AskTypes ==
  ASSUME CtxInv, NEW u \in Users, AskSome(u), UNCHANGED ctxVars
  PROVE  CtxInv'
<1>1. PICK op \in setup.ops \cap (DOMAIN Kind \cup DOMAIN Common), t \in Threads : Ask(u, op, t)
  BY DEF AskSome
<1>2. setup.kind \in Sync \cup Async
  BY StoreAssumption DEF StoreAssumption, CtxInv, CallTypes
<1>3. Shape(setup.kind, FALSE, Program(op)) /\ op \notin CtxOps
  BY <1>2, StorePrograms, OpsApart DEF StoreProgram
<1>4. PICK s \in Seq(Words) : s = Program(op)
  BY <1>3 DEF Shape
<1>5. /\ job' = [job EXCEPT ![u] = [op |-> op, tid |-> t, on |-> Nothing]]
      /\ todo' = [todo EXCEPT ![u] = s] /\ rd' = [rd EXCEPT ![u] = Nothing]
      /\ answer' = [answer EXCEPT ![u] = NoAnswer] /\ loop = Nothing
      /\ UNCHANGED <<setup, order, conns, made, open, walk, loop, adapters, attr, pool, instance, shared,
                     tracker, tracked, depth>>
      /\ u \in Crew
  BY <1>1, <1>4 DEF Ask, storeVars, ctxVars, Crew
<1>6. todo'[u] = s /\ job'[u] = [op |-> op, tid |-> t, on |-> Nothing]
  BY <1>5 DEF CtxInv, CallTypes
<1>7. InCtx(u)' = FALSE
  BY <1>3, <1>6 DEF InCtx
<1>8. \A i \in 1..Len(s) : s[i] \in StoreSteps
  BY <1>3, <1>4 DEF Shape, Fits
<1>9. \A i \in 1..Len(s) : s[i] \notin {"virt_enter", "entered"}
  BY <1>8 DEF StoreSteps
<1>10. Shape(setup.kind, InCtx(u), todo[u])'
  BY <1>3, <1>4, <1>5, <1>6, <1>7
<1>11. s # <<>> => s[1] # "virt_enter"
  <2> HAVE s # <<>>
  <2>1. 1 \in 1..Len(s)
    BY <1>4
  <2> QED BY <1>9, <2>1
<1>12. ~Says(u, "entered")'
  BY <1>6, <1>9 DEF Says
<1>13. u \in Crew' /\ job'[u].tid \in Threads
  BY <1>5, <1>6 DEF Crew
<1>14. Under(u)'
  BY <1>6, <1>7, <1>10, <1>11, <1>12, <1>13 DEF Under
<1>15. Nothing \in Int \cup {Nothing}
  OBVIOUS
<1>16. op \in setup.ops /\ t \in Threads
  OBVIOUS
<1>17. depth' = depth
  BY <1>5
<1> QED
  BY <1>5, <1>14, <1>15, <1>16, <1>17, CallBegins

\* A call on an adapter or the wrapper that begins keeps the types.
LEMMA CtxAskTypes ==
  ASSUME CtxInv, NEW u \in Users, setup.kind \in Wrapped, NEW op \in setup.ops \cap CtxOps, CtxAsk(u, op)
  PROVE  CtxInv'
<1>1. PICK a, b : Begins(op, a) /\ Block(CtxPrograms[op], a, b, CtxWords(op))
  BY CtxProgramBlocks
<1>2. PICK s \in Seq(Words) : s = CtxPrograms[op]
  BY <1>1 DEF Block, Shape
<1>3. Shape(setup.kind, TRUE, s) /\ Len(s) > 0 /\ s[1] = a /\ \A i \in 1..Len(s) : s[i] \in CtxWords(op)
  BY <1>1, <1>2 DEF Block
<1>4. PICK on : on = IF op = "exit" THEN tracked ELSE instance
  OBVIOUS
<1>5. /\ job' = [job EXCEPT ![u] = [op |-> op, tid |-> setup.home[u], on |-> on]]
      /\ todo' = [todo EXCEPT ![u] = s] /\ rd' = [rd EXCEPT ![u] = Nothing]
      /\ answer' = [answer EXCEPT ![u] = NoAnswer] /\ loop = Nothing
      /\ UNCHANGED <<setup, order, conns, made, open, walk, loop, adapters, attr, pool, instance, shared,
                     tracker, tracked>>
      /\ u \in Crew
  BY <1>2, <1>4 DEF CtxAsk, storeVars, Crew
<1>6. depth' = depth \/ (depth' = [depth EXCEPT ![u] = @ - 1] /\ depth[u] > 0)
  <2>1. depth' = IF op = "exit" THEN [depth EXCEPT ![u] = @ - 1] ELSE depth
    BY DEF CtxAsk
  <2>2. op = "exit" => depth[u] > 0
    BY DEF CtxAsk
  <2> QED BY <2>1, <2>2
<1>7. setup.home[u] \in Threads
  BY <1>5, HomeIs
<1>8. on \in Valid \cup {Nothing} /\ on \in Int \cup {Nothing}
  BY <1>4 DEF CtxInv, AdapterTypes, Valid
<1>9. on \in Valid \/ a \in Searches
  <2>1. CASE op = "exit"
    <3>1. tracked # Nothing
      BY <2>1 DEF CtxAsk, CtxInv, AdapterTypes
    <3> QED BY <1>4, <1>8, <2>1, <3>1
  <2>2. CASE op \in {"use", "close_adapter", "reconnect", "memo"}
    <3>1. instance # Nothing
      BY <2>2 DEF CtxAsk
    <3> QED BY <1>4, <1>8, <2>2, <3>1
  <2>3. CASE op \notin {"use", "close_adapter", "reconnect", "memo", "exit"}
    BY <1>1, <2>3 DEF Begins, Searches
  <2> QED BY <2>1, <2>2, <2>3
<1>10. todo'[u] = s /\ job'[u] = [op |-> op, tid |-> setup.home[u], on |-> on]
  BY <1>5 DEF CtxInv, CallTypes
<1>11. InCtx(u)' = TRUE
  BY <1>10 DEF InCtx
<1>12. Shape(setup.kind, InCtx(u), todo[u])'
  BY <1>3, <1>5, <1>10, <1>11
<1>13. Says(u, "entered")' => Says(u, "install")'
  <2> SUFFICES ASSUME NEW i \in 1..Len(s), s[i] = "entered"
               PROVE  \E j \in 1..Len(s) : s[j] = "install"
    BY <1>10 DEF Says
  <2>1. "entered" \in CtxWords(op)
    BY <1>3
  <2>2. op = "enter"
    BY <2>1 DEF CtxWords, Stays, Shares, Leaves, PlainWords, ConnectWords, CloseWords
  <2>3. s[1] = "get_adapter"
    BY <1>1, <1>3, <2>2 DEF Begins
  <2>4. Fits(setup.kind, TRUE, s, 1)
    <3>1. 1 \in 1..Len(s)
      BY <1>3
    <3> QED BY <1>3, <3>1 DEF Shape
  <2>5. 1 + (MakeLen(setup.kind) + 1) \in 1..Len(s) /\ s[1 + (MakeLen(setup.kind) + 1)] = "install"
    BY <2>3, <2>4 DEF Fits, Looks, MakeLen
  <2> QED BY <2>5
<1>14. s[1] # "virt_enter"
  BY <1>1, <1>3 DEF Begins, Haves
<1>15. u \in Crew' /\ job'[u].tid \in Threads /\ (setup.kind \in Wrapped)' /\ job'[u].tid = setup'.home[u]
  BY <1>5, <1>7, <1>10 DEF Crew
<1>16. (CtxWords(job[u].op))' = CtxWords(op) /\ Valid' = Valid
  BY <1>5, <1>10 DEF CtxWords, Valid
<1>17. (\A i \in 1..Len(todo[u]) : todo[u][i] \in CtxWords(job[u].op))'
  BY <1>3, <1>10, <1>16
<1>18. (job[u].on \in Valid \/ todo[u][1] \in Searches)'
  BY <1>3, <1>9, <1>10, <1>16
<1>19. Under(u)'
  BY <1>10, <1>12, <1>13, <1>14, <1>15, <1>17, <1>18 DEF Under
<1> QED
  BY <1>5, <1>6, <1>7, <1>8, <1>19, CallBegins

\* Every step keeps it.
LEMMA CtxStep ==
  ASSUME CtxInv, [CtxNext]_allVars
  PROVE  CtxInv'
<1>1. CASE UNCHANGED allVars
  <2>1. UNCHANGED <<setup, order, conns, made, open, job, todo, rd, walk, loop, answer, adapters, attr, pool,
                    instance, shared, tracker, tracked, depth>>
    BY <1>1 DEF allVars, vars, ctxVars
  <2>2. \A u \in Users : Under(u)'
    <3> TAKE u \in Users
    <3>1. adapters \in Nat /\ adapters <= adapters /\ adapters' = adapters
      BY <2>1 DEF CtxInv, AdapterTypes
    <3> QED BY <2>1, <3>1, OthersUnder
  <2>3. ConnTypes' /\ KeyTypes' /\ CallTypes' /\ AdapterTypes'
    BY <2>1 DEF CtxInv, ConnTypes, KeyTypes, Keys, CallTypes, AdapterTypes, Held, Valid
  <2> QED BY <2>2, <2>3 DEF CtxInv
<1>2. ASSUME NEW u \in Users, AskSome(u) /\ UNCHANGED ctxVars
      PROVE  CtxInv'
  BY <1>2, AskTypes
<1>3. ASSUME NEW u \in Users, setup.kind \in Wrapped, NEW op \in setup.ops \cap CtxOps, CtxAsk(u, op)
      PROVE  CtxInv'
  BY <1>3, CtxAskTypes
<1>4. ASSUME NEW u \in Users, StoreStepHere(u) \/ AdapterStep(u) \/ WrapperStep(u)
      PROVE  CtxInv'
  BY <1>4, StoreStepTypes, AdapterStepTypes, WrapperStepTypes
<1> QED
  BY <1>1, <1>2, <1>3, <1>4 DEF CtxNext

\* It holds at the start.
LEMMA CtxStart ==
  ASSUME Init
  PROVE  CtxInv
<1>1. StoreInit /\ CtxInit
  BY DEF Init
<1>2. ConnTypes
  BY <1>1 DEF StoreInit, CtxInit, ConnTypes, Held
<1>3. KeyTypes
  BY <1>1 DEF StoreInit, KeyTypes
<1>4. CallTypes
  <2>1. [u \in Users |-> NoJob] \in [Users -> [op : setup.ops \cup {"none"}, tid : Threads \cup {Nothing}, on : Int \cup {Nothing}]]
    BY DEF NoJob
  <2>2. [u \in Users |-> <<>>] \in [Users -> Seq(Words)]
    OBVIOUS
  <2> QED BY <1>1, <2>1, <2>2 DEF StoreInit, CallTypes
<1>5. AdapterTypes
  <2>1. [a \in Adapters |-> NoLayers] \in [Adapters -> [layer : Int, virtual : Nat, contexts : Int]]
    BY DEF NoLayers
  <2>2. [u \in Users |-> 0] \in [Users -> Nat]
    OBVIOUS
  <2>3. MaxAdapters \in Nat \ {0} /\ Nothing # 1
    BY ContextsAssumption, StoreAssumption DEF ContextsAssumption, StoreAssumption
  <2>4. adapters \in 0..MaxAdapters /\ {instance, shared, tracked} \subseteq Valid \cup {Nothing}
    BY <1>1, <2>3 DEF CtxInit, Valid
  <2> QED BY <1>1, <2>1, <2>2, <2>4 DEF CtxInit, AdapterTypes
<1>6. \A u \in Users : Under(u)
  BY <1>1 DEF StoreInit, Under
<1> QED
  BY <1>2, <1>3, <1>4, <1>5, <1>6 DEF CtxInv

\* The types of the store, the adapters and the layers of the wrapper, whatever is called and however the
\* calls of threads or tasks interleave; a thread without a store has no connection, and the wrapper's
\* adapter is one that was made.
THEOREM ContextsTypeCorrect == Spec => []TypeOK
<1>1. Init => CtxInv
  BY CtxStart
<1>2. CtxInv /\ [CtxNext]_allVars => CtxInv'
  BY CtxStep
<1>3. CtxInv => TypeOK
  <2> SUFFICES ASSUME CtxInv PROVE TypeOK
    OBVIOUS
  <2>1. setup \in Setups /\ (\A t \in Threads : conns[t] \in 1..made \cup {Nothing, Coroutine})
        /\ (\A t \in Threads : conns[t] # Nothing => t \in Keys) /\ open \subseteq 1..made
        /\ adapters \in 0..MaxAdapters
    BY DEF CtxInv, ConnTypes, KeyTypes, CallTypes, AdapterTypes, Held
  <2>2. \A a \in Adapters : /\ {attr[a], pool[a]} \subseteq 1..made \cup {Nothing, Coroutine}
                             /\ tracker[a].layer \in Int /\ tracker[a].virtual \in Nat
    BY DEF CtxInv, ConnTypes, AdapterTypes, Held
  <2>3. loop # Nothing => todo[loop] # <<>>
    BY DEF CtxInv, CallTypes
  <2>4. instance # Nothing => instance <= adapters
    BY DEF CtxInv, AdapterTypes, Valid
  <2> QED BY <2>1, <2>2, <2>3, <2>4 DEF TypeOK
<1> QED
  BY <1>1, <1>2, <1>3, PTL DEF Spec

-----------------------------------------------------------------------------
(* A caller alone *)
WordsCalm(u) ==
  /\ Says(u, "purge") => job[u].op = "clean_everything"
  /\ Says(u, "promise") => Resets
\* An iteration goes on where it was, over the stores there were.
WalkCalm(u) ==
  walk[u] # Nothing =>
    /\ walk[u].size = Cardinality(Keys) /\ todo[u] # <<>>
    /\ \/ todo[u][1] \in {"walk", "sweep"}
       \/ todo[u][1] = "shut" /\ Len(todo[u]) > 1 /\ todo[u][2] = "walk"
RaiseCalm(u) == faults = 0 /\ ~Resets /\ answer[u] = Raised => job[u].op = "clean_everything"
\* The object that is left has been entered.
ExitCalm(u) ==
  job[u].op = "exit" /\ todo[u] # <<>> => todo[u][1] = "virt_exit" \/ tracker[job[u].on].layer >= 1
Calm(u) == WordsCalm(u) /\ WalkCalm(u) /\ RaiseCalm(u) /\ ExitCalm(u)

Layers == \A a \in Adapters : tracker[a].layer \in Nat /\ tracker[a].contexts = tracker[a].layer
Awaited ==
  ~Resets => /\ \A t \in Threads : conns[t] # Coroutine
             /\ \A u \in Users : rd[u] # Coroutine
             /\ \A a \in Adapters : attr[a] # Coroutine /\ pool[a] # Coroutine

LoneCalm == faults \in Nat /\ Layers /\ Awaited /\ \A u \in Users : Calm(u)
LoneInv == Lone => LoneCalm

-----------------------------------------------------------------------------
\* The others do nothing.
LEMMA OthersIdle ==
  ASSUME CtxInv, Lone, NEW u \in Crew, NEW w \in Users, w # u
  PROVE  todo[w] = <<>>
<1>1. w \notin Crew
  BY DEF Lone
<1> QED
  BY <1>1 DEF CtxInv, Under

\* What holds of the others still holds: where the caller is alone they have nothing to do.
LEMMA OthersCalm ==
  ASSUME CtxInv, Lone, LoneCalm, NEW u \in Crew, NEW w \in Users, w # u,
         todo'[w] = todo[w], job'[w] = job[w], walk'[w] = walk[w], answer'[w] = answer[w], setup' = setup,
         faults' = 0 => faults = 0
  PROVE  Calm(w)'
<1>1. todo[w] = <<>>
  BY OthersIdle
<1>2. Calm(w) /\ walk[w] = Nothing
  BY <1>1 DEF LoneCalm, Calm, WalkCalm
<1>3. Resets' = Resets
  BY DEF Resets, Does
<1>4. RaiseCalm(w)'
  BY <1>2, <1>3 DEF Calm, RaiseCalm
<1> QED
  BY <1>1, <1>2, <1>4 DEF Calm, WordsCalm, WalkCalm, ExitCalm, Says

\* What is left of a program says no more than it did.
LEMMA Fewer ==
  ASSUME CtxInv, NEW u \in Users, NEW n \in 1..Len(todo[u]), Runs(u, n), NEW w, Says(u, w)'
  PROVE  Says(u, w)
<1>1. todo[u] \in Seq(Words) /\ todo'[u] = Drop(todo[u], n)
  BY DEF CtxInv, CallTypes, Runs
<1>2. n \in Nat /\ n <= Len(todo[u]) /\ Len(todo[u]) \in Nat
  BY <1>1
<1>3. Len(Drop(todo[u], n)) = Len(todo[u]) - n /\ \A i \in 1..Len(todo[u]) - n : Drop(todo[u], n)[i] = todo[u][n + i]
  BY <1>1, <1>2 DEF Drop
<1>4. PICK i \in 1..Len(todo[u]) - n : todo'[u][i] = w
  BY <1>1, <1>3 DEF Says
<1>5. n + i \in 1..Len(todo[u]) /\ todo[u][n + i] = w
  BY <1>1, <1>2, <1>3, <1>4
<1> QED
  BY <1>5 DEF Says

\* A call goes on, or returns.
LEMMA CalmRuns ==
  ASSUME CtxInv, Lone, LoneCalm, NEW u \in Users, todo[u] # <<>>, NEW n \in 1..Len(todo[u]), Runs(u, n),
         answer' \in {answer, [answer EXCEPT ![u] = Returned(rd'[u])]},
         setup' = setup, faults' = faults, job'[u].op = job[u].op, \A w \in Users \ {u} : job'[w] = job[w],
         \A w \in Users \ {u} : walk'[w] = walk[w], walk'[u] = Nothing \/ WalkCalm(u)',
         job[u].op # "exit" \/ tracker'[job'[u].on].layer >= 1 \/ n = Len(todo[u])
  PROVE  \A w \in Users : Calm(w)'
<1>1. u \in Crew /\ todo \in [Users -> Seq(Words)] /\ Len(todo[u]) \in Nat /\ DOMAIN answer = Users
  BY DEF CtxInv, CallTypes, Under
<1>4. Calm(u) /\ Resets' = Resets
  BY DEF LoneCalm, Resets, Does
<1>5. WordsCalm(u)'
  BY <1>4, Fewer DEF Calm, WordsCalm
<1>6. RaiseCalm(u)'
  <2>1. Returned(rd'[u]) # Raised
    BY DEF Returned, Raised
  <2>2. answer'[u] = answer[u] \/ answer'[u] # Raised
    BY <1>1, <2>1
  <2> QED BY <1>4, <2>2 DEF Calm, RaiseCalm
<1>7. WalkCalm(u)'
  BY DEF WalkCalm
<1>8. ExitCalm(u)'
  <2>1. n = Len(todo[u]) => todo'[u] = <<>>
    BY <1>1 DEF Runs, Drop
  <2> QED BY <2>1 DEF ExitCalm
<1>9. \A w \in Users \ {u} : Calm(w)'
  <2> TAKE w \in Users \ {u}
  <2>1. todo'[w] = todo[w] /\ answer'[w] = answer[w]
    BY <1>1 DEF Runs
  <2> QED BY <1>1, <2>1, OthersCalm
<1> QED
  BY <1>5, <1>6, <1>7, <1>8, <1>9 DEF Calm

\* A call that goes on with the rest of its program, and no other, stays calm.
LEMMA CalmSkip ==
  ASSUME CtxInv, Lone, LoneCalm, NEW u \in Users, todo[u] # <<>>, NEW n \in Nat, n + 1 <= Len(todo[u]), Skip(u, n),
         setup' = setup, faults' = faults, job'[u].op = job[u].op, \A w \in Users \ {u} : job'[w] = job[w],
         \A w \in Users \ {u} : walk'[w] = walk[w], walk'[u] = Nothing \/ WalkCalm(u)',
         job[u].op # "exit" \/ tracker'[job'[u].on].layer >= 1 \/ n + 1 = Len(todo[u])
  PROVE  \A w \in Users : Calm(w)'
<1>1. Len(todo[u]) \in Nat
  BY DEF CtxInv, CallTypes
<1>2. Runs(u, n + 1)
  BY DEF Skip, Continue, Proceed, Runs
<1>3. n + 1 \in 1..Len(todo[u])
  BY <1>1
<1>4. answer' \in {answer, [answer EXCEPT ![u] = Returned(rd'[u])]}
  BY DEF Skip, Continue, Proceed
<1> QED
  BY <1>2, <1>3, <1>4, CalmRuns

\* A call fails.
LEMMA CalmRaise ==
  ASSUME CtxInv, Lone, LoneCalm, NEW u \in Crew, u \in Users, Raise(u), UNCHANGED <<setup, job>>, faults' = 0 => faults = 0,
         faults' # 0 \/ Resets \/ job[u].op = "clean_everything"
  PROVE  \A w \in Users : Calm(w)'
<1>1. /\ todo \in [Users -> Seq(Words)] /\ DOMAIN answer = Users /\ DOMAIN walk = Users
      /\ todo' = [todo EXCEPT ![u] = <<>>] /\ walk' = [walk EXCEPT ![u] = Nothing]
      /\ answer' = [answer EXCEPT ![u] = Raised]
  BY DEF CtxInv, CallTypes, Raise
<1>2. \A w \in Users \ {u} : Calm(w)'
  <2> TAKE w \in Users \ {u}
  <2>1. todo'[w] = todo[w] /\ answer'[w] = answer[w] /\ walk'[w] = walk[w]
    BY <1>1
  <2> QED BY <2>1, OthersCalm
<1>3. Resets' = Resets /\ todo'[u] = <<>> /\ walk'[u] = Nothing
  BY <1>1 DEF Resets, Does
<1>4. WordsCalm(u)' /\ WalkCalm(u)' /\ RaiseCalm(u)' /\ ExitCalm(u)'
  BY <1>3 DEF WordsCalm, WalkCalm, RaiseCalm, ExitCalm, Says
<1> QED
  BY <1>2, <1>4 DEF Calm

\* What the head says of the iteration and of the object that is left.
LEMMA CalmHeads ==
  ASSUME CtxInv, Lone, LoneCalm, NEW u \in Users, NEW h, At(u, h), h # "none"
  PROVE  /\ todo[u] # <<>> /\ todo[u] \in Seq(Words) /\ Len(todo[u]) \in Nat \ {0} /\ todo[u][1] = h /\ u \in Crew
         /\ 0 \in Nat /\ 0 + 1 <= Len(todo[u])
         /\ h \notin {"walk", "sweep", "shut"} => walk[u] = Nothing
         /\ h # "virt_exit" => job[u].op # "exit" \/ tracker[job[u].on].layer >= 1
         /\ WalkCalm(u) /\ WordsCalm(u) /\ Says(u, h)
<1>1. /\ todo[u] # <<>> /\ todo[u] \in Seq(Words) /\ Len(todo[u]) \in Nat \ {0} /\ todo[u][1] = h /\ u \in Crew
  BY Heads
<1>2. WalkCalm(u) /\ ExitCalm(u) /\ WordsCalm(u)
  BY DEF LoneCalm, Calm
<1>3. Says(u, h)
  <2>1. 1 \in 1..Len(todo[u])
    BY <1>1
  <2> QED BY <1>1, <2>1 DEF Says
<1>4. 0 \in Nat /\ 0 + 1 <= Len(todo[u])
  BY <1>1
<1> QED
  BY <1>1, <1>2, <1>3, <1>4 DEF WalkCalm, ExitCalm

\* A call of the store or an adapter goes on, outside of an iteration.
LEMMA CalmPlain ==
  ASSUME CtxInv, Lone, LoneCalm, NEW u \in Users, NEW h, At(u, h), h \notin {"none", "walk", "sweep", "shut", "virt_exit"},
         NEW n \in Nat, n + 1 <= Len(todo[u]), Skip(u, n), UNCHANGED <<setup, faults, job, walk, tracker>>
  PROVE  \A w \in Users : Calm(w)'
<1>1. todo[u] # <<>> /\ walk[u] = Nothing /\ (job[u].op # "exit" \/ tracker[job[u].on].layer >= 1)
  BY CalmHeads
<1> QED
  BY <1>1, CalmSkip

\* The coroutine goes nowhere but where a connection goes.
LEMMA AwaitedStore ==
  ASSUME CtxInv, Lone, LoneCalm, NEW u \in Users, StoreStepHere(u)
  PROVE  Awaited' /\ faults' \in Nat /\ Layers'
<1>1. UNCHANGED <<setup, job, adapters, attr, pool, tracker>> /\ StoreStep(u)
  BY DEF StoreStepHere, StoreStep
<1>2. Layers'
  BY <1>1 DEF LoneCalm, Layers
<1>3. faults' \in Nat
  <2>1. faults \in Nat
    BY DEF LoneCalm
  <2>2. faults' = faults \/ faults' = faults + 1
    BY <1>1 DEF StoreStep, Lookup, Connect, ConnectFails, Store, Promise, Seek, Own, Shut, Delete, DropThread,
                Walk, Sweep, Purge, Raise, Go, Skip, Continue, Proceed
  <2> QED BY <2>1, <2>2
<1>4. Resets' = Resets
  BY <1>1 DEF Resets, Does
<1>5. SUFFICES ASSUME ~Resets
               PROVE  (\A t \in Threads : conns'[t] # Coroutine) /\ \A w \in Users : rd'[w] # Coroutine
  BY <1>1, <1>2, <1>3, <1>4 DEF LoneCalm, Awaited
<1>6. /\ \A t \in Threads : conns[t] # Coroutine
      /\ \A w \in Users : rd[w] # Coroutine
      /\ DOMAIN conns = Threads /\ DOMAIN rd = Users /\ made \in Nat /\ Nothing # Coroutine
      /\ order \in Seq(Threads \cup {Nothing})
  BY <1>5, StoreAssumption DEF LoneCalm, Awaited, CtxInv, ConnTypes, KeyTypes, StoreAssumption, Coroutine
<1>7. Step(u) \in StoreSteps => job[u].tid \in Threads /\ setup.home[u] \in Threads
  <2> HAVE Step(u) \in StoreSteps
  <2>1. todo[u] # <<>>
    BY DEF Step, StoreSteps
  <2> QED BY <2>1, HomeIs DEF CtxInv, Under
<1>8. Step(u) # "promise"
  <2> SUFFICES ASSUME Step(u) = "promise" PROVE FALSE
    OBVIOUS
  <2>1. At(u, "promise")
    BY <1>1 DEF StoreStep, Lookup, Connect, ConnectFails, Store, Promise, Seek, Own, Shut, Delete, DropThread,
                Walk, Sweep, Purge, At
  <2>2. WordsCalm(u) /\ Says(u, "promise")
    BY <2>1, CalmHeads
  <2> QED BY <1>5, <2>2 DEF WordsCalm
<1>9. CASE Lookup(u) \/ Seek(u) \/ Own(u)
  <2>1. UNCHANGED conns /\ \E t \in Threads : rd' = [rd EXCEPT ![u] = conns[t]]
    BY <1>7, <1>9 DEF Lookup, Seek, Own, Holds, At, StoreSteps
  <2> QED BY <1>6, <2>1
<1>10. CASE Connect(u)
  <2>1. UNCHANGED conns /\ rd' = [rd EXCEPT ![u] = made + 1] /\ made + 1 # Coroutine
    BY <1>6, <1>10 DEF Connect, Holds, Coroutine
  <2> QED BY <1>6, <2>1
<1>11. CASE Store(u)
  <2>1. UNCHANGED rd /\ conns' = [conns EXCEPT ![job[u].tid] = rd[u]]
    BY <1>11 DEF Store
  <2> QED BY <1>6, <2>1
<1>12. CASE ConnectFails(u) \/ Shut(u)
  <2>1. UNCHANGED <<conns, rd>>
    BY <1>12 DEF ConnectFails, Shut, storeVars
  <2> QED BY <1>6, <2>1
<1>13. CASE Delete(u) \/ DropThread(u)
  <2>1. UNCHANGED rd /\ conns' = [conns EXCEPT ![job[u].tid] = Nothing]
    BY <1>13 DEF Delete, DropThread
  <2> QED BY <1>6, <2>1
<1>14. CASE Sweep(u) \/ Purge(u)
  <2>1. UNCHANGED rd /\ (UNCHANGED conns \/ \E t : conns' = [conns EXCEPT ![t] = Nothing])
    BY <1>14 DEF Sweep, Purge, Clears, IterationEnds
  <2> QED BY <1>6, <2>1
<1>15. CASE Walk(u)
  <2>1. CASE IterationEnds(u)
    BY <1>6, <2>1 DEF IterationEnds
  <2>2. CASE NextEntry(u) /\ Holds(u, conns[order[Visited(u)]]) /\ UNCHANGED conns
    <3>1. At(u, "walk") /\ order' = order
      BY <1>15 DEF Walk
    <3>2. order[Visited(u)] \in Threads
      BY <1>1, <2>2, <3>1, NextTypes DEF StoreSteps
    <3>3. rd' = [rd EXCEPT ![u] = conns[order[Visited(u)]]]
      BY <2>2 DEF Holds
    <3> QED BY <1>6, <2>2, <3>2, <3>3
  <2> QED BY <1>15, <2>1, <2>2 DEF Walk
<1>16. CASE Promise(u)
  BY <1>8, <1>16 DEF Promise, At
<1> QED
  BY <1>1, <1>9, <1>10, <1>11, <1>12, <1>13, <1>14, <1>15, <1>16 DEF StoreStep

\* An iteration neither meets another caller's store nor fails.
LEMMA CalmEnds ==
  ASSUME CtxInv, Lone, LoneCalm, NEW u \in Users, NEW h \in {"walk", "sweep"}, At(u, h), IterationEnds(u),
         UNCHANGED <<setup, job, faults, tracker>>
  PROVE  \A w \in Users : Calm(w)'
<1>1. /\ todo[u] # <<>> /\ 0 + 1 <= Len(todo[u]) /\ WalkCalm(u)
      /\ job[u].op # "exit" \/ tracker[job[u].on].layer >= 1
  BY CalmHeads
<1>2. Unchanged(u)
  BY <1>1 DEF Unchanged, Place, WalkCalm
<1>3. Skip(u, 0) /\ walk' = [walk EXCEPT ![u] = Nothing]
  BY <1>2 DEF IterationEnds, Go
<1>4. walk'[u] = Nothing /\ \A w \in Users \ {u} : walk'[w] = walk[w]
  BY <1>3 DEF CtxInv, CallTypes
<1> QED
  BY <1>1, <1>3, <1>4, CalmSkip

\* It comes to the next entry.
LEMMA CalmNext ==
  ASSUME CtxInv, Lone, LoneCalm, NEW u \in Users, NEW h \in {"walk", "sweep"}, At(u, h), NextEntry(u),
         NEW s \in Seq(Words), Continue(u, s), s # <<>>, UNCHANGED <<setup, job, faults, tracker, order>>,
         \A i \in 1..Len(s) : s[i] = "shut" \/ Says(u, s[i]),
         IF h = "sweep" THEN s[1] = "sweep" ELSE s[1] = "shut" /\ Len(s) > 1 /\ s[2] = "walk"
  PROVE  \A w \in Users : Calm(w)'
<1>1. /\ todo[u] # <<>> /\ WalkCalm(u) /\ u \in Crew /\ WordsCalm(u)
      /\ job[u].op # "exit" \/ tracker[job[u].on].layer >= 1
  BY CalmHeads
<1>2. /\ todo \in [Users -> Seq(Words)] /\ DOMAIN answer = Users /\ DOMAIN walk = Users
  BY DEF CtxInv, CallTypes
<1>3. todo' = [todo EXCEPT ![u] = s] /\ answer' = answer
  BY DEF Continue, Proceed
<1>4. walk' = [walk EXCEPT ![u] = [at |-> Visited(u) + 1, size |-> Place(u).size]] /\ Place(u).size = Cardinality(Keys)
  BY DEF NextEntry, Unchanged
<1>5. todo'[u] = s /\ walk'[u].size = Cardinality(Keys) /\ answer'[u] = answer[u] /\ Keys' = Keys /\ Resets' = Resets
  BY <1>2, <1>3, <1>4 DEF Keys, Resets, Does
<1>6. WalkCalm(u)'
  BY <1>5 DEF WalkCalm
<1>7. WordsCalm(u)'
  <2>1. Says(u, "purge")' => Says(u, "purge")
    BY <1>5 DEF Says
  <2>2. Says(u, "promise")' => Says(u, "promise")
    BY <1>5 DEF Says
  <2> QED BY <1>1, <1>5, <2>1, <2>2 DEF WordsCalm
<1>8. RaiseCalm(u)' /\ ExitCalm(u)'
  BY <1>1, <1>5 DEF LoneCalm, Calm, RaiseCalm, ExitCalm
<1>9. \A w \in Users \ {u} : Calm(w)'
  <2> TAKE w \in Users \ {u}
  <2>1. todo'[w] = todo[w] /\ answer'[w] = answer[w] /\ walk'[w] = walk[w] /\ job'[w] = job[w]
    BY <1>2, <1>3, <1>4
  <2> QED BY <1>1, <2>1, OthersCalm
<1> QED
  BY <1>6, <1>7, <1>8, <1>9 DEF Calm

\* A connection is closed, in an iteration or outside of one.
LEMMA CalmShut ==
  ASSUME CtxInv, Lone, LoneCalm, NEW u \in Users, Shut(u), UNCHANGED <<setup, job, faults, tracker>>
  PROVE  \A w \in Users : Calm(w)'
<1>1. At(u, "shut") /\ order' = order
      /\ IF rd[u] = Coroutine /\ walk[u] = Nothing THEN Raise(u) ELSE UNCHANGED walk /\ Go(u)
  BY DEF Shut
<1>2. /\ todo[u] # <<>> /\ todo[u] \in Seq(Words) /\ Len(todo[u]) \in Nat \ {0} /\ todo[u][1] = "shut" /\ u \in Crew
      /\ 0 \in Nat /\ 0 + 1 <= Len(todo[u]) /\ WalkCalm(u)
      /\ job[u].op # "exit" \/ tracker[job[u].on].layer >= 1
  BY <1>1, CalmHeads
<1>3. CASE rd[u] = Coroutine /\ walk[u] = Nothing
  <2>1. Raise(u) /\ Resets
    BY <1>1, <1>3 DEF LoneCalm, Awaited
  <2> QED BY <1>2, <2>1, CalmRaise
<1>4. CASE ~(rd[u] = Coroutine /\ walk[u] = Nothing)
  <2>1. UNCHANGED walk /\ Skip(u, 0)
    BY <1>1, <1>4 DEF Go
  <2>2. walk'[u] = Nothing \/ WalkCalm(u)'
    <3> SUFFICES ASSUME walk[u] # Nothing PROVE WalkCalm(u)'
      BY <2>1
    <3>1. walk[u].size = Cardinality(Keys) /\ Len(todo[u]) > 1 /\ todo[u][2] = "walk"
      BY <1>2 DEF WalkCalm
    <3>2. todo'[u] = Drop(todo[u], 1)
      BY <2>1 DEF Skip, Continue, Proceed, CtxInv, CallTypes
    <3>3. Drop(todo[u], 1) # <<>> /\ Drop(todo[u], 1)[1] = "walk"
      <4>1. 1 \in Nat /\ 1 <= Len(todo[u]) /\ 1 < Len(todo[u])
        BY <1>2, <3>1
      <4>2. Len(Drop(todo[u], 1)) = Len(todo[u]) - 1 /\ Drop(todo[u], 1)[1] = todo[u][1 + 1]
        BY <1>2, <4>1 DEF Drop
      <4>3. Len(todo[u]) - 1 # 0 /\ Len(<<>>) = 0
        <5>1. \A n \in Nat \ {0} : 1 < n => n - 1 # 0
          OBVIOUS
        <5>2. Len(todo[u]) - 1 # 0
          BY <1>2, <4>1, <5>1
        <5> QED BY <5>2
      <4>4. Drop(todo[u], 1) # <<>>
        BY <4>2, <4>3
      <4> QED BY <3>1, <4>2, <4>4
    <3> QED BY <1>1, <2>1, <3>1, <3>2, <3>3 DEF WalkCalm, Keys
  <2> QED BY <1>2, <2>1, <2>2, CalmSkip
<1> QED
  BY <1>3, <1>4

\* A step of the store keeps a lone caller calm.
LEMMA CalmStore ==
  ASSUME CtxInv, Lone, LoneCalm, NEW u \in Users, StoreStepHere(u)
  PROVE  \A w \in Users : Calm(w)'
<1>1. UNCHANGED <<setup, job, tracker>> /\ StoreStep(u)
  BY DEF StoreStepHere, StoreStep
<1>2. \A h : At(u, h) /\ h # "none" =>
        /\ todo[u] \in Seq(Words) /\ todo[u][1] = h /\ 0 \in Nat /\ 0 + 1 <= Len(todo[u]) /\ u \in Crew
        /\ Fits(setup.kind, InCtx(u), todo[u], 1)
  BY Heads, CalmHeads
<1>3. CASE Lookup(u) \/ Seek(u)
  <2>1. UNCHANGED <<faults, walk>> /\ \E h \in {"lookup", "seek"} : At(u, h)
    BY <1>3 DEF Lookup, Seek
  <2>2. PICK h \in {"lookup", "seek"} : At(u, h)
    BY <2>1
  <2>3. Skip(u, 0) \/ Skip(u, 2)
    BY <1>3 DEF Lookup, Seek, Go
  <2>4. 0 + 1 <= Len(todo[u]) /\ 2 + 1 <= Len(todo[u])
    <3>1. todo[u] \in Seq(Words) /\ todo[u][1] = h /\ 0 + 1 <= Len(todo[u]) /\ Fits(setup.kind, InCtx(u), todo[u], 1)
      BY <1>2, <2>2
    <3> QED BY <3>1, StoreSkips
  <2> QED BY <1>1, <2>1, <2>2, <2>3, <2>4, CalmPlain
<1>4. CASE Own(u)
  <2>1. UNCHANGED <<faults, walk>> /\ At(u, "own") /\ (Skip(u, 0) \/ Skip(u, 1))
    BY <1>4 DEF Own, Go
  <2>2. 0 + 1 <= Len(todo[u]) /\ 1 + 1 <= Len(todo[u])
    <3>1. todo[u] \in Seq(Words) /\ todo[u][1] = "own" /\ 0 + 1 <= Len(todo[u]) /\ Fits(setup.kind, InCtx(u), todo[u], 1)
      BY <1>2, <2>1
    <3> QED BY <3>1, StoreSkips
  <2> QED BY <1>1, <2>1, <2>2, CalmPlain
<1>5. CASE Connect(u) \/ Store(u) \/ Promise(u) \/ Delete(u) \/ DropThread(u)
  <2>1. PICK h \in {"connect", "store", "promise", "delete", "drop"} : At(u, h)
    BY <1>5 DEF Connect, Store, Promise, Delete, DropThread
  <2>2. UNCHANGED <<faults, walk>> /\ Skip(u, 0) /\ 0 + 1 <= Len(todo[u])
    BY <1>2, <1>5, <2>1 DEF Connect, Store, Promise, Delete, DropThread, Go
  <2> QED BY <1>1, <2>1, <2>2, CalmPlain
<1>6. CASE ConnectFails(u)
  <2>1. Raise(u) /\ faults' = faults + 1 /\ At(u, "connect") /\ faults \in Nat
    BY <1>6 DEF ConnectFails, LoneCalm
  <2>2. faults' # 0
    BY <2>1
  <2> QED BY <1>1, <1>2, <2>1, <2>2, CalmRaise
<1>7. CASE Shut(u)
  BY <1>1, <1>7, CalmShut DEF Shut
<1>8. CASE Walk(u)
  <2>1. At(u, "walk") /\ UNCHANGED <<order, faults>>
    BY <1>8 DEF Walk
  <2>2. CASE IterationEnds(u)
    BY <1>1, <2>1, <2>2, CalmEnds
  <2>3. CASE NextEntry(u) /\ Continue(u, <<"shut">> \o todo[u])
    <3>1. todo[u] \in Seq(Words) /\ todo[u][1] = "walk" /\ Len(todo[u]) \in Nat \ {0}
      BY <2>1, CalmHeads
    <3>2. "shut" \in Words /\ <<"shut">> \in Seq(Words)
      BY DEF Words, StoreSteps
    <3>3. PICK s \in Seq(Words) : s = <<"shut">> \o todo[u]
      <4>1. <<"shut">> \o todo[u] \in Seq(Words)
        BY <3>1, <3>2, ConcatProperties
      <4> QED BY <4>1
    <3>4. s # <<>> /\ s[1] = "shut" /\ Len(s) = 1 + Len(todo[u])
      BY <3>1, <3>3
    <3>5. \A i \in 1..Len(s) : i # 1 => i - 1 \in 1..Len(todo[u]) /\ s[i] = todo[u][i - 1]
      BY <3>1, <3>3
    <3>6. \A i \in 1..Len(s) : s[i] = "shut" \/ Says(u, s[i])
      BY <3>4, <3>5 DEF Says
    <3>7. Len(s) > 1 /\ s[2] = "walk"
      BY <3>1, <3>4, <3>5
    <3>8. Continue(u, s)
      BY <2>3, <3>3
    <3> QED BY <1>1, <2>1, <2>3, <3>4, <3>6, <3>7, <3>8, CalmNext
  <2> QED BY <1>8, <2>2, <2>3 DEF Walk
<1>9. CASE Sweep(u)
  <2>1. At(u, "sweep") /\ UNCHANGED <<order, faults>>
    BY <1>9 DEF Sweep
  <2>2. CASE IterationEnds(u)
    BY <1>1, <2>1, <2>2, CalmEnds
  <2>3. CASE NextEntry(u) /\ Continue(u, todo[u])
    <3>1. todo[u] \in Seq(Words) /\ todo[u][1] = "sweep" /\ todo[u] # <<>>
      BY <2>1, CalmHeads
    <3>2. \A i \in 1..Len(todo[u]) : todo[u][i] = "shut" \/ Says(u, todo[u][i])
      BY DEF Says
    <3> QED BY <1>1, <2>1, <2>3, <3>1, <3>2, CalmNext
  <2> QED BY <1>9, <2>2, <2>3 DEF Sweep, Clears
<1>10. CASE Purge(u)
  <2>1. At(u, "purge") /\ UNCHANGED faults
    BY <1>10 DEF Purge
  <2>2. 0 + 1 <= Len(todo[u]) /\ u \in Crew /\ WordsCalm(u) /\ Says(u, "purge")
    BY <2>1, CalmHeads
  <2>3. CASE Raise(u)
    <3>1. job[u].op = "clean_everything"
      BY <2>2 DEF WordsCalm
    <3> QED BY <1>1, <2>1, <2>2, <2>3, <3>1, CalmRaise
  <2>4. CASE Go(u) /\ UNCHANGED walk
    <3>1. Skip(u, 0)
      BY <2>4 DEF Go
    <3> QED BY <1>1, <2>1, <2>2, <2>4, <3>1, CalmPlain
  <2> QED BY <1>10, <2>3, <2>4 DEF Purge
<1> QED
  BY <1>1, <1>3, <1>4, <1>5, <1>6, <1>7, <1>8, <1>9, <1>10 DEF StoreStep

\* A step of an adapter keeps the invariant of a lone caller.
LEMMA LoneAdapterStep ==
  ASSUME CtxInv, Lone, LoneCalm, NEW u \in Users, AdapterStep(u)
  PROVE  LoneCalm'
<1>1. UNCHANGED <<setup, conns, faults, job, walk, adapters, tracker>>
  BY DEF AdapterStep, ShutAttr, storeVars, ctxVars
<1>2. faults' \in Nat /\ Layers' /\ Resets' = Resets
  BY <1>1 DEF LoneCalm, Layers, Resets, Does
<1>3. \A h : At(u, h) /\ h # "none" =>
        /\ todo[u] \in Seq(Words) /\ todo[u][1] = h /\ 0 \in Nat /\ 0 + 1 <= Len(todo[u]) /\ u \in Crew
        /\ Fits(setup.kind, InCtx(u), todo[u], 1)
  BY Heads, CalmHeads
<1>4. \A w \in Users : Calm(w)'
  <2>1. CASE HaveAttr(u)
    <3>1. At(u, "have_attr") /\ (Skip(u, 0) \/ IF setup.kind = "redis" THEN Skip(u, 4) ELSE Skip(u, 2))
      BY <2>1 DEF HaveAttr, Go
    <3>2. 0 + 1 <= Len(todo[u]) /\ IF setup.kind = "redis" THEN 4 + 1 <= Len(todo[u]) ELSE 2 + 1 <= Len(todo[u])
      <4>1. todo[u] \in Seq(Words) /\ todo[u][1] = "have_attr" /\ 0 + 1 <= Len(todo[u]) /\ Fits(setup.kind, InCtx(u), todo[u], 1)
        BY <1>3, <3>1
      <4> QED BY <4>1, AdapterSkips
    <3> QED BY <1>1, <3>1, <3>2, CalmPlain
  <2>2. CASE HavePool(u)
    <3>1. At(u, "have_pool") /\ (Skip(u, 0) \/ Skip(u, 4))
      BY <2>2 DEF HavePool, Go
    <3>2. 0 + 1 <= Len(todo[u]) /\ 4 + 1 <= Len(todo[u])
      <4>1. todo[u] \in Seq(Words) /\ todo[u][1] = "have_pool" /\ 0 + 1 <= Len(todo[u]) /\ Fits(setup.kind, InCtx(u), todo[u], 1)
        BY <1>3, <3>1
      <4> QED BY <4>1, AdapterSkips
    <3> QED BY <1>1, <3>1, <3>2, CalmPlain
  <2>3. CASE KeepPool(u) \/ AwaitPool(u) \/ KeepAttr(u) \/ ClearAttr(u) \/ ClearPool(u) \/ Command(u)
    <3>1. PICK h \in {"keep_pool", "await_pool", "keep_attr", "clear_attr", "clear_pool", "command"} : At(u, h)
      BY <2>3 DEF KeepPool, AwaitPool, KeepAttr, ClearAttr, ClearPool, Command
    <3>2. Skip(u, 0) /\ 0 + 1 <= Len(todo[u])
      BY <1>3, <2>3, <3>1 DEF KeepPool, AwaitPool, KeepAttr, ClearAttr, ClearPool, Command, Go
    <3> QED BY <1>1, <3>1, <3>2, CalmPlain
  <2>4. CASE ShutAttr(u)
    <3>1. At(u, "shut_attr") /\ (Proceed(u, Drop(todo[u], 2), FALSE) \/ Skip(u, 0))
      BY <2>4 DEF ShutAttr, Go
    <3>2. /\ todo[u] # <<>> /\ walk[u] = Nothing /\ 0 + 1 <= Len(todo[u])
          /\ job[u].op # "exit" \/ tracker[job[u].on].layer >= 1
      BY <3>1, CalmHeads
    <3>3. CASE Skip(u, 0)
      BY <1>1, <3>1, <3>2, <3>3, CalmPlain
    <3>4. CASE Proceed(u, Drop(todo[u], 2), FALSE)
      <4>1. Runs(u, 2) /\ answer' \in {answer, [answer EXCEPT ![u] = Returned(rd'[u])]}
        BY <3>4 DEF Proceed, Runs
      <4>2. 2 \in 1..Len(todo[u])
        <5>1. todo[u] \in Seq(Words) /\ todo[u][1] = "shut_attr" /\ Fits(setup.kind, InCtx(u), todo[u], 1)
          BY <1>3, <3>1
        <5>2. 2 <= Len(todo[u]) /\ Len(todo[u]) \in Nat
          BY <5>1, AdapterSkips
        <5> QED BY <5>2
      <4> QED BY <1>1, <3>2, <4>1, <4>2, CalmRuns
    <3> QED BY <3>1, <3>3, <3>4
  <2> QED BY <2>1, <2>2, <2>3, <2>4 DEF AdapterStep
<1>5. Awaited'
  <2> SUFFICES ASSUME ~Resets
               PROVE  /\ \A w \in Users : rd'[w] # Coroutine
                      /\ \A a \in Adapters : attr'[a] # Coroutine /\ pool'[a] # Coroutine
    BY <1>1, <1>2 DEF LoneCalm, Awaited
  <2>1. /\ \A w \in Users : rd[w] # Coroutine
        /\ \A a \in Adapters : attr[a] # Coroutine /\ pool[a] # Coroutine
        /\ Nothing # Coroutine
        /\ DOMAIN rd = Users /\ DOMAIN attr = Adapters /\ DOMAIN pool = Adapters
    BY StoreAssumption DEF LoneCalm, Awaited, StoreAssumption, Coroutine, CtxInv, ConnTypes
  <2>2. job[u].on \in Adapters
    <3>1. PICK h \in {"have_attr", "have_pool", "keep_pool", "await_pool", "keep_attr", "clear_attr", "clear_pool",
                      "command", "shut_attr"} : At(u, h)
      BY DEF AdapterStep, HaveAttr, HavePool, KeepPool, AwaitPool, KeepAttr, ClearAttr, ClearPool, Command, ShutAttr
    <3>2. h # "none" /\ h \notin StoreSteps \cup Searches
      BY DEF StoreSteps, Searches
    <3> QED BY <3>1, <3>2, OnIs
  <2>3. \/ UNCHANGED <<attr, pool>> /\ (UNCHANGED rd \/ \E f \in {attr, pool} : rd' = [rd EXCEPT ![u] = f[job[u].on]])
        \/ UNCHANGED rd /\ UNCHANGED attr /\ pool' \in {[pool EXCEPT ![job[u].on] = rd[u]], [pool EXCEPT ![job[u].on] = Nothing]}
        \/ UNCHANGED rd /\ UNCHANGED pool /\ attr' \in {[attr EXCEPT ![job[u].on] = rd[u]], [attr EXCEPT ![job[u].on] = Nothing]}
    BY DEF AdapterStep, HaveAttr, HavePool, KeepPool, AwaitPool, KeepAttr, ClearAttr, ClearPool, Command, ShutAttr,
           Holds, On, ctxVars
  <2>4. CASE UNCHANGED <<attr, pool>> /\ (UNCHANGED rd \/ \E f \in {attr, pool} : rd' = [rd EXCEPT ![u] = f[job[u].on]])
    BY <2>1, <2>2, <2>4
  <2>5. CASE UNCHANGED rd /\ UNCHANGED attr /\ pool' \in {[pool EXCEPT ![job[u].on] = rd[u]], [pool EXCEPT ![job[u].on] = Nothing]}
    BY <2>1, <2>2, <2>5
  <2>6. CASE UNCHANGED rd /\ UNCHANGED pool /\ attr' \in {[attr EXCEPT ![job[u].on] = rd[u]], [attr EXCEPT ![job[u].on] = Nothing]}
    BY <2>1, <2>2, <2>6
  <2> QED BY <2>3, <2>4, <2>5, <2>6
<1> QED
  BY <1>2, <1>4, <1>5 DEF LoneCalm

\* The wrapper's steps of a caller alone: the object it leaves has been entered.
LEMMA LoneWrapperStep ==
  ASSUME CtxInv, Lone, LoneCalm, NEW u \in Users, WrapperStep(u)
  PROVE  LoneCalm'
<1>1. UNCHANGED <<setup, conns, faults, rd, attr, pool>>
  BY DEF WrapperStep, GetAdapter, SharedAdapter, Make, Install, Share, Unset, VirtEnterStep, EnteredStep,
         VirtExitStep, ExitedStep, storeVars, ctxVars
<1>2. faults' \in Nat /\ Awaited'
  BY <1>1 DEF LoneCalm, Awaited, Resets, Does
<1>3. Layers /\ DOMAIN tracker = Adapters /\ \A a \in Adapters : tracker[a] \in [layer : Int, virtual : Nat, contexts : Int]
  BY DEF LoneCalm, CtxInv, AdapterTypes
<1>4. \A h : At(u, h) /\ h \notin StoreSteps \cup Searches \cup {"none"} => job[u].on \in Adapters
  BY OnIs
<1>5. PICK h \in {"get_adapter", "shared", "make", "install", "share", "unset", "virt_enter", "entered", "virt_exit", "exited"} :
        At(u, h)
  BY DEF WrapperStep, GetAdapter, SharedAdapter, Make, Install, Share, Unset, VirtEnterStep, EnteredStep,
         VirtExitStep, ExitedStep
<1>6. h \notin StoreSteps \cup {"none"}
  BY DEF StoreSteps
<1>7. /\ todo[u] # <<>> /\ todo[u] \in Seq(Words) /\ Len(todo[u]) \in Nat \ {0} /\ todo[u][1] = h /\ u \in Crew
      /\ 0 \in Nat /\ 0 + 1 <= Len(todo[u]) /\ walk[u] = Nothing
      /\ h # "virt_exit" => job[u].op # "exit" \/ tracker[job[u].on].layer >= 1
  BY <1>5, CalmHeads
<1>8. /\ setup.kind \in Wrapped /\ Fits(setup.kind, TRUE, todo[u], 1) /\ h \in CtxWords(job[u].op)
  <2>1. \A i \in 1..Len(todo[u]) : todo[u][i] \in CtxWords(job[u].op)
    BY <1>5, <1>6, WrapperHeads
  <2>2. 1 \in 1..Len(todo[u])
    BY <1>7
  <2> QED BY <1>5, <1>6, <1>7, <2>1, <2>2, WrapperHeads
<1>9. /\ h \in {"virt_exit", "exited"} => job[u].op = "exit"
      /\ h \notin {"virt_exit", "exited"} => job[u].op # "exit"
  BY <1>8 DEF CtxWords, Stays, Enters, Shares, Leaves, PlainWords, ConnectWords, CloseWords
<1>10. CASE h \notin {"virt_exit", "exited"}
  <2>1. UNCHANGED walk
    BY <1>5, <1>10 DEF WrapperStep, GetAdapter, SharedAdapter, Make, Install, Share, Unset, VirtEnterStep, EnteredStep,
         VirtExitStep, ExitedStep, At
  <2>2. job'[u].op = job[u].op /\ \A w \in Users \ {u} : job'[w] = job[w]
    <3>1. job' = job \/ \E a : SetOn(u, a)
      BY DEF WrapperStep, GetAdapter, SharedAdapter, Make, Install, Share, Unset, VirtEnterStep, EnteredStep,
             VirtExitStep, ExitedStep
    <3>2. job \in [Users -> [op : setup.ops \cup {"none"}, tid : Threads \cup {Nothing}, on : Int \cup {Nothing}]]
      BY DEF CtxInv, CallTypes
    <3> QED BY <3>1, <3>2 DEF SetOn
  <2>3. \E n \in Nat : n + 1 <= Len(todo[u]) /\ Skip(u, n)
    <3>1. \A n : Skip(u, n) /\ n \in {0, Len(Construct) + 1, Len(Construct) + 2, Len(Enter) + 1} => n \in Nat
      <4>1. Len(Construct) \in Nat /\ Len(Enter) \in Nat
        BY <1>8, Lengths DEF MakeLen, EnterLen
      <4> QED BY <4>1
    <3>2. CASE GetAdapter(u)
      <4>1. Skip(u, 0) \/ Skip(u, Len(Construct) + 1)
        BY <3>2 DEF GetAdapter, Go
      <4>2. (Len(Construct) + 1) + 1 <= Len(todo[u]) /\ Len(Construct) + 1 \in Nat
        <5>1. todo[u][1] = "get_adapter"
          BY <1>7, <1>5, <3>2 DEF GetAdapter, At
        <5>2. 1 + (MakeLen(setup.kind) + 1) <= Len(todo[u]) /\ MakeLen(setup.kind) \in Nat
          BY <1>8, <5>1 DEF Fits, Looks, MakeLen
        <5> QED BY <5>2, Lengths
      <4> QED BY <1>7, <4>1, <4>2
    <3>3. CASE SharedAdapter(u)
      <4> DEFINE n == Len(Construct) + (IF setup.kind \in Sync THEN 1 ELSE 2)
      <4>1. Skip(u, 0) \/ Skip(u, n)
        BY <3>3 DEF SharedAdapter, Go
      <4>2. n + 1 <= Len(todo[u]) /\ n \in Nat
        <5>1. todo[u][1] = "shared"
          BY <1>7, <1>5, <3>3 DEF SharedAdapter, At
        <5>2. MakeLen(setup.kind) \in Nat /\ Len(Construct) = MakeLen(setup.kind)
          BY Lengths DEF MakeLen
        <5>3. 1 + (MakeLen(setup.kind) + 1) <= Len(todo[u])
          BY <1>8, <5>1 DEF Fits, Looks
        <5>4. setup.kind \notin Sync => 1 + (MakeLen(setup.kind) + 2) <= Len(todo[u])
          BY <1>8, <5>1 DEF Fits, Looks
        <5> QED BY <5>2, <5>3, <5>4
      <4> HIDE DEF n
      <4> QED BY <1>7, <4>1, <4>2
    <3>4. CASE VirtEnterStep(u)
      <4>1. Skip(u, 0) \/ Skip(u, Len(Enter) + 1)
        BY <3>4 DEF VirtEnterStep, Go
      <4>2. (Len(Enter) + 1) + 1 <= Len(todo[u]) /\ Len(Enter) + 1 \in Nat
        <5>1. todo[u][1] = "virt_enter"
          BY <1>7, <1>5, <3>4 DEF VirtEnterStep, At
        <5>2. 1 + (EnterLen(setup.kind) + 1) <= Len(todo[u]) /\ EnterLen(setup.kind) \in Nat
          BY <1>8, <5>1 DEF Fits, Looks, EnterLen
        <5> QED BY <1>8, <5>2, Lengths
      <4> QED BY <1>7, <4>1, <4>2
    <3>5. CASE Make(u) \/ Install(u) \/ Share(u) \/ Unset(u) \/ EnteredStep(u)
      <4>1. Skip(u, 0)
        BY <3>5 DEF Make, Install, Share, Unset, EnteredStep, Go
      <4> QED BY <1>7, <4>1
    <3>6. ~VirtExitStep(u) /\ ~ExitedStep(u)
      BY <1>5, <1>10 DEF VirtExitStep, ExitedStep, At
    <3> QED BY <3>2, <3>3, <3>4, <3>5, <3>6 DEF WrapperStep
  <2>4. \A w \in Users : Calm(w)'
    BY <1>1, <1>7, <1>9, <1>10, <2>1, <2>2, <2>3, CalmSkip
  <2>5. Layers'
    <3>1. CASE UNCHANGED tracker
      BY <1>3, <3>1 DEF Layers
    <3>2. CASE Install(u)
      <4>1. tracker' = [tracker EXCEPT ![job[u].on] = NoLayers]
        BY <3>2 DEF Install, On
      <4> QED BY <1>3, <4>1 DEF Layers, NoLayers
    <3>3. CASE VirtEnterStep(u)
      <4>1. tracker' = [tracker EXCEPT ![tracked] = VirtEnter(tracker[tracked])]
        BY <3>3 DEF VirtEnterStep
      <4>2. tracked \in Adapters => VirtEnter(tracker[tracked]).layer = tracker[tracked].layer
                                     /\ VirtEnter(tracker[tracked]).contexts = tracker[tracked].contexts
        BY <1>3 DEF VirtEnter
      <4> QED BY <1>3, <4>1, <4>2 DEF Layers
    <3>4. CASE EnteredStep(u)
      <4>1. tracker' = [tracker EXCEPT ![job[u].on] = Entered(@)]
        BY <3>4 DEF EnteredStep, On
      <4>2. ASSUME NEW a \in Adapters, a = job[u].on
            PROVE  tracker'[a].layer = tracker[a].layer + 1 /\ tracker'[a].contexts = tracker[a].contexts + 1
        <5>1. tracker'[a] = Entered(tracker[a])
          BY <1>3, <4>1, <4>2
        <5> QED BY <1>3, <5>1 DEF Entered
      <4>3. \A a \in Adapters : a # job[u].on => tracker'[a] = tracker[a]
        BY <1>3, <4>1
      <4> QED BY <1>3, <4>2, <4>3 DEF Layers
    <3> QED BY <1>5, <1>10, <3>1, <3>2, <3>3, <3>4 DEF WrapperStep, GetAdapter, SharedAdapter, Make, Share, Unset,
                 VirtExitStep, ExitedStep, At, ctxVars
  <2> QED BY <1>2, <2>4, <2>5 DEF LoneCalm
<1>11. CASE h = "virt_exit"
  <2>1. VirtExitStep(u)
    BY <1>5, <1>11 DEF WrapperStep, GetAdapter, SharedAdapter, Make, Install, Share, Unset, VirtEnterStep, EnteredStep,
         ExitedStep, At
  <2>2. job[u].on \in Adapters
    <3>1. h \notin StoreSteps \cup Searches \cup {"none"}
      BY <1>11 DEF StoreSteps, Searches
    <3> QED BY <1>4, <1>5, <3>1
  <2>3. PICK l \in [layer : Int, virtual : Nat, contexts : Int] : l = tracker[job[u].on]
    BY <1>3, <2>2
  <2>4. UNCHANGED <<job, walk>> /\ tracker' = [tracker EXCEPT ![job[u].on] = VirtExit(l)]
        /\ IF LeavesObject(l) THEN Skip(u, 0) ELSE Skip(u, Len(Exit) + 1)
    BY <2>1, <2>3 DEF VirtExitStep, On, Go
  <2>5. tracker'[job[u].on] = VirtExit(l) /\ VirtExit(l).layer = l.layer /\ VirtExit(l).contexts = l.contexts
    BY <1>3, <2>2, <2>4 DEF VirtExit
  <2>6. Layers'
    <3>1. \A a \in Adapters : a # job[u].on => tracker'[a] = tracker[a]
      BY <1>3, <2>4
    <3> QED BY <1>3, <2>3, <2>5, <3>1 DEF Layers
  <2>7. CASE LeavesObject(l)
    <3>1. l.layer >= 1
      <4>1. l.layer \in Nat /\ l.virtual \in Nat
        BY <1>3, <2>2, <2>3 DEF Layers
      <4> QED BY <2>7, <4>1 DEF LeavesObject
    <3>2. \A w \in Users : Calm(w)'
      BY <1>1, <1>7, <2>4, <2>5, <2>7, <3>1, CalmSkip
    <3> QED BY <1>2, <2>6, <3>2 DEF LoneCalm
  <2>8. CASE ~LeavesObject(l)
    <3>1. Skip(u, Len(Exit) + 1)
      BY <2>4, <2>8
    <3>2. /\ Len(Exit) + 1 \in Nat /\ (Len(Exit) + 1) + 1 <= Len(todo[u])
          /\ todo[u][(Len(Exit) + 1) + 1] \in Ends
      <4>1. Looks(todo[u], 1, ExitLen(setup.kind) + 1, "exited") /\ ExitLen(setup.kind) \in Nat
        BY <1>7, <1>8, <1>11 DEF Fits, ExitLen, EnterLen
      <4>2. Len(Exit) = ExitLen(setup.kind) /\ 1 + (Len(Exit) + 1) = (Len(Exit) + 1) + 1
        BY <1>8, <4>1, Lengths
      <4>3. 1 + (ExitLen(setup.kind) + 1) <= Len(todo[u]) /\ todo[u][1 + (ExitLen(setup.kind) + 1)] = "exited"
        BY <4>1 DEF Looks
      <4>4. "exited" \in Ends
        BY DEF Ends
      <4> QED BY <4>1, <4>2, <4>3, <4>4
    <3>3. (Len(Exit) + 1) + 1 = Len(todo[u])
      <4>1. ~((Len(Exit) + 1) + 1 < Len(todo[u]))
        BY <1>5, <1>6, <3>2, NothingBehind
      <4>2. \A m, n \in Nat : m <= n /\ ~(m < n) => m = n
        OBVIOUS
      <4>3. (Len(Exit) + 1) + 1 \in Nat
        BY <3>2
      <4> QED BY <1>7, <3>2, <4>1, <4>2, <4>3
    <3>4. \A w \in Users : Calm(w)'
      BY <1>1, <1>7, <2>4, <3>1, <3>2, <3>3, CalmSkip
    <3> QED BY <1>2, <2>6, <3>4 DEF LoneCalm
  <2> QED BY <2>7, <2>8
<1>12. CASE h = "exited"
  <2>1. ExitedStep(u)
    BY <1>5, <1>12 DEF WrapperStep, GetAdapter, SharedAdapter, Make, Install, Share, Unset, VirtEnterStep, EnteredStep,
         VirtExitStep, At
  <2>2. job[u].on \in Adapters
    <3>1. h \notin StoreSteps \cup Searches \cup {"none"}
      BY <1>12 DEF StoreSteps, Searches
    <3> QED BY <1>4, <1>5, <3>1
  <2>3. PICK l \in [layer : Int, virtual : Nat, contexts : Int] : l = tracker[job[u].on]
    BY <1>3, <2>2
  <2>4. l.layer >= 1 /\ l.contexts = l.layer /\ l.layer \in Nat
    BY <1>3, <1>7, <1>9, <1>12, <2>2, <2>3 DEF Layers
  <2>5. ~PopFails(l)
    BY <2>4 DEF PopFails
  <2>6. UNCHANGED <<job, walk>> /\ tracker' = [tracker EXCEPT ![job[u].on] = Exited(l)] /\ Skip(u, 0)
    BY <2>1, <2>3, <2>5 DEF ExitedStep, On, Go
  <2>7. Exited(l).layer = l.layer - 1 /\ Exited(l).contexts = l.contexts - 1
    BY <2>5 DEF Exited
  <2>8. Layers'
    <3>1. \A a \in Adapters : a # job[u].on => tracker'[a] = tracker[a]
      BY <1>3, <2>6
    <3>2. tracker'[job[u].on] = Exited(l)
      BY <1>3, <2>2, <2>6
    <3>3. l.layer - 1 \in Nat /\ l.contexts - 1 = l.layer - 1
      BY <2>4
    <3> QED BY <1>3, <2>7, <3>1, <3>2, <3>3 DEF Layers
  <2>9. 0 + 1 = Len(todo[u])
    <3>1. 0 \in Nat /\ 0 + 1 <= Len(todo[u]) /\ todo[u][0 + 1] \in Ends
      BY <1>7, <1>12 DEF Ends
    <3>2. ~(0 + 1 < Len(todo[u]))
      BY <1>5, <1>6, <3>1, NothingBehind
    <3>3. \A n \in Nat \ {0} : ~(0 + 1 < n) => 0 + 1 = n
      OBVIOUS
    <3> QED BY <1>7, <3>2, <3>3
  <2>10. \A w \in Users : Calm(w)'
    BY <1>1, <1>7, <2>6, <2>9, CalmSkip
  <2> QED BY <1>2, <2>8, <2>10 DEF LoneCalm
<1> QED
  BY <1>10, <1>11, <1>12

\* A call begins.
LEMMA LoneBegins ==
  ASSUME CtxInv, Lone, LoneCalm, NEW u \in Crew, u \in Users, NEW op \in setup.ops, NEW t, NEW on, NEW s \in Seq(Words),
         todo[u] = <<>>, job' = [job EXCEPT ![u] = [op |-> op, tid |-> t, on |-> on]],
         todo' = [todo EXCEPT ![u] = s], rd' = [rd EXCEPT ![u] = Nothing],
         answer' = [answer EXCEPT ![u] = NoAnswer],
         UNCHANGED <<setup, order, conns, faults, walk, attr, pool, tracker>>,
         \A i \in 1..Len(s) : s[i] = "purge" => op = "clean_everything",
         \A i \in 1..Len(s) : s[i] = "promise" => Resets,
         op = "exit" /\ s # <<>> => s[1] = "virt_exit"
  PROVE  LoneCalm'
<1>1. /\ job \in [Users -> [op : setup.ops \cup {"none"}, tid : Threads \cup {Nothing}, on : Int \cup {Nothing}]]
      /\ todo \in [Users -> Seq(Words)] /\ DOMAIN answer = Users /\ DOMAIN rd = Users /\ Nothing # Coroutine
  BY StoreAssumption DEF CtxInv, CallTypes, ConnTypes, StoreAssumption, Coroutine
<1>2. Resets' = Resets /\ faults' \in Nat /\ Layers'
  BY DEF LoneCalm, Layers, Resets, Does
<1>3. Awaited'
  BY <1>1, <1>2 DEF LoneCalm, Awaited
<1>4. todo'[u] = s /\ job'[u].op = op /\ walk'[u] = Nothing /\ answer'[u] = NoAnswer
  BY <1>1 DEF LoneCalm, Calm, WalkCalm
<1>5. NoAnswer # Raised
  BY DEF NoAnswer, Raised
<1>6. WordsCalm(u)' /\ WalkCalm(u)' /\ RaiseCalm(u)' /\ ExitCalm(u)'
  BY <1>2, <1>4, <1>5 DEF WordsCalm, WalkCalm, RaiseCalm, ExitCalm, Says
<1>7. \A w \in Users \ {u} : Calm(w)'
  <2> TAKE w \in Users \ {u}
  <2>1. todo'[w] = todo[w] /\ job'[w] = job[w] /\ answer'[w] = answer[w] /\ walk'[w] = walk[w]
    BY <1>1
  <2> QED BY <2>1, OthersCalm
<1> QED
  BY <1>2, <1>3, <1>6, <1>7 DEF LoneCalm, Calm

\* A call on the store that begins keeps the invariant of a lone caller.
LEMMA LoneAsk ==
  ASSUME CtxInv, Lone, LoneCalm, NEW u \in Users, AskSome(u), UNCHANGED ctxVars
  PROVE  LoneCalm'
<1>1. PICK op \in setup.ops \cap (DOMAIN Kind \cup DOMAIN Common), t \in Threads : Ask(u, op, t)
  BY DEF AskSome
<1>2. setup.kind \in Sync \cup Async
  BY StoreAssumption DEF StoreAssumption, CtxInv, CallTypes
<1>3. Shape(setup.kind, FALSE, Program(op)) /\ op \notin CtxOps
      /\ \A i \in 1..Len(Program(op)) : Allows(op, Program(op)[i])
  BY <1>2, StorePrograms, OpsApart DEF StoreProgram
<1>4. PICK s \in Seq(Words) : s = Program(op)
  BY <1>3 DEF Shape
<1>5. /\ job' = [job EXCEPT ![u] = [op |-> op, tid |-> t, on |-> Nothing]]
      /\ todo' = [todo EXCEPT ![u] = s] /\ rd' = [rd EXCEPT ![u] = Nothing]
      /\ answer' = [answer EXCEPT ![u] = NoAnswer] /\ todo[u] = <<>>
      /\ UNCHANGED <<setup, order, conns, faults, walk, attr, pool, tracker>>
      /\ u \in Crew
  BY <1>1, <1>4 DEF Ask, storeVars, ctxVars, Crew
<1>6. \A i \in 1..Len(s) : s[i] = "purge" => op = "clean_everything"
  BY <1>3, <1>4 DEF Allows
<1>7. \A i \in 1..Len(s) : s[i] = "promise" => Resets
  BY <1>3, <1>4 DEF Allows, Resets, Does
<1>8. op # "exit" /\ op \in setup.ops
  BY <1>3 DEF CtxOps
<1> QED
  BY <1>5, <1>6, <1>7, <1>8, LoneBegins

\* A call on an adapter or the wrapper that begins keeps the invariant of a lone caller.
LEMMA LoneCtxAsk ==
  ASSUME CtxInv, Lone, LoneCalm, NEW u \in Users, setup.kind \in Wrapped, NEW op \in setup.ops \cap CtxOps, CtxAsk(u, op)
  PROVE  LoneCalm'
<1>1. PICK a, b : Begins(op, a) /\ Block(CtxPrograms[op], a, b, CtxWords(op))
  BY CtxProgramBlocks
<1>2. PICK s \in Seq(Words) : s = CtxPrograms[op]
  BY <1>1 DEF Block, Shape
<1>3. Shape(setup.kind, TRUE, s) /\ Len(s) > 0 /\ s[1] = a /\ \A i \in 1..Len(s) : s[i] \in CtxWords(op)
  BY <1>1, <1>2 DEF Block
<1>4. PICK on : on = IF op = "exit" THEN tracked ELSE instance
  OBVIOUS
<1>5. /\ job' = [job EXCEPT ![u] = [op |-> op, tid |-> setup.home[u], on |-> on]]
      /\ todo' = [todo EXCEPT ![u] = s] /\ rd' = [rd EXCEPT ![u] = Nothing]
      /\ answer' = [answer EXCEPT ![u] = NoAnswer] /\ todo[u] = <<>>
      /\ UNCHANGED <<setup, order, conns, faults, walk, attr, pool, tracker>>
      /\ u \in Crew
  BY <1>2, <1>4 DEF CtxAsk, storeVars, Crew
<1>6. \A i \in 1..Len(s) : s[i] \notin {"purge", "promise"}
  BY <1>3 DEF Shape, Fits, CtxSteps
<1>7. op = "exit" /\ s # <<>> => s[1] = "virt_exit"
  BY <1>1, <1>3 DEF Begins
<1>8. op \in setup.ops
  OBVIOUS
<1> QED
  BY <1>5, <1>6, <1>7, <1>8, LoneBegins

\* Every step keeps the invariant of a lone caller.
LEMMA LoneStep ==
  ASSUME CtxInv, LoneInv, [CtxNext]_allVars
  PROVE  LoneInv'
<1>1. setup' = setup
  BY DEF CtxNext, AskSome, Ask, CtxAsk, StoreStepHere, StoreStep, AdapterStep, ShutAttr, WrapperStep, GetAdapter,
         SharedAdapter, Make, Install, Share, Unset, VirtEnterStep, EnteredStep, VirtExitStep, ExitedStep, allVars, vars
<1>2. Lone' = Lone
  BY <1>1 DEF Lone, Crew
<1>3. SUFFICES ASSUME Lone, LoneCalm
               PROVE  LoneCalm'
  BY <1>2 DEF LoneInv
<1>4. CASE UNCHANGED allVars
  <2>1. UNCHANGED <<setup, order, conns, faults, job, todo, rd, walk, answer, attr, pool, tracker>>
    BY <1>4 DEF allVars, vars, ctxVars
  <2> QED BY <1>3, <2>1 DEF LoneCalm, Calm, WordsCalm, WalkCalm, RaiseCalm, ExitCalm, Layers, Awaited, Says, Resets, Does, Keys
<1>5. ASSUME NEW u \in Users, AskSome(u) /\ UNCHANGED ctxVars
      PROVE  LoneCalm'
  BY <1>3, <1>5, LoneAsk
<1>6. ASSUME NEW u \in Users, setup.kind \in Wrapped, NEW op \in setup.ops \cap CtxOps, CtxAsk(u, op)
      PROVE  LoneCalm'
  BY <1>3, <1>6, LoneCtxAsk
<1>7. ASSUME NEW u \in Users, StoreStepHere(u)
      PROVE  LoneCalm'
  BY <1>3, <1>7, AwaitedStore, CalmStore DEF LoneCalm
<1>8. ASSUME NEW u \in Users, AdapterStep(u) \/ WrapperStep(u)
      PROVE  LoneCalm'
  BY <1>3, <1>8, LoneAdapterStep, LoneWrapperStep
<1> QED
  BY <1>4, <1>5, <1>6, <1>7, <1>8 DEF CtxNext

\* The invariant of a lone caller holds at the start.
LEMMA LoneStart ==
  ASSUME Init
  PROVE  LoneInv
<1>1. StoreInit /\ CtxInit
  BY DEF Init
<1>2. Nothing # Coroutine /\ NoAnswer # Raised
  BY StoreAssumption DEF StoreAssumption, Coroutine, NoAnswer, Raised
<1>3. Layers
  BY <1>1 DEF CtxInit, Layers, NoLayers
<1>4. Awaited
  BY <1>1, <1>2 DEF StoreInit, CtxInit, Awaited
<1>5. \A u \in Users : Calm(u)
  BY <1>1, <1>2 DEF StoreInit, Calm, WordsCalm, WalkCalm, RaiseCalm, ExitCalm, Says
<1> QED
  BY <1>1, <1>3, <1>4, <1>5 DEF StoreInit, LoneInv, LoneCalm

\* Whatever it calls and in whatever order, a caller alone meets an exception only when a connection cannot
\* be made, when it cleans everything, or when it finds the coroutine of an earlier reset: closing, the
\* iterations over the stores and the layers of the wrapper do not fail by themselves.
THEOREM CallersAloneNeverFail == Spec => []LoneNeverFails
<1>1. Init => CtxInv /\ LoneInv
  BY CtxStart, LoneStart
<1>2. CtxInv /\ LoneInv /\ [CtxNext]_allVars => (CtxInv /\ LoneInv)'
  BY CtxStep, LoneStep
<1>3. CtxInv /\ LoneInv => LoneNeverFails
  <2> SUFFICES ASSUME CtxInv, LoneInv, Lone, faults = 0, ~Resets, NEW u \in Crew, answer[u] = Raised
               PROVE  job[u].op = "clean_everything"
    BY DEF LoneNeverFails
  <2>1. u \in Users
    BY StoreAssumption DEF StoreAssumption, CtxInv, CallTypes, Crew
  <2> QED BY <2>1 DEF LoneInv, LoneCalm, Calm, RaiseCalm
<1> QED
  BY <1>1, <1>2, <1>3, PTL DEF Spec

-----------------------------------------------------------------------------
(* Nothing is lost *)
Solo == (Lone \/ Separate) /\ ~Does(Cleans)
Is(s, k, w) == k <= Len(s) /\ s[k] = w

\* Where a connection can be found, and who is about to put one there.
Carrying(u) == \E w \in {"store", "keep_attr", "keep_pool"} : Is(todo[u], 1, w)
Kept(c) ==
  \/ c \in given
  \/ \E t \in Threads : conns[t] = c
  \/ \E a \in Adapters : attr[a] = c \/ pool[a] = c
Carried(c) == \E u \in Users : Carrying(u) /\ rd[u] = c

WordsTended(u) ==
  /\ ~Says(u, "drop") /\ ~Says(u, "purge")
  /\ Says(u, "promise") => setup.kind \notin Managers
  /\ Says(u, "own") => setup.kind \in Managers
  /\ setup.kind \in Managers /\ Says(u, "store") => job[u].tid = setup.home[u]
  /\ Separate /\ todo[u] # <<>> =>
       /\ ~InCtx(u) /\ job[u].tid = setup.home[u]
       /\ ~Says(u, "walk") /\ ~Says(u, "sweep")

\* The thread's entry is given up only when its connection is closed, or about to be.
Replaces(u) ==
  \/ \E w \in {"store", "promise", "delete"} : Is(todo[u], 1, w)
  \/ Is(todo[u], 1, "connect") /\ Is(todo[u], 2, "store")
ThreadTended(u) ==
  /\ Replaces(u) => conns[job[u].tid] \notin open
  /\ Is(todo[u], 1, "shut") /\ Is(todo[u], 2, "delete") =>
       conns[job[u].tid] = rd[u] \/ conns[job[u].tid] \notin open

\* What the adapter has is given up only when it is closed, or stored too.
Soon(u) ==
  \/ \E w \in {"keep_attr", "await_pool"} : Is(todo[u], 1, w)
  \/ Is(todo[u], 1, "store") /\ Is(todo[u], 2, "keep_attr")
  \/ Is(todo[u], 1, "connect") /\ (Is(todo[u], 2, "keep_attr") \/ Is(todo[u], 3, "keep_attr"))
  \/ Is(todo[u], 1, "lookup") /\ Is(todo[u], 4, "keep_attr")
AdapterTended(u) ==
  InCtx(u) =>
    /\ Soon(u) => attr[job[u].on] = Nothing
    /\ Is(todo[u], 1, "keep_pool") => rd[u] = conns[job[u].tid]
    /\ Is(todo[u], 1, "clear_attr") => attr[job[u].on] \notin open

\* The stores that an iteration has passed hold nothing that is open.
Passed(u, t) == \E j \in 1..Len(order) : j < Place(u).at /\ order[j] = t
IterTended(u) ==
  /\ Is(todo[u], 1, "walk") => \A t \in Threads : Passed(u, t) => conns[t] \notin open
  /\ Is(todo[u], 1, "sweep") => \A t \in Threads : conns[t] \notin open
  /\ Is(todo[u], 1, "shut") /\ Is(todo[u], 2, "walk") =>
       \A t \in Threads : Passed(u, t) => conns[t] = rd[u] \/ conns[t] \notin open
  /\ Is(todo[u], 1, "shut") /\ Is(todo[u], 2, "sweep") =>
       \A t \in Threads : conns[t] = rd[u] \/ conns[t] \notin open
Tended(u) == WordsTended(u) /\ ThreadTended(u) /\ AdapterTended(u) /\ IterTended(u)

NoneLost == \A c \in open : Kept(c) \/ Carried(c)
Unmade == \A a \in Adapters : a > adapters => attr[a] = Nothing
PoolStored == \A a \in Adapters : pool[a] \in open => \E t \in Threads : conns[t] = pool[a]
HomesOnly ==
  setup.kind \in Managers => \A t \in Threads : conns[t] # Nothing => \E u \in Crew : t = setup.home[u]
LostCalm == NoneLost /\ Unmade /\ PoolStored /\ HomesOnly /\ \A u \in Users : Tended(u)
LostInv == Solo => LostCalm

-----------------------------------------------------------------------------
\* The heads on which something more depends than that the call goes on.
Demanding == {"store", "promise", "delete", "connect", "shut", "keep_attr", "await_pool", "lookup", "keep_pool",
              "clear_attr", "sweep", "walk"}

\* Nothing and a coroutine are never open; a new connection is in no place.
LEMMA HeldApart ==
  ASSUME CtxInv
  PROVE  /\ Nothing \notin open /\ Coroutine \notin open /\ made + 1 \notin open
         /\ \A t \in Threads : conns[t] # made + 1
         /\ \A a \in Adapters : attr[a] # made + 1 /\ pool[a] # made + 1
         /\ DOMAIN conns = Threads /\ DOMAIN rd = Users /\ DOMAIN attr = Adapters /\ DOMAIN pool = Adapters
         /\ DOMAIN todo = Users /\ DOMAIN walk = Users
<1>1. /\ made \in Nat /\ open \subseteq 1..made
      /\ conns \in [Threads -> Held] /\ rd \in [Users -> Held]
      /\ attr \in [Adapters -> Held] /\ pool \in [Adapters -> Held]
      /\ Held = 1..made \cup {Nothing, -1} /\ Coroutine = -1 /\ Nothing \notin Int
  BY StoreAssumption DEF StoreAssumption, CtxInv, ConnTypes, Held, Coroutine
<1>2. Nothing \notin open /\ Coroutine \notin open /\ made + 1 \notin open
  <2>1. Nothing \notin 1..made /\ -1 \notin 1..made /\ made + 1 \notin 1..made
    BY <1>1
  <2> QED BY <1>1, <2>1
<1>4. made + 1 \notin Held
  <2>1. made + 1 \notin 1..made /\ made + 1 # -1 /\ made + 1 # Nothing
    BY <1>1
  <2> QED BY <1>1, <2>1
<1>3. todo \in [Users -> Seq(Words)] /\ DOMAIN walk = Users
  BY DEF CtxInv, CallTypes
<1> QED
  BY <1>1, <1>2, <1>3, <1>4

\* What is behind a step comes to the front.
LEMMA Comes ==
  ASSUME CtxInv, NEW u \in Users, todo[u] # <<>>, NEW n \in 1..Len(todo[u]), Runs(u, n)
  PROVE  /\ \A k \in 1..4 : \A w : Is(todo'[u], k, w) => Is(todo[u], n + k, w)
         /\ \A w : Is(todo'[u], 1, w) => /\ Follows(InCtx(u), todo[u][n], w)
                                         /\ w \in IF InCtx(u) THEN CtxSteps ELSE StoreSteps
         /\ \A v \in Users \ {u} : todo'[v] = todo[v]
         /\ n < Len(todo[u]) => Is(todo'[u], 1, todo[u][n + 1])
<1>1. todo \in [Users -> Seq(Words)] /\ todo[u] \in Seq(Words) /\ todo' = [todo EXCEPT ![u] = Drop(todo[u], n)]
      /\ Shape(setup.kind, InCtx(u), todo[u])
  BY DEF CtxInv, CallTypes, Runs, Under
<1>2. n \in Nat /\ n <= Len(todo[u]) /\ Len(todo[u]) \in Nat /\ n >= 1
  BY <1>1
<1>3. Len(Drop(todo[u], n)) = Len(todo[u]) - n /\ \A i \in 1..Len(todo[u]) - n : Drop(todo[u], n)[i] = todo[u][n + i]
  BY <1>1, <1>2 DEF Drop
<1>4. todo'[u] = Drop(todo[u], n)
  BY <1>1
<1>5. ASSUME NEW k \in 1..4, NEW w, Is(todo'[u], k, w)
      PROVE  Is(todo[u], n + k, w)
  <2>1. k <= Len(todo[u]) - n /\ todo'[u][k] = w
    BY <1>3, <1>4, <1>5 DEF Is
  <2>2. k \in 1..Len(todo[u]) - n /\ n + k <= Len(todo[u])
    BY <1>2, <2>1
  <2>3. todo[u][n + k] = w
    BY <1>3, <1>4, <2>1, <2>2
  <2> QED BY <2>2, <2>3 DEF Is
<1>6. ASSUME NEW w, Is(todo'[u], 1, w)
      PROVE  Follows(InCtx(u), todo[u][n], w) /\ w \in IF InCtx(u) THEN CtxSteps ELSE StoreSteps
  <2>1. n + 1 <= Len(todo[u]) /\ todo[u][n + 1] = w
    BY <1>5, <1>6 DEF Is
  <2>2. n \in 1..Len(todo[u]) /\ n < Len(todo[u]) /\ n + 1 \in 1..Len(todo[u])
    BY <1>2, <2>1
  <2>3. Fits(setup.kind, InCtx(u), todo[u], n + 1) /\ Follows(InCtx(u), todo[u][n], todo[u][n + 1])
    BY <1>1, <2>2 DEF Shape
  <2> QED BY <2>1, <2>3 DEF Fits
<1>7. n < Len(todo[u]) => Is(todo'[u], 1, todo[u][n + 1])
  <2> HAVE n < Len(todo[u])
  <2>1. 1 \in 1..Len(todo[u]) - n /\ 1 <= Len(todo[u]) - n
    BY <1>2
  <2> QED BY <1>3, <1>4, <2>1 DEF Is
<1> QED
  BY <1>1, <1>5, <1>6, <1>7

\* What is left of a program is as tended as it was.
LEMMA WordsStay ==
  ASSUME CtxInv, NEW u \in Users, NEW n \in 1..Len(todo[u]), Runs(u, n), WordsTended(u), todo[u] # <<>>,
         setup' = setup, job'[u].op = job[u].op, job'[u].tid = job[u].tid
  PROVE  WordsTended(u)'
<1>1. \A w : Says(u, w)' => Says(u, w)
  BY Fewer
<1>2. InCtx(u)' = InCtx(u) /\ Separate' = Separate
  BY DEF InCtx, Separate, Crew, Does
<1> QED
  BY <1>1, <1>2 DEF WordsTended

\* A head of which nothing more is asked.
LEMMA Quiet ==
  ASSUME NEW u, \A w : Is(todo'[u], 1, w) => w \notin Demanding
  PROVE  ThreadTended(u)' /\ AdapterTended(u)' /\ IterTended(u)' /\ ~Carrying(u)'
<1>1. \A w \in Demanding : ~Is(todo'[u], 1, w)
  OBVIOUS
<1> QED
  BY <1>1 DEF Demanding, ThreadTended, Replaces, AdapterTended, Soon, IterTended, Carrying

\* A call that has ended asks for nothing.
LEMMA EndedTended ==
  ASSUME NEW u, todo'[u] = <<>>
  PROVE  Tended(u)' /\ ~Carrying(u)'
<1>1. \A k \in {1, 2, 3, 4} : \A w : ~Is(<<>>, k, w)
  BY DEF Is
<1>2. \A w : ~Says(u, w)'
  BY DEF Says
<1> QED
  BY <1>1, <1>2 DEF Tended, WordsTended, ThreadTended, Replaces, AdapterTended, Soon, IterTended, Carrying

\* The others are as tended as they were: where the caller is alone they have nothing to do, and where each
\* has a thread to itself they are about another thread.
LEMMA OthersTended ==
  ASSUME CtxInv, Solo, LostCalm, NEW u \in Crew, NEW w \in Users, w # u, setup' = setup,
         todo'[w] = todo[w], job'[w] = job[w], rd'[w] = rd[w],
         Separate => /\ open' \subseteq open \cup {made + 1}
                     /\ \A t \in Threads : t # setup.home[u] => conns'[t] = conns[t]
  PROVE  Tended(w)'
<1>1. CASE todo[w] = <<>>
  BY <1>1, EndedTended
<1>2. CASE todo[w] # <<>>
  <2>1. Separate
    BY <1>2, OthersIdle DEF Solo
  <2>2. WordsTended(w) /\ ThreadTended(w)
    BY DEF LostCalm, Tended
  <2>3. w \in Crew /\ Shape(setup.kind, InCtx(w), todo[w]) /\ todo[w] \in Seq(Words)
    BY <1>2 DEF CtxInv, CallTypes, Under
  <2>4. ~InCtx(w) /\ job[w].tid = setup.home[w] /\ ~Says(w, "walk") /\ ~Says(w, "sweep")
    BY <1>2, <2>1, <2>2 DEF WordsTended
  <2>5. job[w].tid \in Threads /\ job[w].tid # setup.home[u]
    BY <1>2, <2>1, <2>3, <2>4 DEF Separate, CtxInv, Under
  <2>6. conns'[job[w].tid] = conns[job[w].tid] /\ conns[job[w].tid] # made + 1
    BY <2>1, <2>5, HeldApart
  <2>7. ThreadTended(w)'
    BY <2>1, <2>2, <2>6 DEF ThreadTended, Replaces
  <2>8. \A k \in {1, 2} : ~Is(todo[w], k, "walk") /\ ~Is(todo[w], k, "sweep")
    <3>1. \A k \in {1, 2} : k <= Len(todo[w]) => k \in 1..Len(todo[w])
      BY <2>3
    <3> QED BY <2>4, <3>1 DEF Is, Says
  <2>9. IterTended(w)'
    BY <2>8 DEF IterTended
  <2>10. AdapterTended(w)'
    BY <2>4 DEF AdapterTended, InCtx
  <2>11. WordsTended(w)'
    <3>1. Separate' = Separate /\ InCtx(w)' = InCtx(w)
      BY DEF Separate, Crew, Does, InCtx
    <3> QED BY <2>2, <3>1 DEF WordsTended, Says
  <2> QED BY <2>7, <2>9, <2>10, <2>11 DEF Tended
<1> QED
  BY <1>1, <1>2

\* A step loses nothing when it loses none of the places there were, nor what the caller held.
LEMMA StillKept ==
  ASSUME LostCalm, NEW u \in Users, \A w \in Users \ {u} : todo'[w] = todo[w] /\ rd'[w] = rd[w],
         \A c \in open' : c \in open \/ Kept(c)' \/ Carried(c)',
         \A c \in open' : Kept(c) => Kept(c)' \/ Carried(c)',
         Carrying(u) => \A c \in open' : rd[u] = c => Kept(c)' \/ Carried(c)'
  PROVE  NoneLost'
<1>1. ASSUME NEW c \in open', Carried(c)
      PROVE  Kept(c)' \/ Carried(c)'
  <2>1. PICK w \in Users : Carrying(w) /\ rd[w] = c
    BY <1>1 DEF Carried
  <2>2. CASE w = u
    <3>1. Carrying(u)
      BY <2>1, <2>2 DEF Carrying
    <3>2. rd[u] = c
      BY <2>1, <2>2
    <3> QED BY <1>1, <3>1, <3>2
  <2>3. CASE w # u
    <3>1. Carrying(w)' /\ rd'[w] = c
      BY <2>1, <2>3 DEF Carrying
    <3> QED BY <3>1 DEF Carried
  <2> QED BY <2>2, <2>3
<1> QED
  BY <1>1 DEF LostCalm, NoneLost

-----------------------------------------------------------------------------
\* A call goes on with what is behind place n + 1 of its program.
LEMMA GoesOnWith ==
  ASSUME CtxInv, LostCalm, NEW u \in Users, NEW h, At(u, h), h # "none", NEW n \in Nat, n + 1 <= Len(todo[u]), Skip(u, n),
         setup' = setup, job'[u].op = job[u].op, job'[u].tid = job[u].tid
  PROVE  /\ \A k \in 1..4 : \A w : Is(todo'[u], k, w) => Is(todo[u], n + 1 + k, w)
         /\ \A w : Is(todo'[u], 1, w) => /\ Follows(InCtx(u), todo[u][n + 1], w)
                                         /\ w \in IF InCtx(u) THEN CtxSteps ELSE StoreSteps
         /\ \A v \in Users \ {u} : todo'[v] = todo[v]
         /\ WordsTended(u)' /\ InCtx(u)' = InCtx(u)
         /\ n + 1 < Len(todo[u]) => Is(todo'[u], 1, todo[u][(n + 1) + 1])
<1>1. /\ todo[u] # <<>> /\ Len(todo[u]) \in Nat \ {0} /\ Runs(u, n + 1)
  BY Heads DEF Skip, Continue, Proceed, Runs
<1>2. n + 1 \in 1..Len(todo[u]) /\ WordsTended(u)
  BY <1>1 DEF LostCalm, Tended
<1>3. WordsTended(u)' /\ InCtx(u)' = InCtx(u)
  BY <1>1, <1>2, WordsStay DEF InCtx
<1> QED
  BY <1>1, <1>2, <1>3, Comes

\* What the head of a program is, and what it is not.
LEMMA FrontIs ==
  ASSUME CtxInv, LostCalm, NEW u \in Users, NEW h, At(u, h), h # "none"
  PROVE  /\ \A w : Is(todo[u], 1, w) <=> w = h
         /\ 0 \in Nat /\ 0 + 1 <= Len(todo[u]) /\ todo[u][1] = h /\ todo[u] # <<>> /\ todo[u] \in Seq(Words)
         /\ Fits(setup.kind, InCtx(u), todo[u], 1) /\ job[u].tid \in Threads /\ u \in Crew
         /\ setup.home[u] \in Threads
         /\ h \notin {"store", "keep_attr", "keep_pool"} => ~Carrying(u)
         /\ Tended(u) /\ Says(u, h)
<1>1. /\ Len(todo[u]) \in Nat \ {0} /\ todo[u][1] = h /\ todo[u] # <<>> /\ todo[u] \in Seq(Words)
      /\ Fits(setup.kind, InCtx(u), todo[u], 1) /\ job[u].tid \in Threads /\ u \in Crew
  BY Heads
<1>2. 1 <= Len(todo[u]) /\ 0 + 1 <= Len(todo[u]) /\ 1 \in 1..Len(todo[u])
  BY <1>1
<1>3. \A w : Is(todo[u], 1, w) <=> w = h
  BY <1>1, <1>2 DEF Is
<1>4. Tended(u)
  BY DEF LostCalm
<1>5. Says(u, h)
  BY <1>1, <1>2 DEF Says
<1>6. setup.home[u] \in Threads
  BY <1>1, HomeIs DEF CtxInv, CallTypes
<1> QED
  BY <1>1, <1>2, <1>3, <1>4, <1>5, <1>6 DEF Carrying

\* A step that leaves the places alone, closes or not, and had nothing in its hands.
LEMMA PlacesStay ==
  ASSUME CtxInv, LostCalm, NEW u \in Users, ~Carrying(u), \A w \in Users \ {u} : todo'[w] = todo[w] /\ rd'[w] = rd[w],
         UNCHANGED <<setup, conns, given, attr, pool>>, open' \subseteq open
  PROVE  NoneLost' /\ PoolStored' /\ HomesOnly'
<1>1. \A c : Kept(c)' <=> Kept(c)
  BY DEF Kept
<1>2. NoneLost'
  BY <1>1, StillKept
<1>3. PoolStored' /\ HomesOnly'
  BY DEF LostCalm, PoolStored, HomesOnly, Crew
<1> QED
  BY <1>2, <1>3

\* The steps of the store one by one.
LEMMA LookupTended ==
  ASSUME CtxInv, Solo, LostCalm, NEW u \in Users, Lookup(u), UNCHANGED <<setup, job, attr, pool>>
  PROVE  Tended(u)' /\ NoneLost' /\ PoolStored' /\ HomesOnly'
<1>1. At(u, "lookup") /\ UNCHANGED <<conns, made, open, given, walk>>
      /\ rd' = [rd EXCEPT ![u] = conns[job[u].tid]]
      /\ IF conns[job[u].tid] # Nothing THEN Skip(u, 2) ELSE Skip(u, 0)
  BY DEF Lookup, Holds, Go
<1>2. /\ \A w : Is(todo[u], 1, w) <=> w = "lookup"
      /\ 0 \in Nat /\ 0 + 1 <= Len(todo[u]) /\ todo[u][1] = "lookup" /\ Fits(setup.kind, InCtx(u), todo[u], 1)
      /\ ~Carrying(u) /\ Tended(u) /\ job[u].tid \in Threads
  <2>1. At(u, "lookup") /\ "lookup" # "none" /\ "lookup" \notin {"store", "keep_attr", "keep_pool"}
    BY <1>1
  <2> QED BY <2>1, FrontIs
<1>3. 1 + 2 <= Len(todo[u]) /\ todo[u][1 + 1] = "connect" /\ todo[u][1 + 2] = "store"
  BY <1>2 DEF Fits, Pair, Looks
<1>4. rd'[u] = conns[job[u].tid] /\ \A w \in Users \ {u} : rd'[w] = rd[w]
  BY <1>1, HeldApart
<1>5. InCtx(u) /\ Is(todo[u], 4, "keep_attr") => attr[job[u].on] = Nothing
  BY <1>2 DEF Tended, AdapterTended, Soon
<1>6. CASE conns[job[u].tid] # Nothing
  <2>1. 2 \in Nat /\ 2 + 1 <= Len(todo[u]) /\ Skip(u, 2) /\ todo[u][2 + 1] = "store"
    BY <1>1, <1>3, <1>6
  <2>2. /\ \A k \in 1..4 : \A w : Is(todo'[u], k, w) => Is(todo[u], 2 + 1 + k, w)
        /\ \A w : Is(todo'[u], 1, w) => Follows(InCtx(u), todo[u][2 + 1], w)
        /\ \A v \in Users \ {u} : todo'[v] = todo[v]
        /\ WordsTended(u)' /\ InCtx(u)' = InCtx(u)
    BY <1>1, <2>1, GoesOnWith
  <2>3. \A w : Is(todo'[u], 1, w) => w \in {"keep_attr", "keep_pool"} /\ Is(todo[u], 4, w)
    BY <2>1, <2>2 DEF Follows
  <2>4. ThreadTended(u)' /\ IterTended(u)'
    BY <2>3 DEF ThreadTended, Replaces, IterTended
  <2>5. AdapterTended(u)'
    BY <1>1, <1>4, <1>5, <2>2, <2>3 DEF AdapterTended, Soon
  <2> QED BY <1>1, <1>2, <1>4, <2>2, <2>4, <2>5, PlacesStay DEF Tended
<1>7. CASE conns[job[u].tid] = Nothing
  <2>1. Skip(u, 0) /\ todo[u][0 + 1] = "lookup"
    BY <1>1, <1>2, <1>7
  <2>2. /\ \A k \in 1..4 : \A w : Is(todo'[u], k, w) => Is(todo[u], 0 + 1 + k, w)
        /\ \A w : Is(todo'[u], 1, w) => Follows(InCtx(u), todo[u][0 + 1], w)
        /\ \A v \in Users \ {u} : todo'[v] = todo[v]
        /\ WordsTended(u)' /\ InCtx(u)' = InCtx(u)
    BY <1>1, <1>2, <2>1, GoesOnWith
  <2>3. /\ \A w : Is(todo'[u], 1, w) => w = "connect"
        /\ ~Is(todo'[u], 2, "keep_attr")
        /\ Is(todo'[u], 3, "keep_attr") => Is(todo[u], 4, "keep_attr")
    <3>1. \A w : Is(todo'[u], 1, w) => w = "connect"
      BY <2>1, <2>2 DEF Follows
    <3>2. \A w : (Is(todo'[u], 2, w) => Is(todo[u], 1 + 2, w)) /\ (Is(todo'[u], 3, w) => Is(todo[u], 4, w))
      BY <2>2
    <3> QED BY <1>3, <3>1, <3>2 DEF Is
  <2>4. ThreadTended(u)' /\ IterTended(u)'
    BY <1>1, <1>7, <2>3, HeldApart DEF ThreadTended, Replaces, IterTended
  <2>5. AdapterTended(u)'
    BY <1>1, <1>5, <2>2, <2>3 DEF AdapterTended, Soon
  <2> QED BY <1>1, <1>2, <1>4, <2>2, <2>4, <2>5, PlacesStay DEF Tended
<1> QED
  BY <1>6, <1>7

\* What follows a deletion, when nothing open has been forgotten.
LEMMA AfterDelete ==
  ASSUME NEW u, \A w : Is(todo'[u], 1, w) => /\ Follows(InCtx(u), "delete", w)
                                            /\ w \in IF InCtx(u) THEN CtxSteps ELSE StoreSteps,
         InCtx(u)' = InCtx(u), job' = job, conns'[job[u].tid] \notin open'
  PROVE  ThreadTended(u)' /\ AdapterTended(u)' /\ IterTended(u)'
<1>1. \A w : Is(todo'[u], 1, w) =>
        IF InCtx(u) THEN w \in {"have_attr", "have_pool", "exited"} ELSE w \in {"connect", "lookup", "promise"}
  BY DEF Follows, Haves
<1>2. ThreadTended(u)'
  <2>1. ~(Is(todo'[u], 1, "shut"))
    BY <1>1
  <2> QED BY <2>1 DEF ThreadTended
<1>3. IterTended(u)'
  BY <1>1 DEF IterTended
<1>4. AdapterTended(u)'
  <2> SUFFICES ASSUME InCtx(u)
               PROVE  AdapterTended(u)'
    BY DEF AdapterTended
  <2>1. \A w : Is(todo'[u], 1, w) => w \in {"have_attr", "have_pool", "exited"}
    BY <1>1
  <2> QED BY <2>1 DEF AdapterTended, Soon
<1> QED
  BY <1>2, <1>3, <1>4

\* The connection that is to be closed is looked for.
LEMMA SeekTended ==
  ASSUME CtxInv, Solo, LostCalm, NEW u \in Users, Seek(u), UNCHANGED <<setup, job, attr, pool>>
  PROVE  Tended(u)' /\ NoneLost' /\ PoolStored' /\ HomesOnly'
<1>1. At(u, "seek") /\ UNCHANGED <<conns, made, open, given, walk>>
      /\ rd' = [rd EXCEPT ![u] = conns[job[u].tid]]
      /\ IF conns[job[u].tid] = Nothing THEN Skip(u, 2) ELSE Skip(u, 0)
  BY DEF Seek, Holds, Go
<1>2. /\ 0 \in Nat /\ 0 + 1 <= Len(todo[u]) /\ todo[u][1] = "seek" /\ Fits(setup.kind, InCtx(u), todo[u], 1)
      /\ ~Carrying(u) /\ job[u].tid \in Threads
  <2>1. At(u, "seek") /\ "seek" # "none" /\ "seek" \notin {"store", "keep_attr", "keep_pool"}
    BY <1>1
  <2> QED BY <2>1, FrontIs
<1>3. 1 + 2 <= Len(todo[u]) /\ todo[u][1 + 1] = "shut" /\ todo[u][1 + 2] = "delete"
  BY <1>2 DEF Fits, Pair, Looks
<1>4. rd'[u] = conns[job[u].tid] /\ \A w \in Users \ {u} : rd'[w] = rd[w]
  BY <1>1, HeldApart
<1>5. CASE conns[job[u].tid] = Nothing
  <2>1. 2 \in Nat /\ 2 + 1 <= Len(todo[u]) /\ Skip(u, 2) /\ todo[u][2 + 1] = "delete"
    BY <1>1, <1>3, <1>5
  <2>2. /\ \A w : Is(todo'[u], 1, w) => /\ Follows(InCtx(u), todo[u][2 + 1], w)
                                        /\ w \in IF InCtx(u) THEN CtxSteps ELSE StoreSteps
        /\ \A v \in Users \ {u} : todo'[v] = todo[v]
        /\ WordsTended(u)' /\ InCtx(u)' = InCtx(u)
    BY <1>1, <2>1, GoesOnWith
  <2>3. ThreadTended(u)' /\ IterTended(u)' /\ AdapterTended(u)'
    BY <1>1, <1>5, <2>1, <2>2, HeldApart, AfterDelete
  <2> QED BY <1>1, <1>2, <1>4, <2>2, <2>3, PlacesStay DEF Tended
<1>6. CASE conns[job[u].tid] # Nothing
  <2>1. Skip(u, 0) /\ todo[u][0 + 1] = "seek"
    BY <1>1, <1>2, <1>6
  <2>2. /\ \A k \in 1..4 : \A w : Is(todo'[u], k, w) => Is(todo[u], 0 + 1 + k, w)
        /\ \A w : Is(todo'[u], 1, w) => Follows(InCtx(u), todo[u][0 + 1], w)
        /\ \A v \in Users \ {u} : todo'[v] = todo[v]
        /\ WordsTended(u)' /\ InCtx(u)' = InCtx(u)
    BY <1>1, <1>2, <2>1, GoesOnWith
  <2>3. (\A w : Is(todo'[u], 1, w) => w = "shut") /\ (\A w : Is(todo'[u], 2, w) => w = "delete")
    <3>1. \A w : Is(todo'[u], 1, w) => w = "shut"
      BY <2>1, <2>2 DEF Follows
    <3>2. \A w : Is(todo'[u], 2, w) => Is(todo[u], 1 + 2, w)
      BY <2>2
    <3> QED BY <1>3, <3>1, <3>2 DEF Is
  <2>4. ThreadTended(u)' /\ IterTended(u)' /\ AdapterTended(u)'
    BY <1>1, <1>4, <2>3 DEF ThreadTended, Replaces, IterTended, AdapterTended, Soon
  <2> QED BY <1>1, <1>2, <1>4, <2>2, <2>4, PlacesStay DEF Tended
<1> QED
  BY <1>5, <1>6

\* A manager closes the connection of its own thread: where it is alone there is no other.
LEMMA OwnTended ==
  ASSUME CtxInv, Solo, LostCalm, NEW u \in Users, Own(u), UNCHANGED <<setup, job, attr, pool>>
  PROVE  Tended(u)' /\ NoneLost' /\ PoolStored' /\ HomesOnly'
<1>1. At(u, "own") /\ UNCHANGED <<conns, made, open, given, walk>>
      /\ rd' = [rd EXCEPT ![u] = conns[setup.home[u]]]
      /\ IF conns[setup.home[u]] = Nothing THEN Skip(u, 1) ELSE Skip(u, 0)
  BY DEF Own, Holds, Go
<1>2. /\ 0 \in Nat /\ 0 + 1 <= Len(todo[u]) /\ todo[u][1] = "own" /\ Fits(setup.kind, InCtx(u), todo[u], 1)
      /\ ~Carrying(u) /\ job[u].tid \in Threads /\ u \in Crew /\ Tended(u) /\ Says(u, "own") /\ todo[u] # <<>>
      /\ todo[u] \in Seq(Words)
  <2>1. At(u, "own") /\ "own" # "none" /\ "own" \notin {"store", "keep_attr", "keep_pool"}
    BY <1>1
  <2> QED BY <2>1, FrontIs
<1>3. /\ 1 + 2 <= Len(todo[u]) /\ todo[u][1 + 1] = "shut" /\ todo[u][1 + 2] \in {"delete", "sweep"}
      /\ ~InCtx(u)
  <2>1. Pair(todo[u], 1, "shut", "delete") \/ Pair(todo[u], 1, "shut", "sweep")
    BY <1>2 DEF Fits
  <2>2. ~InCtx(u)
    BY <1>2 DEF Fits, CtxSteps
  <2> QED BY <2>1, <2>2 DEF Pair, Looks
<1>4. rd'[u] = conns[setup.home[u]] /\ \A w \in Users \ {u} : rd'[w] = rd[w]
  BY <1>1, HeldApart
<1>5. Lone => \A t \in Threads : conns[t] = conns[setup.home[u]] \/ conns[t] = Nothing
  <2>1. setup.kind \in Managers
    BY <1>2 DEF Tended, WordsTended
  <2>2. Lone => Crew = {u}
    BY <1>2 DEF Lone
  <2> QED BY <2>1, <2>2 DEF LostCalm, HomesOnly
<1>6. Separate => job[u].tid = setup.home[u] /\ todo[u][1 + 2] # "sweep"
  <2>1. Separate => job[u].tid = setup.home[u] /\ ~Says(u, "sweep")
    BY <1>2 DEF Tended, WordsTended
  <2>2. 1 + 2 \in 1..Len(todo[u])
    BY <1>2, <1>3
  <2> QED BY <2>1, <2>2 DEF Says
<1>7. CASE conns[setup.home[u]] = Nothing
  <2>1. 1 \in Nat /\ 1 + 1 <= Len(todo[u]) /\ Skip(u, 1)
    BY <1>1, <1>2, <1>3, <1>7
  <2>2. /\ \A k \in 1..4 : \A w : Is(todo'[u], k, w) => Is(todo[u], 1 + 1 + k, w)
        /\ \A v \in Users \ {u} : todo'[v] = todo[v]
        /\ WordsTended(u)' /\ InCtx(u)' = InCtx(u)
    BY <1>1, <2>1, GoesOnWith
  <2>3. \A w : Is(todo'[u], 1, w) => w = todo[u][1 + 2]
    <3>1. \A w : Is(todo'[u], 1, w) => Is(todo[u], 1 + 2, w)
      BY <2>2
    <3> QED BY <3>1 DEF Is
  <2>4. job[u].tid \in Threads /\ conns[job[u].tid] = Nothing
    BY <1>2, <1>5, <1>6, <1>7 DEF Solo
  <2>5. ThreadTended(u)'
    BY <1>1, <1>3, <2>3, <2>4, HeldApart DEF ThreadTended, Replaces
  <2>6. IterTended(u)'
    <3>1. todo[u][1 + 2] = "sweep" => \A t \in Threads : conns[t] = Nothing
      BY <1>5, <1>6, <1>7 DEF Solo
    <3> QED BY <1>1, <1>3, <2>3, <3>1, HeldApart DEF IterTended
  <2>7. AdapterTended(u)'
    BY <1>3, <2>2 DEF AdapterTended
  <2> QED BY <1>1, <1>2, <1>4, <2>2, <2>5, <2>6, <2>7, PlacesStay DEF Tended
<1>8. CASE conns[setup.home[u]] # Nothing
  <2>1. Skip(u, 0) /\ todo[u][0 + 1] = "own"
    BY <1>1, <1>2, <1>8
  <2>2. /\ \A k \in 1..4 : \A w : Is(todo'[u], k, w) => Is(todo[u], 0 + 1 + k, w)
        /\ \A w : Is(todo'[u], 1, w) => Follows(InCtx(u), todo[u][0 + 1], w)
        /\ \A v \in Users \ {u} : todo'[v] = todo[v]
        /\ WordsTended(u)' /\ InCtx(u)' = InCtx(u)
    BY <1>1, <1>2, <2>1, GoesOnWith
  <2>3. (\A w : Is(todo'[u], 1, w) => w = "shut") /\ (\A w : Is(todo'[u], 2, w) => w = todo[u][1 + 2])
    <3>1. \A w : Is(todo'[u], 1, w) => w = "shut"
      BY <2>1, <2>2 DEF Follows
    <3>2. \A w : Is(todo'[u], 2, w) => Is(todo[u], 1 + 2, w)
      BY <2>2
    <3> QED BY <1>3, <3>1, <3>2 DEF Is
  <2>4. job[u].tid \in Threads /\ (conns[job[u].tid] = rd'[u] \/ conns[job[u].tid] = Nothing)
    BY <1>2, <1>4, <1>5, <1>6 DEF Solo
  <2>5. ThreadTended(u)'
    BY <1>1, <2>3, <2>4, HeldApart DEF ThreadTended, Replaces
  <2>6. IterTended(u)'
    <3>1. todo[u][1 + 2] = "sweep" => \A t \in Threads : conns[t] = rd'[u] \/ conns[t] = Nothing
      BY <1>4, <1>5, <1>6 DEF Solo
    <3>2. \A t \in Threads : conns'[t] = conns[t] /\ (conns[t] = Nothing => conns[t] \notin open')
      BY <1>1, HeldApart
    <3> QED BY <1>3, <2>3, <3>1, <3>2 DEF IterTended
  <2>7. AdapterTended(u)'
    BY <1>3, <2>2 DEF AdapterTended
  <2> QED BY <1>1, <1>2, <1>4, <2>2, <2>5, <2>6, <2>7, PlacesStay DEF Tended
<1> QED
  BY <1>7, <1>8

\* A new connection goes to the store, to the adapter or to the caller.
LEMMA ConnectTended ==
  ASSUME CtxInv, Solo, LostCalm, NEW u \in Users, Connect(u), UNCHANGED <<setup, job, attr, pool>>
  PROVE  Tended(u)' /\ NoneLost' /\ PoolStored' /\ HomesOnly'
<1>1. At(u, "connect") /\ UNCHANGED <<conns, walk>> /\ open' = open \cup {made + 1}
      /\ rd' = [rd EXCEPT ![u] = made + 1] /\ Skip(u, 0)
      /\ given' = IF Len(todo[u]) = 1 THEN given \cup {made + 1} ELSE given
  BY DEF Connect, Holds, Go
<1>2. /\ 0 \in Nat /\ 0 + 1 <= Len(todo[u]) /\ todo[u][1] = "connect" /\ todo[u] \in Seq(Words)
      /\ ~Carrying(u) /\ job[u].tid \in Threads /\ Tended(u) /\ \A w : Is(todo[u], 1, w) <=> w = "connect"
  <2>1. At(u, "connect") /\ "connect" # "none" /\ "connect" \notin {"store", "keep_attr", "keep_pool"}
    BY <1>1
  <2> QED BY <2>1, FrontIs
<1>3. rd'[u] = made + 1 /\ \A w \in Users \ {u} : rd'[w] = rd[w]
  BY <1>1, HeldApart
<1>4. /\ \A k \in 1..4 : \A w : Is(todo'[u], k, w) => Is(todo[u], 0 + 1 + k, w)
      /\ \A w : Is(todo'[u], 1, w) => /\ Follows(InCtx(u), todo[u][0 + 1], w)
                                      /\ w \in IF InCtx(u) THEN CtxSteps ELSE StoreSteps
      /\ \A v \in Users \ {u} : todo'[v] = todo[v]
      /\ WordsTended(u)' /\ InCtx(u)' = InCtx(u)
      /\ 0 + 1 < Len(todo[u]) => Is(todo'[u], 1, todo[u][(0 + 1) + 1])
  BY <1>1, <1>2, GoesOnWith
<1>5. \A w : Is(todo'[u], 1, w) => w \in {"store", "keep_attr"}
  BY <1>2, <1>4 DEF Follows
<1>6. \A w : (Is(todo'[u], 1, w) => Is(todo[u], 2, w)) /\ (Is(todo'[u], 2, w) => Is(todo[u], 3, w))
  BY <1>4
<1>7. ThreadTended(u)'
  <2>1. Is(todo'[u], 1, "store") => conns[job[u].tid] \notin open
    BY <1>2, <1>6 DEF Tended, ThreadTended, Replaces
  <2>2. Is(todo'[u], 1, "store") => conns'[job[u].tid] \notin open'
    BY <1>1, <1>2, <2>1, HeldApart
  <2> QED BY <1>5, <2>2 DEF ThreadTended, Replaces
<1>8. IterTended(u)'
  BY <1>5 DEF IterTended
<1>9. AdapterTended(u)'
  <2>1. InCtx(u) /\ Soon(u)' => Soon(u)
    BY <1>2, <1>5, <1>6 DEF Soon
  <2> QED BY <1>2, <1>4, <1>5, <2>1 DEF Tended, AdapterTended
<1>10. NoneLost'
  <2>1. ASSUME NEW c \in open', c = made + 1
        PROVE  Kept(c)' \/ Carried(c)'
    <3>1. CASE Len(todo[u]) = 1
      BY <1>1, <2>1, <3>1 DEF Kept
    <3>2. CASE Len(todo[u]) # 1
      <4>1. 0 + 1 < Len(todo[u])
        <5>1. \A n \in Nat : 0 + 1 <= n /\ n # 1 => 0 + 1 < n
          OBVIOUS
        <5>2. Len(todo[u]) \in Nat
          BY <1>2
        <5> QED BY <1>2, <3>2, <5>1, <5>2
      <4>2. Carrying(u)'
        BY <1>4, <1>5, <4>1 DEF Carrying
      <4> QED BY <1>3, <2>1, <4>2 DEF Carried
    <3> QED BY <3>1, <3>2
  <2>2. \A c : Kept(c) => Kept(c)'
    BY <1>1 DEF Kept
  <2>3. \A c \in open' : c \in open \/ Kept(c)' \/ Carried(c)'
    BY <1>1, <2>1
  <2> QED BY <1>2, <1>3, <1>4, <2>2, <2>3, StillKept
<1>11. PoolStored'
  BY <1>1, HeldApart DEF LostCalm, PoolStored
<1>12. HomesOnly'
  BY <1>1 DEF LostCalm, HomesOnly, Crew
<1> QED
  BY <1>4, <1>7, <1>8, <1>9, <1>10, <1>11, <1>12 DEF Tended

\* A call fails: it had nothing in its hands.
LEMMA RaiseTended ==
  ASSUME CtxInv, LostCalm, NEW u \in Users, Raise(u), ~Carrying(u), UNCHANGED <<setup, conns, given, attr, pool, rd>>,
         open' \subseteq open
  PROVE  Tended(u)' /\ NoneLost' /\ PoolStored' /\ HomesOnly'
<1>1. todo' = [todo EXCEPT ![u] = <<>>]
  BY DEF Raise
<1>2. todo'[u] = <<>> /\ \A w \in Users \ {u} : todo'[w] = todo[w]
  BY <1>1, HeldApart
<1> QED
  BY <1>2, EndedTended, PlacesStay

\* What was in the thread's store is open no more when it is replaced.
LEMMA EntryChanges ==
  ASSUME CtxInv, LostCalm, NEW u \in Users, NEW t \in Threads, NEW c, conns' = [conns EXCEPT ![t] = c],
         conns[t] \notin open, UNCHANGED <<setup, given, attr, pool, open, rd>>,
         \A w \in Users \ {u} : todo'[w] = todo[w],
         Carrying(u) => c = rd[u],
         setup.kind \in Managers /\ c # Nothing => u \in Crew /\ t = setup.home[u]
  PROVE  NoneLost' /\ PoolStored' /\ HomesOnly'
<1>1. conns'[t] = c /\ \A s \in Threads : s # t => conns'[s] = conns[s]
  BY HeldApart
<1>2. \A d \in open : Kept(d) => Kept(d)'
  BY <1>1 DEF Kept
<1>3. Carrying(u) => \A d : rd[u] = d => Kept(d)'
  BY <1>1 DEF Kept
<1>4. NoneLost'
  BY <1>2, <1>3, StillKept
<1>5. PoolStored'
  <2> SUFFICES ASSUME NEW a \in Adapters, pool[a] \in open
               PROVE  \E s \in Threads : conns'[s] = pool[a]
    BY DEF PoolStored
  <2>1. PICK s \in Threads : conns[s] = pool[a]
    BY DEF LostCalm, PoolStored
  <2>2. s # t
    BY <2>1
  <2> QED BY <1>1, <2>1, <2>2
<1>6. HomesOnly'
  <2> SUFFICES ASSUME setup.kind \in Managers, NEW s \in Threads, conns'[s] # Nothing
               PROVE  \E v \in Crew : s = setup.home[v]
    BY DEF HomesOnly, Crew
  <2>1. CASE s = t
    BY <1>1, <2>1
  <2>2. CASE s # t
    BY <1>1, <2>2 DEF LostCalm, HomesOnly
  <2> QED BY <2>1, <2>2
<1> QED
  BY <1>4, <1>5, <1>6

\* A connection is stored.
LEMMA StoreTended ==
  ASSUME CtxInv, Solo, LostCalm, NEW u \in Users, Store(u), UNCHANGED <<setup, job, attr, pool>>
  PROVE  Tended(u)' /\ NoneLost' /\ PoolStored' /\ HomesOnly'
<1>1. At(u, "store") /\ UNCHANGED <<open, given, rd, walk>> /\ conns' = [conns EXCEPT ![job[u].tid] = rd[u]]
      /\ Skip(u, 0)
  BY DEF Store, Go
<1>2. /\ 0 \in Nat /\ 0 + 1 <= Len(todo[u]) /\ todo[u][1] = "store" /\ u \in Crew
      /\ job[u].tid \in Threads /\ Tended(u) /\ (\A w : Is(todo[u], 1, w) <=> w = "store") /\ Says(u, "store")
  BY <1>1, FrontIs
<1>3. /\ \A k \in 1..4 : \A w : Is(todo'[u], k, w) => Is(todo[u], 0 + 1 + k, w)
      /\ \A w : Is(todo'[u], 1, w) => Follows(InCtx(u), todo[u][0 + 1], w)
      /\ \A v \in Users \ {u} : todo'[v] = todo[v]
      /\ WordsTended(u)' /\ InCtx(u)' = InCtx(u)
  BY <1>1, <1>2, GoesOnWith
<1>4. \A w : Is(todo'[u], 1, w) => w \in {"keep_attr", "keep_pool"} /\ Is(todo[u], 2, w)
  BY <1>2, <1>3 DEF Follows
<1>5. ThreadTended(u)' /\ IterTended(u)'
  BY <1>4 DEF ThreadTended, Replaces, IterTended
<1>6. AdapterTended(u)'
  <2>1. conns'[job[u].tid] = rd'[u]
    BY <1>1, <1>2, HeldApart
  <2>2. InCtx(u) /\ Soon(u)' => Soon(u)
    BY <1>2, <1>4 DEF Soon
  <2> QED BY <1>1, <1>2, <1>3, <1>4, <2>1, <2>2 DEF Tended, AdapterTended
<1>7. conns[job[u].tid] \notin open /\ (setup.kind \in Managers => job[u].tid = setup.home[u])
  BY <1>2 DEF Tended, WordsTended, ThreadTended, Replaces
<1>8. NoneLost' /\ PoolStored' /\ HomesOnly'
  BY <1>1, <1>2, <1>3, <1>7, EntryChanges
<1> QED
  BY <1>3, <1>5, <1>6, <1>8 DEF Tended

\* The coroutine is stored, and only the call's own connect is left.
LEMMA PromiseTended ==
  ASSUME CtxInv, Solo, LostCalm, NEW u \in Users, Promise(u), UNCHANGED <<setup, job, attr, pool>>
  PROVE  Tended(u)' /\ NoneLost' /\ PoolStored' /\ HomesOnly'
<1>1. At(u, "promise") /\ UNCHANGED <<open, given, rd, walk>> /\ conns' = [conns EXCEPT ![job[u].tid] = Coroutine]
      /\ Skip(u, 0)
  BY DEF Promise, Go
<1>2. /\ 0 \in Nat /\ 0 + 1 <= Len(todo[u]) /\ todo[u][1] = "promise" /\ u \in Crew
      /\ job[u].tid \in Threads /\ Tended(u) /\ (\A w : Is(todo[u], 1, w) <=> w = "promise") /\ Says(u, "promise")
      /\ ~Carrying(u) /\ Fits(setup.kind, InCtx(u), todo[u], 1)
  <2>1. At(u, "promise") /\ "promise" # "none" /\ "promise" \notin {"store", "keep_attr", "keep_pool"}
    BY <1>1
  <2> QED BY <2>1, FrontIs
<1>3. /\ \A k \in 1..4 : \A w : Is(todo'[u], k, w) => Is(todo[u], 0 + 1 + k, w)
      /\ \A w : Is(todo'[u], 1, w) => Follows(InCtx(u), todo[u][0 + 1], w)
      /\ \A v \in Users \ {u} : todo'[v] = todo[v]
      /\ WordsTended(u)' /\ InCtx(u)' = InCtx(u)
  BY <1>1, <1>2, GoesOnWith
<1>4. Len(todo[u]) = 1 + 1 /\ ~InCtx(u)
  BY <1>2 DEF Fits, CtxSteps
<1>5. (\A w : Is(todo'[u], 1, w) => w = "connect") /\ (\A w : ~Is(todo'[u], 2, w))
  <2>1. \A w : Is(todo'[u], 1, w) => w = "connect"
    BY <1>2, <1>3 DEF Follows
  <2>2. \A w : Is(todo'[u], 2, w) => Is(todo[u], 3, w)
    BY <1>3
  <2> QED BY <1>4, <2>1, <2>2 DEF Is
<1>6. ThreadTended(u)' /\ IterTended(u)' /\ AdapterTended(u)'
  BY <1>3, <1>4, <1>5 DEF ThreadTended, Replaces, IterTended, AdapterTended
<1>7. conns[job[u].tid] \notin open /\ setup.kind \notin Managers
  BY <1>2 DEF Tended, WordsTended, ThreadTended, Replaces
<1>8. NoneLost' /\ PoolStored' /\ HomesOnly'
  BY <1>1, <1>2, <1>3, <1>7, EntryChanges
<1> QED
  BY <1>3, <1>6, <1>8 DEF Tended

\* The entry is deleted.
LEMMA DeleteTended ==
  ASSUME CtxInv, Solo, LostCalm, NEW u \in Users, Delete(u), UNCHANGED <<setup, job, attr, pool>>
  PROVE  Tended(u)' /\ NoneLost' /\ PoolStored' /\ HomesOnly'
<1>1. At(u, "delete") /\ UNCHANGED <<open, given, rd, walk>> /\ conns' = [conns EXCEPT ![job[u].tid] = Nothing]
      /\ Skip(u, 0)
  BY DEF Delete, Go
<1>2. /\ 0 \in Nat /\ 0 + 1 <= Len(todo[u]) /\ todo[u][1] = "delete"
      /\ job[u].tid \in Threads /\ Tended(u) /\ (\A w : Is(todo[u], 1, w) <=> w = "delete") /\ ~Carrying(u)
  <2>1. At(u, "delete") /\ "delete" # "none" /\ "delete" \notin {"store", "keep_attr", "keep_pool"}
    BY <1>1
  <2> QED BY <2>1, FrontIs
<1>3. /\ \A w : Is(todo'[u], 1, w) => /\ Follows(InCtx(u), todo[u][0 + 1], w)
                                      /\ w \in IF InCtx(u) THEN CtxSteps ELSE StoreSteps
      /\ \A v \in Users \ {u} : todo'[v] = todo[v]
      /\ WordsTended(u)' /\ InCtx(u)' = InCtx(u)
  BY <1>1, <1>2, GoesOnWith
<1>4. conns[job[u].tid] \notin open
  BY <1>2 DEF Tended, ThreadTended, Replaces
<1>5. conns'[job[u].tid] \notin open'
  BY <1>1, <1>2, HeldApart
<1>6. ThreadTended(u)' /\ AdapterTended(u)' /\ IterTended(u)'
  BY <1>2, <1>3, <1>5, AfterDelete
<1>7. NoneLost' /\ PoolStored' /\ HomesOnly'
  BY <1>1, <1>2, <1>3, <1>4, EntryChanges
<1> QED
  BY <1>3, <1>6, <1>7 DEF Tended

\* A connection is closed: what the step behind it gives up is that connection, or closed before.
LEMMA ShutTended ==
  ASSUME CtxInv, Solo, LostCalm, NEW u \in Users, Shut(u), UNCHANGED <<setup, job, attr, pool>>
  PROVE  Tended(u)' /\ NoneLost' /\ PoolStored' /\ HomesOnly'
<1>1. At(u, "shut") /\ UNCHANGED <<order, conns, given, rd>> /\ open' = open \ {rd[u]}
      /\ (Raise(u) \/ (UNCHANGED walk /\ Skip(u, 0)))
  BY DEF Shut, Go
<1>2. /\ 0 \in Nat /\ 0 + 1 <= Len(todo[u]) /\ todo[u][1] = "shut"
      /\ Tended(u) /\ (\A w : Is(todo[u], 1, w) <=> w = "shut") /\ ~Carrying(u) /\ job[u].tid \in Threads
  <2>1. At(u, "shut") /\ "shut" # "none" /\ "shut" \notin {"store", "keep_attr", "keep_pool"}
    BY <1>1
  <2> QED BY <2>1, FrontIs
<1>3. CASE Raise(u)
  BY <1>1, <1>2, <1>3, RaiseTended
<1>4. CASE UNCHANGED walk /\ Skip(u, 0)
  <2>1. /\ \A k \in 1..4 : \A w : Is(todo'[u], k, w) => Is(todo[u], 0 + 1 + k, w)
        /\ \A w : Is(todo'[u], 1, w) => Follows(InCtx(u), todo[u][0 + 1], w)
        /\ \A v \in Users \ {u} : todo'[v] = todo[v]
        /\ WordsTended(u)' /\ InCtx(u)' = InCtx(u)
    BY <1>1, <1>2, <1>4, GoesOnWith
  <2>2. \A w : Is(todo'[u], 1, w) => w \in {"delete", "walk", "sweep"} /\ Is(todo[u], 2, w)
    BY <1>2, <2>1 DEF Follows
  <2>3. ThreadTended(u)'
    <3>1. Is(todo[u], 2, "delete") => conns[job[u].tid] = rd[u] \/ conns[job[u].tid] \notin open
      BY <1>2 DEF Tended, ThreadTended
    <3> QED BY <1>1, <2>2, <3>1 DEF ThreadTended, Replaces
  <2>4. AdapterTended(u)'
    BY <2>2 DEF AdapterTended, Soon
  <2>5. IterTended(u)'
    <3>1. Is(todo[u], 2, "sweep") => \A t \in Threads : conns[t] = rd[u] \/ conns[t] \notin open
      BY <1>2 DEF Tended, IterTended
    <3>2. Is(todo[u], 2, "walk") => \A t \in Threads : Passed(u, t) => conns[t] = rd[u] \/ conns[t] \notin open
      BY <1>2 DEF Tended, IterTended
    <3>3. \A t : Passed(u, t)' <=> Passed(u, t)
      BY <1>1, <1>4 DEF Passed, Place, Keys
    <3> QED BY <1>1, <2>2, <3>1, <3>2, <3>3 DEF IterTended
  <2>6. NoneLost' /\ PoolStored' /\ HomesOnly'
    BY <1>1, <1>2, <2>1, PlacesStay
  <2> QED BY <2>1, <2>3, <2>4, <2>5, <2>6 DEF Tended
<1> QED
  BY <1>1, <1>3, <1>4

\* A thread that is not between the place of an iteration and the next entry has been passed, or has nothing.
LEMMA NotAhead ==
  ASSUME CtxInv, NEW u \in Users, NEW t \in Threads, conns[t] # Nothing
  PROVE  Passed(u, t) \/ \E j \in Ahead(Place(u).at) : order[j] = t
<1>1. order \in Seq(Threads \cup {Nothing}) /\ t \in Keys /\ t # Nothing
  BY StoreAssumption DEF CtxInv, KeyTypes, StoreAssumption
<1>2. PICK j \in 1..Len(order) : order[j] = t
  BY <1>1 DEF Keys
<1>3. Place(u).at \in Nat \ {0} /\ Len(order) \in Nat
  BY <1>1, PlaceIs
<1>4. CASE j < Place(u).at
  BY <1>2, <1>4 DEF Passed
<1>5. CASE ~(j < Place(u).at)
  <2>1. j \in Place(u).at..Len(order)
    BY <1>2, <1>3, <1>5
  <2> QED BY <1>1, <1>2, <2>1 DEF Ahead
<1> QED
  BY <1>4, <1>5

\* close_all: the stores it has passed hold nothing open, and with none ahead none does.
LEMMA WalkTended ==
  ASSUME CtxInv, Solo, LostCalm, NEW u \in Users, Walk(u), UNCHANGED <<setup, job, attr, pool>>
  PROVE  Tended(u)' /\ NoneLost' /\ PoolStored' /\ HomesOnly'
<1>1. At(u, "walk") /\ UNCHANGED <<order, open, given, conns>>
  BY DEF Walk, IterationEnds
<1>2. /\ 0 \in Nat /\ 0 + 1 <= Len(todo[u]) /\ todo[u][1] = "walk" /\ todo[u] \in Seq(Words)
      /\ Tended(u) /\ (\A w : Is(todo[u], 1, w) <=> w = "walk") /\ ~Carrying(u) /\ job[u].tid \in Threads
      /\ Fits(setup.kind, InCtx(u), todo[u], 1) /\ todo[u] # <<>>
  <2>1. At(u, "walk") /\ "walk" # "none" /\ "walk" \notin {"store", "keep_attr", "keep_pool"}
    BY <1>1
  <2> QED BY <2>1, FrontIs
<1>3. ~InCtx(u) /\ \A t \in Threads : Passed(u, t) => conns[t] \notin open
  <2>1. ~InCtx(u)
    BY <1>2 DEF Fits, CtxSteps
  <2> QED BY <1>2, <2>1 DEF Tended, IterTended
<1>4. CASE IterationEnds(u)
  <2>1. rd' = rd
    BY <1>4 DEF IterationEnds
  <2>2. CASE Raise(u)
    BY <1>1, <1>2, <2>1, <2>2, RaiseTended
  <2>3. CASE Ahead(Place(u).at) = {} /\ Skip(u, 0)
    <3>1. /\ \A w : Is(todo'[u], 1, w) => Follows(InCtx(u), todo[u][0 + 1], w)
          /\ \A v \in Users \ {u} : todo'[v] = todo[v]
          /\ WordsTended(u)' /\ InCtx(u)' = InCtx(u)
      BY <1>1, <1>2, <2>3, GoesOnWith
    <3>2. \A w : Is(todo'[u], 1, w) => w = "sweep"
      BY <1>2, <3>1 DEF Follows
    <3>3. \A t \in Threads : conns[t] \notin open
      BY <1>3, <2>3, NotAhead, HeldApart
    <3>4. ThreadTended(u)' /\ AdapterTended(u)' /\ IterTended(u)'
      BY <1>1, <3>2, <3>3 DEF ThreadTended, Replaces, AdapterTended, Soon, IterTended
    <3>5. NoneLost' /\ PoolStored' /\ HomesOnly'
      BY <1>1, <1>2, <2>1, <3>1, PlacesStay
    <3> QED BY <3>1, <3>4, <3>5 DEF Tended
  <2> QED BY <1>4, <2>2, <2>3 DEF IterationEnds, Go
<1>5. CASE NextEntry(u) /\ Holds(u, conns[order[Visited(u)]]) /\ Continue(u, <<"shut">> \o todo[u])
  <2>1. PICK s \in Seq(Words) : s = <<"shut">> \o todo[u]
    <3>1. "shut" \in Words
      BY DEF Words, StoreSteps
    <3>2. todo[u] \in Seq(Words)
      BY <1>2
    <3>3. <<"shut">> \o todo[u] \in Seq(Words)
      BY <3>1, <3>2
    <3> QED BY <3>3
  <2>2. /\ \A w : Is(s, 1, w) => w = "shut"
        /\ \A w : Is(s, 2, w) => w = "walk"
        /\ \A i \in 1..Len(s) : s[i] = "shut" \/ \E j \in 1..Len(todo[u]) : s[i] = todo[u][j]
    <3>1. Len(s) = 1 + Len(todo[u]) /\ s[1] = "shut" /\ \A i \in 1..Len(todo[u]) : s[1 + i] = todo[u][i]
      BY <1>2, <2>1
    <3>2. s[2] = "walk"
      <4>1. 1 \in 1..Len(todo[u]) /\ 1 + 1 = 2
        BY <1>2
      <4>2. s[1 + 1] = todo[u][1]
        BY <3>1, <4>1
      <4> QED BY <1>2, <4>1, <4>2
    <3>3. \A i \in 1..Len(s) : i = 1 \/ \E j \in 1..Len(todo[u]) : i = 1 + j
      <4> TAKE i \in 1..Len(s)
      <4>1. Len(todo[u]) \in Nat
        BY <1>2
      <4>2. i = 1 \/ (i - 1 \in 1..Len(todo[u]) /\ i = 1 + (i - 1))
        BY <3>1, <4>1
      <4> QED BY <4>2
    <3> QED BY <3>1, <3>2, <3>3 DEF Is
  <2>3. todo' = [todo EXCEPT ![u] = s] /\ rd' = [rd EXCEPT ![u] = conns[order[Visited(u)]]]
        /\ walk' = [walk EXCEPT ![u] = [at |-> Visited(u) + 1, size |-> Place(u).size]] /\ Ahead(Place(u).at) # {}
    BY <1>5, <2>1 DEF Continue, Proceed, Holds, NextEntry
  <2>4. /\ todo'[u] = s /\ rd'[u] = conns[order[Visited(u)]]
        /\ walk'[u] = [at |-> Visited(u) + 1, size |-> Place(u).size]
        /\ \A w \in Users \ {u} : todo'[w] = todo[w] /\ rd'[w] = rd[w]
    BY <2>3, HeldApart
  <2>5. /\ Place(u).at \in Nat \ {0} /\ Visited(u) \in Nat \ {0} /\ order[Visited(u)] \in Threads
        /\ \A j \in Ahead(Place(u).at) : Visited(u) <= j
    BY <2>3, PlaceIs, NextIs DEF Visited
  <2>6. \A t \in Threads : Passed(u, t)' => conns[t] = rd'[u] \/ conns[t] \notin open
    <3> SUFFICES ASSUME NEW t \in Threads, Passed(u, t)', conns[t] # Nothing
                 PROVE  conns[t] = rd'[u] \/ conns[t] \notin open
      BY HeldApart
    <3>1. PICK j \in 1..Len(order) : j < Place(u).at' /\ order[j] = t
      BY <1>1 DEF Passed
    <3>2. j < Visited(u) + 1
      <4>1. Place(u).at' = Visited(u) + 1 \/ Place(u).at' = 1
        BY <2>4 DEF Place
      <4> QED BY <2>5, <3>1, <4>1
    <3>3. CASE j = Visited(u)
      BY <2>4, <3>1, <3>3
    <3>4. CASE j < Visited(u)
      <4>1. j \notin Ahead(Place(u).at)
        BY <2>5, <3>1, <3>4
      <4>2. ~(j \in Place(u).at..Len(order))
        BY <3>1, <4>1, StoreAssumption DEF Ahead, StoreAssumption
      <4>3. j < Place(u).at
        BY <2>5, <3>1, <4>2
      <4> QED BY <1>3, <3>1, <4>3 DEF Passed
    <3> QED BY <2>5, <3>1, <3>2, <3>3, <3>4
  <2>7. WordsTended(u)'
    <3>1. \A w : Says(u, w)' => w = "shut" \/ Says(u, w)
      BY <2>2, <2>4 DEF Says
    <3>2. InCtx(u)' = InCtx(u) /\ Separate' = Separate
      BY DEF InCtx, Separate, Crew, Does
    <3> QED BY <1>2, <3>1, <3>2 DEF Tended, WordsTended
  <2>8. ThreadTended(u)' /\ AdapterTended(u)'
    BY <2>2, <2>4 DEF ThreadTended, Replaces, AdapterTended, Soon
  <2>9. IterTended(u)'
    BY <1>1, <2>2, <2>4, <2>6 DEF IterTended
  <2>10. NoneLost' /\ PoolStored' /\ HomesOnly'
    BY <1>1, <1>2, <2>4, PlacesStay
  <2> QED BY <2>7, <2>8, <2>9, <2>10 DEF Tended
<1> QED
  BY <1>4, <1>5 DEF Walk

\* clean_threadstore of a name in all threads, behind the close of the last: nothing there is open.
LEMMA SweepTended ==
  ASSUME CtxInv, Solo, LostCalm, NEW u \in Users, Sweep(u), UNCHANGED <<setup, job, attr, pool>>
  PROVE  Tended(u)' /\ NoneLost' /\ PoolStored' /\ HomesOnly'
<1>1. At(u, "sweep") /\ UNCHANGED <<order, made, open, given>> /\ Clears(u)
  BY DEF Sweep
<1>2. /\ 0 \in Nat /\ 0 + 1 <= Len(todo[u]) /\ todo[u][1] = "sweep"
      /\ Tended(u) /\ (\A w : Is(todo[u], 1, w) <=> w = "sweep") /\ ~Carrying(u) /\ job[u].tid \in Threads
  <2>1. At(u, "sweep") /\ "sweep" # "none" /\ "sweep" \notin {"store", "keep_attr", "keep_pool"}
    BY <1>1
  <2> QED BY <2>1, FrontIs
<1>3. \A t \in Threads : conns[t] \notin open
  BY <1>2 DEF Tended, IterTended
<1>4. CASE IterationEnds(u)
  <2>1. rd' = rd /\ conns' = conns
    BY <1>4 DEF IterationEnds
  <2>2. CASE Raise(u)
    BY <1>1, <1>2, <2>1, <2>2, RaiseTended
  <2>3. CASE Skip(u, 0)
    <3>1. /\ \A w : Is(todo'[u], 1, w) => Follows(InCtx(u), todo[u][0 + 1], w)
          /\ \A v \in Users \ {u} : todo'[v] = todo[v]
          /\ WordsTended(u)' /\ InCtx(u)' = InCtx(u)
      BY <1>1, <1>2, <2>3, GoesOnWith
    <3>2. \A w : ~Is(todo'[u], 1, w)
      BY <1>2, <3>1 DEF Follows, Ends
    <3>3. ThreadTended(u)' /\ AdapterTended(u)' /\ IterTended(u)'
      BY <3>2, Quiet
    <3>4. NoneLost' /\ PoolStored' /\ HomesOnly'
      BY <1>1, <1>2, <2>1, <3>1, PlacesStay
    <3> QED BY <3>1, <3>3, <3>4 DEF Tended
  <2> QED BY <1>4, <2>2, <2>3 DEF IterationEnds, Go
<1>5. CASE /\ NextEntry(u) /\ rd' = rd /\ Continue(u, todo[u])
           /\ conns' = [conns EXCEPT ![order[Visited(u)]] = Nothing]
  <2>1. todo' = [todo EXCEPT ![u] = todo[u]] /\ order[Visited(u)] \in Threads
    BY <1>5, NextTypes DEF Continue, Proceed
  <2>2. \A v \in Users : todo'[v] = todo[v]
    BY <2>1, HeldApart
  <2>3. \A t \in Threads : conns'[t] \notin open'
    BY <1>1, <1>3, <1>5, <2>1, HeldApart
  <2>4. WordsTended(u)'
    <3>1. InCtx(u)' = InCtx(u) /\ Separate' = Separate /\ \A w : Says(u, w)' <=> Says(u, w)
      BY <2>2 DEF InCtx, Separate, Crew, Does, Says
    <3> QED BY <1>2, <2>2, <3>1 DEF Tended, WordsTended
  <2>5. \A w : Is(todo'[u], 1, w) => w = "sweep"
    BY <1>2, <2>2
  <2>6. ThreadTended(u)' /\ AdapterTended(u)' /\ IterTended(u)'
    BY <2>3, <2>5 DEF ThreadTended, Replaces, AdapterTended, Soon, IterTended
  <2>7. NoneLost' /\ PoolStored' /\ HomesOnly'
    BY <1>1, <1>2, <1>3, <1>5, <2>1, <2>2, EntryChanges
  <2> QED BY <2>4, <2>6, <2>7 DEF Tended
<1> QED
  BY <1>1, <1>4, <1>5 DEF Clears

\* Connecting fails, and the call with it.
LEMMA FailTended ==
  ASSUME CtxInv, Solo, LostCalm, NEW u \in Users, ConnectFails(u), UNCHANGED <<setup, job, attr, pool>>
  PROVE  Tended(u)' /\ NoneLost' /\ PoolStored' /\ HomesOnly'
<1>1. At(u, "connect") /\ Raise(u) /\ UNCHANGED <<order, conns, made, open, given, rd>>
  BY DEF ConnectFails, storeVars
<1>2. ~Carrying(u)
  <2>1. At(u, "connect") /\ "connect" # "none" /\ "connect" \notin {"store", "keep_attr", "keep_pool"}
    BY <1>1
  <2> QED BY <2>1, FrontIs
<1> QED
  BY <1>1, <1>2, RaiseTended

\* Nobody drops a thread's store or everything.
LEMMA NothingDropped ==
  ASSUME CtxInv, LostCalm, NEW u \in Users
  PROVE  ~DropThread(u) /\ ~Purge(u)
<1>1. ASSUME NEW h \in {"drop", "purge"}, At(u, h)
      PROVE  FALSE
  <2>1. Says(u, h) /\ Tended(u)
    BY <1>1, FrontIs
  <2> QED BY <2>1 DEF Tended, WordsTended
<1> QED
  BY <1>1 DEF DropThread, Purge

\* What a step of the store touches beside its caller: the store of the thread it was asked for.
LEMMA StoreTouches ==
  ASSUME CtxInv, Solo, LostCalm, NEW u \in Users, StoreStepHere(u)
  PROVE  /\ u \in Crew /\ setup' = setup /\ job' = job /\ attr' = attr /\ pool' = pool /\ adapters' = adapters
         /\ \A w \in Users \ {u} : todo'[w] = todo[w] /\ rd'[w] = rd[w]
         /\ Separate => /\ open' \subseteq open \cup {made + 1}
                        /\ \A t \in Threads : t # setup.home[u] => conns'[t] = conns[t]
<1>1. setup' = setup /\ job' = job /\ attr' = attr /\ pool' = pool /\ adapters' = adapters
  BY DEF StoreStepHere, StoreStep
<1>2. \/ Lookup(u) \/ Connect(u) \/ ConnectFails(u) \/ Store(u) \/ Promise(u) \/ Seek(u)
      \/ Own(u) \/ Shut(u) \/ Delete(u) \/ Walk(u) \/ Sweep(u)
  BY NothingDropped DEF StoreStepHere, StoreStep
<1>3. PICK h \in {"lookup", "connect", "store", "promise", "seek", "own", "shut", "delete", "walk", "sweep"} : At(u, h)
  BY <1>2 DEF Lookup, Connect, ConnectFails, Store, Promise, Seek, Own, Shut, Delete, Walk, Sweep
<1>4. u \in Crew /\ Tended(u) /\ Says(u, h) /\ todo[u] # <<>>
  BY <1>3, FrontIs
<1>5. \A w \in Users \ {u} : todo'[w] = todo[w] /\ rd'[w] = rd[w]
  <2>1. \A w \in Users \ {u} : todo'[w] = todo[w]
    BY <1>2, HeldApart DEF Lookup, Connect, ConnectFails, Store, Promise, Seek, Own, Shut, Delete, Walk, Sweep,
       Clears, IterationEnds, Go, Skip, Continue, Proceed, Raise
  <2>2. \A w \in Users \ {u} : rd'[w] = rd[w]
    BY <1>2, HeldApart DEF Lookup, Connect, ConnectFails, Store, Promise, Seek, Own, Shut, Delete, Walk, Sweep,
       Clears, IterationEnds, Holds
  <2> QED BY <2>1, <2>2
<1>6. ASSUME Separate
      PROVE  /\ open' \subseteq open \cup {made + 1}
             /\ \A t \in Threads : t # setup.home[u] => conns'[t] = conns[t]
  <2>1. job[u].tid = setup.home[u] /\ ~Says(u, "walk") /\ ~Says(u, "sweep")
    BY <1>4, <1>6 DEF Tended, WordsTended
  <2>2. ~Walk(u) /\ ~Sweep(u)
    <3>1. ASSUME NEW w \in {"walk", "sweep"}, At(u, w)
          PROVE  FALSE
      <4>1. Says(u, w)
        BY <3>1, FrontIs
      <4> QED BY <2>1, <4>1
    <3> QED BY <3>1 DEF Walk, Sweep
  <2>3. open' \subseteq open \cup {made + 1}
    BY <1>2, <2>2 DEF Lookup, Connect, ConnectFails, Store, Promise, Seek, Own, Shut, Delete, storeVars
  <2>4. conns' = conns \/ \E c : conns' = [conns EXCEPT ![job[u].tid] = c]
    BY <1>2, <2>2 DEF Lookup, Connect, ConnectFails, Store, Promise, Seek, Own, Shut, Delete, storeVars
  <2> QED BY <2>1, <2>3, <2>4, HeldApart
<1> QED
  BY <1>1, <1>4, <1>5, <1>6

\* A step of the store loses nothing.
LEMMA LostStore ==
  ASSUME CtxInv, Solo, LostCalm, NEW u \in Users, StoreStepHere(u)
  PROVE  LostCalm'
<1>1. /\ \/ Lookup(u) \/ Connect(u) \/ ConnectFails(u) \/ Store(u) \/ Promise(u) \/ Seek(u)
         \/ Own(u) \/ Shut(u) \/ Delete(u) \/ Walk(u) \/ Sweep(u)
      /\ UNCHANGED <<setup, job, attr, pool, adapters>>
  BY NothingDropped DEF StoreStepHere, StoreStep
<1>2. Tended(u)' /\ NoneLost' /\ PoolStored' /\ HomesOnly'
  BY <1>1, LookupTended, ConnectTended, FailTended, StoreTended, PromiseTended, SeekTended, OwnTended, ShutTended,
     DeleteTended, WalkTended, SweepTended
<1>3. \A w \in Users : w # u => Tended(w)'
  BY StoreTouches, OthersTended
<1>4. Unmade'
  BY <1>1 DEF LostCalm, Unmade
<1> QED
  BY <1>2, <1>3, <1>4 DEF LostCalm

-----------------------------------------------------------------------------
\* A call goes on with a step of which nothing more is asked.
LEMMA QuietOn ==
  ASSUME CtxInv, LostCalm, NEW u \in Users, NEW h, At(u, h), h # "none", NEW n \in Nat, n + 1 <= Len(todo[u]), Skip(u, n),
         setup' = setup, job'[u].op = job[u].op, job'[u].tid = job[u].tid,
         \A w : Follows(InCtx(u), todo[u][n + 1], w) => w \notin Demanding
  PROVE  Tended(u)' /\ \A v \in Users \ {u} : todo'[v] = todo[v]
<1>1. /\ \A w : Is(todo'[u], 1, w) => Follows(InCtx(u), todo[u][n + 1], w)
      /\ \A v \in Users \ {u} : todo'[v] = todo[v]
      /\ WordsTended(u)'
  BY GoesOnWith
<1>2. \A w : Is(todo'[u], 1, w) => w \notin Demanding
  BY <1>1
<1> QED
  BY <1>1, <1>2, Quiet DEF Tended

\* The steps of an adapter are taken by a caller who is alone.
LEMMA AdapterFront ==
  ASSUME CtxInv, Solo, LostCalm, NEW u \in Users, NEW h, At(u, h), h # "none", h \notin StoreSteps \cup Searches
  PROVE  /\ u \in Crew /\ ~Separate /\ InCtx(u) /\ job[u].on \in Adapters /\ job[u].on <= adapters
         /\ 0 \in Nat /\ 0 + 1 <= Len(todo[u]) /\ todo[u][1] = h /\ Fits(setup.kind, InCtx(u), todo[u], 1)
         /\ job[u].tid \in Threads /\ Tended(u) /\ \A w : Is(todo[u], 1, w) <=> w = h
<1>1. InCtx(u) /\ job[u].on \in Adapters /\ job[u].on \in Valid
  BY OnIs
<1>2. /\ u \in Crew /\ 0 \in Nat /\ 0 + 1 <= Len(todo[u]) /\ todo[u][1] = h /\ Fits(setup.kind, InCtx(u), todo[u], 1)
      /\ job[u].tid \in Threads /\ Tended(u) /\ (\A w : Is(todo[u], 1, w) <=> w = h) /\ todo[u] # <<>>
  BY FrontIs
<1>3. ~Separate
  BY <1>1, <1>2 DEF Tended, WordsTended
<1>4. job[u].on <= adapters
  BY <1>1 DEF Valid, CtxInv, AdapterTypes, Adapters
<1> QED
  BY <1>1, <1>2, <1>3, <1>4

\* An adapter's connection is looked for.
LEMMA HaveTended ==
  ASSUME CtxInv, Solo, LostCalm, NEW u \in Users, HaveAttr(u),
         UNCHANGED <<setup, order, conns, made, open, given, job, walk, pool>>
  PROVE  Tended(u)' /\ NoneLost' /\ PoolStored' /\ HomesOnly' /\ \A v \in Users \ {u} : todo'[v] = todo[v] /\ rd'[v] = rd[v]
<1>1. At(u, "have_attr") /\ UNCHANGED attr /\ rd' = [rd EXCEPT ![u] = attr[job[u].on]]
      /\ IF attr[job[u].on] = Nothing THEN Skip(u, 0) ELSE Skip(u, IF setup.kind = "redis" THEN 4 ELSE 2)
  BY DEF HaveAttr, Holds, Go, On
<1>2. /\ 0 \in Nat /\ 0 + 1 <= Len(todo[u]) /\ todo[u][1] = "have_attr" /\ Fits(setup.kind, InCtx(u), todo[u], 1)
      /\ ~Carrying(u)
  <2>1. At(u, "have_attr") /\ "have_attr" # "none" /\ "have_attr" \notin {"store", "keep_attr", "keep_pool"}
    BY <1>1
  <2> QED BY <2>1, FrontIs
<1>3. \A v \in Users \ {u} : rd'[v] = rd[v]
  BY <1>1, HeldApart
<1>4. IF setup.kind = "redis" THEN Gain(todo[u], 1, "keep_attr")
      ELSE Pair(todo[u], 1, IF setup.kind = "aioredis" THEN "await_pool" ELSE "connect", "keep_attr")
  BY <1>2 DEF Fits
<1>5. CASE attr[job[u].on] # Nothing
  <2>1. PICK n \in {2, 4} : n + 1 <= Len(todo[u]) /\ todo[u][n + 1] = "keep_attr" /\ Skip(u, n)
    BY <1>1, <1>4, <1>5 DEF Gain, Pair, Looks
  <2>2. n \in Nat /\ \A w : Follows(InCtx(u), todo[u][n + 1], w) => w \notin Demanding
    BY <2>1 DEF Follows, Demanding, Haves
  <2>3. Tended(u)' /\ \A v \in Users \ {u} : todo'[v] = todo[v]
    BY <1>1, <2>1, <2>2, QuietOn
  <2> QED BY <1>1, <1>2, <1>3, <2>3, PlacesStay
<1>6. CASE attr[job[u].on] = Nothing
  <2>1. Skip(u, 0)
    BY <1>1, <1>6
  <2>2. /\ \A k \in 1..4 : \A w : Is(todo'[u], k, w) => Is(todo[u], 0 + 1 + k, w)
        /\ \A w : Is(todo'[u], 1, w) => Follows(InCtx(u), todo[u][0 + 1], w)
        /\ \A v \in Users \ {u} : todo'[v] = todo[v]
        /\ WordsTended(u)' /\ InCtx(u)' = InCtx(u)
    BY <1>1, <1>2, <2>1, GoesOnWith
  <2>3. \A w : Is(todo'[u], 1, w) => w \in {"lookup", "connect", "await_pool"}
    BY <1>2, <2>2 DEF Follows
  <2>4. ~(Is(todo'[u], 1, "connect") /\ Is(todo'[u], 2, "store"))
    <3>1. \A w : (Is(todo'[u], 1, w) => Is(todo[u], 1 + 1, w)) /\ (Is(todo'[u], 2, w) => Is(todo[u], 1 + 2, w))
      BY <2>2
    <3> QED BY <1>4, <3>1 DEF Is, Gain, Pair, Looks
  <2>5. ThreadTended(u)' /\ IterTended(u)'
    BY <2>3, <2>4 DEF ThreadTended, Replaces, IterTended
  <2>6. AdapterTended(u)'
    BY <1>1, <1>6, <2>3 DEF AdapterTended
  <2> QED BY <1>1, <1>2, <1>3, <2>2, <2>5, <2>6, PlacesStay DEF Tended
<1> QED
  BY <1>5, <1>6

\* The connection of AsyncRedisCache is looked for.
LEMMA HavePoolTended ==
  ASSUME CtxInv, Solo, LostCalm, NEW u \in Users, HavePool(u),
         UNCHANGED <<setup, order, conns, made, open, given, job, walk, attr>>
  PROVE  Tended(u)' /\ NoneLost' /\ PoolStored' /\ HomesOnly' /\ \A v \in Users \ {u} : todo'[v] = todo[v] /\ rd'[v] = rd[v]
<1>1. At(u, "have_pool") /\ UNCHANGED pool /\ rd' = [rd EXCEPT ![u] = pool[job[u].on]]
      /\ IF pool[job[u].on] = Nothing THEN Skip(u, 0) ELSE Skip(u, 4)
  BY DEF HavePool, Holds, Go, On
<1>2. /\ 0 \in Nat /\ 0 + 1 <= Len(todo[u]) /\ todo[u][1] = "have_pool" /\ Fits(setup.kind, InCtx(u), todo[u], 1)
      /\ ~Carrying(u)
  <2>1. At(u, "have_pool") /\ "have_pool" # "none" /\ "have_pool" \notin {"store", "keep_attr", "keep_pool"}
    BY <1>1
  <2> QED BY <2>1, FrontIs
<1>3. \A v \in Users \ {u} : rd'[v] = rd[v]
  BY <1>1, HeldApart
<1>4. 4 + 1 <= Len(todo[u]) /\ todo[u][4 + 1] = "keep_pool"
  <2>1. 1 + 4 <= Len(todo[u]) /\ todo[u][1 + 4] = "keep_pool"
    BY <1>2 DEF Fits, Gain, Looks
  <2> QED BY <2>1
<1>5. CASE pool[job[u].on] # Nothing
  <2>1. 4 \in Nat /\ Skip(u, 4) /\ \A w : Follows(InCtx(u), todo[u][4 + 1], w) => w \notin Demanding
    BY <1>1, <1>4, <1>5 DEF Follows, Demanding
  <2>2. Tended(u)' /\ \A v \in Users \ {u} : todo'[v] = todo[v]
    BY <1>1, <1>4, <2>1, QuietOn
  <2> QED BY <1>1, <1>2, <1>3, <2>2, PlacesStay
<1>6. CASE pool[job[u].on] = Nothing
  <2>1. Skip(u, 0)
    BY <1>1, <1>6
  <2>2. /\ \A k \in 1..4 : \A w : Is(todo'[u], k, w) => Is(todo[u], 0 + 1 + k, w)
        /\ \A w : Is(todo'[u], 1, w) => Follows(InCtx(u), todo[u][0 + 1], w)
        /\ \A v \in Users \ {u} : todo'[v] = todo[v]
        /\ WordsTended(u)' /\ InCtx(u)' = InCtx(u)
    BY <1>1, <1>2, <2>1, GoesOnWith
  <2>3. \A w : Is(todo'[u], 1, w) => w = "lookup"
    BY <1>2, <2>2 DEF Follows
  <2>4. ~Is(todo'[u], 4, "keep_attr")
    <3>1. \A w : Is(todo'[u], 4, w) => Is(todo[u], 4 + 1, w)
      BY <2>2
    <3> QED BY <1>4, <3>1 DEF Is
  <2>5. ThreadTended(u)' /\ IterTended(u)' /\ AdapterTended(u)'
    BY <2>3, <2>4 DEF ThreadTended, Replaces, IterTended, AdapterTended, Soon
  <2> QED BY <1>1, <1>2, <1>3, <2>2, <2>5, PlacesStay DEF Tended
<1> QED
  BY <1>5, <1>6

\* The connection of AsyncRedisCache is awaited: it has none of its own yet.
LEMMA AwaitTended ==
  ASSUME CtxInv, Solo, LostCalm, NEW u \in Users, AwaitPool(u),
         UNCHANGED <<setup, order, conns, made, open, given, job, walk>>
  PROVE  Tended(u)' /\ NoneLost' /\ PoolStored' /\ HomesOnly' /\ \A v \in Users \ {u} : todo'[v] = todo[v] /\ rd'[v] = rd[v]
<1>1. At(u, "await_pool") /\ UNCHANGED <<attr, pool>> /\ rd' = [rd EXCEPT ![u] = pool[job[u].on]] /\ Skip(u, 0)
  BY DEF AwaitPool, Holds, Go, On
<1>2. /\ 0 \in Nat /\ 0 + 1 <= Len(todo[u]) /\ todo[u][1] = "await_pool" /\ Tended(u)
      /\ ~Carrying(u) /\ \A w : Is(todo[u], 1, w) <=> w = "await_pool"
  <2>1. At(u, "await_pool") /\ "await_pool" # "none" /\ "await_pool" \notin {"store", "keep_attr", "keep_pool"}
    BY <1>1
  <2> QED BY <2>1, FrontIs
<1>3. \A v \in Users \ {u} : rd'[v] = rd[v]
  BY <1>1, HeldApart
<1>4. /\ \A w : Is(todo'[u], 1, w) => Follows(InCtx(u), todo[u][0 + 1], w)
      /\ \A v \in Users \ {u} : todo'[v] = todo[v]
      /\ WordsTended(u)' /\ InCtx(u)' = InCtx(u)
  BY <1>1, <1>2, GoesOnWith
<1>5. \A w : Is(todo'[u], 1, w) => w = "keep_attr"
  BY <1>2, <1>4 DEF Follows
<1>6. ThreadTended(u)' /\ IterTended(u)'
  BY <1>5 DEF ThreadTended, Replaces, IterTended
<1>7. AdapterTended(u)'
  <2>1. InCtx(u) => attr[job[u].on] = Nothing
    BY <1>2 DEF Tended, AdapterTended, Soon
  <2> QED BY <1>1, <1>4, <1>5, <2>1 DEF AdapterTended
<1> QED
  BY <1>1, <1>2, <1>3, <1>4, <1>6, <1>7, PlacesStay DEF Tended

\* The adapter's attributes change: what they give up is open no more, or stored.
LEMMA AttributesChange ==
  ASSUME CtxInv, LostCalm, NEW u \in Users, UNCHANGED <<setup, conns, given, open, rd>>,
         \A v \in Users \ {u} : todo'[v] = todo[v],
         NEW a \in Adapters, \A b \in Adapters \ {a} : attr'[b] = attr[b] /\ pool'[b] = pool[b],
         attr'[a] # attr[a] => attr[a] \notin open,
         pool'[a] \in open => \E t \in Threads : conns[t] = pool'[a],
         Carrying(u) => attr'[a] = rd[u] \/ pool'[a] = rd[u]
  PROVE  NoneLost' /\ PoolStored' /\ HomesOnly'
<1>1. ASSUME NEW c \in open, Kept(c)
      PROVE  Kept(c)'
  <2>1. c \in given \/ (\E t \in Threads : conns[t] = c) => Kept(c)'
    BY DEF Kept
  <2>2. ASSUME NEW b \in Adapters, attr[b] = c PROVE Kept(c)'
    BY <2>2 DEF Kept
  <2>3. ASSUME NEW b \in Adapters, pool[b] = c PROVE Kept(c)'
    BY <2>1, <2>3 DEF LostCalm, PoolStored
  <2> QED BY <1>1, <2>1, <2>2, <2>3 DEF Kept
<1>2. Carrying(u) => Kept(rd[u])'
  BY DEF Kept
<1>3. NoneLost'
  BY <1>1, <1>2, StillKept
<1>4. PoolStored' /\ HomesOnly'
  BY DEF LostCalm, PoolStored, HomesOnly, Crew
<1> QED
  BY <1>3, <1>4

\* An adapter keeps a connection, gives one up, or uses it.
LEMMA KeepTended ==
  ASSUME CtxInv, Solo, LostCalm, NEW u \in Users,
         KeepPool(u) \/ KeepAttr(u) \/ ClearAttr(u) \/ ClearPool(u) \/ Command(u),
         UNCHANGED <<setup, order, conns, made, open, given, job, walk>>
  PROVE  Tended(u)' /\ NoneLost' /\ PoolStored' /\ HomesOnly' /\ \A v \in Users \ {u} : todo'[v] = todo[v] /\ rd'[v] = rd[v]
<1>1. PICK h \in {"keep_pool", "keep_attr", "clear_attr", "clear_pool", "command"} :
        /\ At(u, h) /\ Skip(u, 0) /\ UNCHANGED rd
        /\ h = "keep_pool" => attr' = attr /\ pool' = [pool EXCEPT ![job[u].on] = rd[u]]
        /\ h = "keep_attr" => pool' = pool /\ attr' = [attr EXCEPT ![job[u].on] = rd[u]]
        /\ h = "clear_attr" => pool' = pool /\ attr' = [attr EXCEPT ![job[u].on] = Nothing]
        /\ h = "clear_pool" => attr' = attr /\ pool' = [pool EXCEPT ![job[u].on] = Nothing]
        /\ h = "command" => attr' = attr /\ pool' = pool
  BY DEF KeepPool, KeepAttr, ClearAttr, ClearPool, Command, Go, On
<1>2. h # "none" /\ h \notin StoreSteps \cup Searches
  BY DEF StoreSteps, Searches
<1>3. /\ InCtx(u) /\ job[u].on \in Adapters /\ 0 \in Nat /\ 0 + 1 <= Len(todo[u]) /\ todo[u][1] = h
      /\ job[u].tid \in Threads /\ Tended(u) /\ \A w : Is(todo[u], 1, w) <=> w = h
  BY <1>1, <1>2, AdapterFront
<1>4. Tended(u)' /\ \A v \in Users \ {u} : todo'[v] = todo[v]
  <2>1. \A w : Follows(InCtx(u), todo[u][0 + 1], w) => w \notin Demanding
    BY <1>3 DEF Follows, Demanding, Haves
  <2> QED BY <1>1, <1>2, <1>3, <2>1, QuietOn
<1>5. /\ \A b \in Adapters \ {job[u].on} : attr'[b] = attr[b] /\ pool'[b] = pool[b]
      /\ h = "keep_pool" => attr'[job[u].on] = attr[job[u].on] /\ pool'[job[u].on] = rd[u]
      /\ h = "keep_attr" => pool'[job[u].on] = pool[job[u].on] /\ attr'[job[u].on] = rd[u]
      /\ h = "clear_attr" => pool'[job[u].on] = pool[job[u].on] /\ attr'[job[u].on] = Nothing
      /\ h = "clear_pool" => attr'[job[u].on] = attr[job[u].on] /\ pool'[job[u].on] = Nothing
      /\ h = "command" => attr'[job[u].on] = attr[job[u].on] /\ pool'[job[u].on] = pool[job[u].on]
  BY <1>1, <1>3, HeldApart
<1>6. attr'[job[u].on] # attr[job[u].on] => attr[job[u].on] \notin open
  <2>1. h = "keep_attr" => attr[job[u].on] = Nothing
    BY <1>3 DEF Tended, AdapterTended, Soon
  <2>2. h = "clear_attr" => attr[job[u].on] \notin open
    BY <1>3 DEF Tended, AdapterTended
  <2> QED BY <1>5, <2>1, <2>2, HeldApart
<1>7. pool'[job[u].on] \in open => \E t \in Threads : conns[t] = pool'[job[u].on]
  <2>1. h = "keep_pool" => rd[u] = conns[job[u].tid]
    BY <1>3 DEF Tended, AdapterTended
  <2>2. CASE h = "keep_pool"
    BY <1>3, <1>5, <2>1, <2>2
  <2>3. CASE h = "clear_pool"
    BY <1>5, <2>3, HeldApart
  <2>4. CASE h \notin {"keep_pool", "clear_pool"}
    BY <1>3, <1>5, <2>4 DEF LostCalm, PoolStored
  <2> QED BY <2>2, <2>3, <2>4
<1>8. Carrying(u) => attr'[job[u].on] = rd[u] \/ pool'[job[u].on] = rd[u]
  BY <1>3, <1>5 DEF Carrying
<1>9. NoneLost' /\ PoolStored' /\ HomesOnly'
  BY <1>1, <1>3, <1>4, <1>5, <1>6, <1>7, <1>8, AttributesChange
<1> QED
  BY <1>1, <1>4, <1>9

\* An adapter's connection is closed.
LEMMA ShutAttrTended ==
  ASSUME CtxInv, Solo, LostCalm, NEW u \in Users, ShutAttr(u)
  PROVE  Tended(u)' /\ NoneLost' /\ PoolStored' /\ HomesOnly' /\ \A v \in Users \ {u} : todo'[v] = todo[v] /\ rd'[v] = rd[v]
<1>1. /\ At(u, "shut_attr") /\ UNCHANGED <<setup, conns, given, attr, pool, job, rd>> /\ open' = open \ {attr[job[u].on]}
      /\ IF attr[job[u].on] = Nothing THEN Runs(u, 2) ELSE Skip(u, 0)
  BY DEF ShutAttr, On, ctxVars, Go, Proceed, Runs
<1>2. /\ 0 \in Nat /\ 0 + 1 <= Len(todo[u]) /\ todo[u][1] = "shut_attr" /\ Fits(setup.kind, InCtx(u), todo[u], 1)
      /\ ~Carrying(u) /\ Tended(u) /\ todo[u] # <<>>
  <2>1. At(u, "shut_attr") /\ "shut_attr" # "none" /\ "shut_attr" \notin {"store", "keep_attr", "keep_pool"}
    BY <1>1
  <2> QED BY <2>1, FrontIs
<1>3. Tended(u)' /\ \A v \in Users \ {u} : todo'[v] = todo[v]
  <2>1. CASE attr[job[u].on] = Nothing
    <3>1. 1 + 2 <= Len(todo[u]) /\ todo[u][2] = "clear_attr" /\ 2 \in 1..Len(todo[u]) /\ Runs(u, 2)
      <4>1. 1 + 2 <= Len(todo[u]) /\ todo[u][1 + 1] = "clear_attr"
        BY <1>2 DEF Fits, Pair, Looks
      <4>2. Len(todo[u]) \in Nat
        BY <1>1, FrontIs
      <4> QED BY <1>1, <2>1, <4>1, <4>2
    <3>2. /\ \A w : Is(todo'[u], 1, w) => Follows(InCtx(u), todo[u][2], w)
          /\ \A v \in Users \ {u} : todo'[v] = todo[v]
      BY <1>2, <3>1, Comes
    <3>3. \A w : Is(todo'[u], 1, w) => w \notin Demanding
      BY <3>1, <3>2 DEF Follows, Demanding
    <3>4. WordsTended(u)'
      BY <1>1, <1>2, <3>1, WordsStay DEF Tended
    <3> QED BY <3>2, <3>3, <3>4, Quiet DEF Tended
  <2>2. CASE attr[job[u].on] # Nothing
    <3>1. Skip(u, 0)
      BY <1>1, <2>2
    <3>2. /\ \A w : Is(todo'[u], 1, w) => Follows(InCtx(u), todo[u][0 + 1], w)
          /\ \A v \in Users \ {u} : todo'[v] = todo[v]
          /\ WordsTended(u)' /\ InCtx(u)' = InCtx(u)
      BY <1>1, <1>2, <3>1, GoesOnWith
    <3>3. \A w : Is(todo'[u], 1, w) => w = "clear_attr"
      BY <1>2, <3>2 DEF Follows
    <3>4. attr'[job'[u].on] \notin open'
      BY <1>1
    <3>5. ThreadTended(u)' /\ IterTended(u)' /\ AdapterTended(u)'
      BY <3>3, <3>4 DEF ThreadTended, Replaces, IterTended, AdapterTended, Soon
    <3> QED BY <3>2, <3>5 DEF Tended
  <2> QED BY <2>1, <2>2
<1>4. NoneLost' /\ PoolStored' /\ HomesOnly'
  BY <1>1, <1>2, <1>3, PlacesStay
<1> QED
  BY <1>1, <1>3, <1>4

\* A step of an adapter loses nothing.
LEMMA LostAdapter ==
  ASSUME CtxInv, Solo, LostCalm, NEW u \in Users, AdapterStep(u)
  PROVE  LostCalm'
<1>1. Tended(u)' /\ NoneLost' /\ PoolStored' /\ HomesOnly' /\ \A v \in Users \ {u} : todo'[v] = todo[v] /\ rd'[v] = rd[v]
  <2>1. CASE ShutAttr(u)
    BY <2>1, ShutAttrTended
  <2>2. CASE /\ \/ HaveAttr(u) \/ HavePool(u) \/ KeepPool(u) \/ AwaitPool(u) \/ KeepAttr(u)
                \/ ClearAttr(u) \/ ClearPool(u) \/ Command(u)
             /\ UNCHANGED <<setup, order, conns, made, open, given, job, walk>>
    <3>1. UNCHANGED pool \/ ~HaveAttr(u)
      BY DEF HaveAttr
    <3>2. UNCHANGED attr \/ ~HavePool(u)
      BY DEF HavePool
    <3> QED BY <2>2, <3>1, <3>2, HaveTended, HavePoolTended, AwaitTended, KeepTended
  <2> QED BY <2>1, <2>2 DEF AdapterStep, storeVars
<1>2. PICK h : /\ At(u, h) /\ h # "none" /\ h \notin StoreSteps \cup Searches
               /\ UNCHANGED <<setup, job, adapters>>
               /\ attr' = attr \/ \E c : attr' = [attr EXCEPT ![job[u].on] = c]
  <2>1. PICK h \in {"have_attr", "have_pool", "keep_pool", "await_pool", "keep_attr", "clear_attr", "clear_pool",
                    "command", "shut_attr"} :
          /\ At(u, h) /\ UNCHANGED <<setup, job, adapters>>
          /\ attr' = attr \/ \E c : attr' = [attr EXCEPT ![job[u].on] = c]
    BY DEF AdapterStep, HaveAttr, HavePool, KeepPool, AwaitPool, KeepAttr, ClearAttr, ClearPool, Command, ShutAttr,
       ctxVars, On
  <2> QED BY <2>1 DEF StoreSteps, Searches
<1>3. u \in Crew /\ ~Separate /\ job[u].on \in Adapters /\ job[u].on <= adapters
  BY <1>2, AdapterFront
<1>4. \A w \in Users : w # u => Tended(w)'
  BY <1>1, <1>2, <1>3, OthersTended
<1>5. Unmade'
  <2> SUFFICES ASSUME NEW a \in Adapters, a > adapters
               PROVE  attr'[a] = Nothing
    BY <1>2 DEF Unmade
  <2>1. a # job[u].on /\ adapters \in Nat /\ a \in Nat
    <3>1. adapters \in Nat /\ \A b \in Adapters : b \in Nat
      BY ContextsAssumption DEF ContextsAssumption, CtxInv, AdapterTypes, Adapters
    <3> QED BY <1>3, <3>1
  <2>2. attr'[a] = attr[a]
    BY <1>2, <2>1, HeldApart
  <2> QED BY <2>2 DEF LostCalm, Unmade
<1> QED
  BY <1>1, <1>4, <1>5 DEF LostCalm

-----------------------------------------------------------------------------
\* What a step of the wrapper leaves alone, and how its caller goes on.
LEMMA WrapperGoes ==
  ASSUME CtxInv, NEW u \in Users, WrapperStep(u)
  PROVE  /\ UNCHANGED <<setup, conns, open, given, rd, attr, pool>> /\ adapters' \in {adapters, adapters + 1}
         /\ job'[u].op = job[u].op /\ job'[u].tid = job[u].tid /\ \A w \in Users \ {u} : job'[w] = job[w]
         /\ \E h \in {"get_adapter", "shared", "make", "install", "share", "unset", "virt_enter", "entered",
                      "virt_exit", "exited"} : At(u, h)
<1>1. UNCHANGED <<setup, conns, open, given, rd, attr, pool>> /\ adapters' \in {adapters, adapters + 1}
  BY DEF WrapperStep, GetAdapter, SharedAdapter, Make, Install, Share, Unset, VirtEnterStep, EnteredStep, VirtExitStep,
     ExitedStep, storeVars, ctxVars
<1>2. job' = job \/ \E a : SetOn(u, a)
  BY DEF WrapperStep, GetAdapter, SharedAdapter, Make, Install, Share, Unset, VirtEnterStep, EnteredStep, VirtExitStep,
     ExitedStep
<1>3. job'[u].op = job[u].op /\ job'[u].tid = job[u].tid /\ \A w \in Users \ {u} : job'[w] = job[w]
  <2>1. job \in [Users -> [op : setup.ops \cup {"none"}, tid : Threads \cup {Nothing}, on : Int \cup {Nothing}]]
    BY DEF CtxInv, CallTypes
  <2> QED BY <1>2, <2>1 DEF SetOn
<1>4. \E h \in {"get_adapter", "shared", "make", "install", "share", "unset", "virt_enter", "entered",
                "virt_exit", "exited"} : At(u, h)
  BY DEF WrapperStep, GetAdapter, SharedAdapter, Make, Install, Share, Unset, VirtEnterStep, EnteredStep, VirtExitStep,
     ExitedStep
<1> QED
  BY <1>1, <1>3, <1>4

\* A new adapter has no connection, and takes that of its thread or makes one.
LEMMA MakeTended ==
  ASSUME CtxInv, Solo, LostCalm, NEW u \in Users, Make(u), WrapperStep(u)
  PROVE  Tended(u)' /\ \A v \in Users \ {u} : todo'[v] = todo[v]
<1>1. At(u, "make") /\ adapters < MaxAdapters /\ SetOn(u, adapters + 1) /\ Skip(u, 0) /\ "make" # "none"
  BY DEF Make, Go
<1>2. UNCHANGED <<setup, attr>> /\ job'[u].op = job[u].op /\ job'[u].tid = job[u].tid
  BY WrapperGoes
<1>3. 0 \in Nat /\ 0 + 1 <= Len(todo[u]) /\ todo[u][1] = "make"
  BY <1>1, FrontIs
<1>4. /\ \A w : Is(todo'[u], 1, w) => Follows(InCtx(u), todo[u][0 + 1], w)
      /\ \A v \in Users \ {u} : todo'[v] = todo[v]
      /\ WordsTended(u)'
  BY <1>1, <1>2, <1>3, GoesOnWith
<1>5. \A w : Is(todo'[u], 1, w) => w \in {"lookup", "install", "share", "unset"}
  BY <1>3, <1>4 DEF Follows
<1>6. attr'[job'[u].on] = Nothing
  <2>1. job'[u].on = adapters + 1
    <3>1. job \in [Users -> [op : setup.ops \cup {"none"}, tid : Threads \cup {Nothing}, on : Int \cup {Nothing}]]
      BY DEF CtxInv, CallTypes
    <3> QED BY <1>1, <3>1 DEF SetOn
  <2>2. adapters + 1 \in Adapters /\ adapters + 1 > adapters
    <3>1. adapters \in Nat /\ MaxAdapters \in Nat
      BY ContextsAssumption DEF ContextsAssumption, CtxInv, AdapterTypes
    <3> QED BY <1>1, <3>1 DEF Adapters
  <2> QED BY <1>2, <2>1, <2>2 DEF LostCalm, Unmade
<1>7. ThreadTended(u)' /\ IterTended(u)' /\ AdapterTended(u)'
  BY <1>5, <1>6 DEF ThreadTended, Replaces, IterTended, AdapterTended
<1> QED
  BY <1>4, <1>7 DEF Tended

Wrapping == {"get_adapter", "shared", "install", "share", "unset", "virt_enter", "entered", "virt_exit", "exited"}

\* The other steps of the wrapper go on with, or skip to, a step of which nothing more is asked.
LEMMA WrapperSkips ==
  ASSUME CtxInv, NEW u \in Users, WrapperStep(u), ~Make(u), ~Raise(u)
  PROVE  \E n \in Nat : n + 1 <= Len(todo[u]) /\ Skip(u, n) /\ todo[u][n + 1] \in Wrapping
<1>1. PICK h \in {"get_adapter", "shared", "make", "install", "share", "unset", "virt_enter", "entered",
                  "virt_exit", "exited"} : At(u, h)
  BY WrapperGoes
<1>2. h # "none" /\ h \notin StoreSteps \cup {"none"}
  BY DEF StoreSteps
<1>3. /\ 0 \in Nat /\ 0 + 1 <= Len(todo[u]) /\ todo[u][0 + 1] = h /\ todo[u][1] = h
      /\ setup.kind \in Wrapped /\ Fits(setup.kind, TRUE, todo[u], 1) /\ Len(todo[u]) \in Nat
  <2>1. Len(todo[u]) \in Nat \ {0} /\ todo[u][1] = h /\ setup.kind \in Wrapped /\ Fits(setup.kind, TRUE, todo[u], 1)
    BY <1>1, <1>2, WrapperHeads
  <2>2. Len(todo[u]) \in Nat /\ 0 + 1 <= Len(todo[u]) /\ 0 + 1 = 1
    <3>1. \A n \in Nat \ {0} : n \in Nat /\ 0 + 1 <= n
      OBVIOUS
    <3>2. Len(todo[u]) \in Nat \ {0}
      BY <2>1
    <3> QED BY <3>1, <3>2
  <2>3. todo[u][0 + 1] = h
    BY <2>1, <2>2
  <2> QED BY <2>1, <2>2, <2>3
<1>4. \A g \in Wrapping \cup {"make"} : At(u, g) => h = g
  BY <1>1 DEF At
<1>5. ASSUME Skip(u, 0), h # "make"
      PROVE  \E n \in Nat : n + 1 <= Len(todo[u]) /\ Skip(u, n) /\ todo[u][n + 1] \in Wrapping
  <2>1. h \in Wrapping
    BY <1>5 DEF Wrapping
  <2> QED BY <1>3, <1>5, <2>1
<1>6. ASSUME NEW n \in Nat, Skip(u, n), NEW a \in Wrapping, Looks(todo[u], 1, n, a)
      PROVE  \E k \in Nat : k + 1 <= Len(todo[u]) /\ Skip(u, k) /\ todo[u][k + 1] \in Wrapping
  <2>1. n + 1 = 1 + n
    OBVIOUS
  <2> QED BY <1>6, <2>1 DEF Looks
<1>7. /\ Len(Construct) = MakeLen(setup.kind) /\ MakeLen(setup.kind) \in Nat
      /\ Len(Enter) = EnterLen(setup.kind) /\ Len(Exit) = ExitLen(setup.kind)
      /\ EnterLen(setup.kind) \in Nat /\ ExitLen(setup.kind) \in Nat
  BY <1>3, Lengths DEF MakeLen, EnterLen, ExitLen
<1>8. CASE GetAdapter(u)
  <2>1. h = "get_adapter" /\ (Skip(u, 0) \/ Skip(u, Len(Construct) + 1))
    BY <1>4, <1>8 DEF GetAdapter, Go, Wrapping
  <2>2. Looks(todo[u], 1, MakeLen(setup.kind) + 1, "install") /\ MakeLen(setup.kind) + 1 \in Nat /\ "install" \in Wrapping
    BY <1>3, <1>7, <2>1 DEF Fits, Wrapping
  <2> QED BY <1>5, <1>6, <1>7, <2>1, <2>2
<1>9. CASE SharedAdapter(u)
  <2>1. h = "shared" /\ (Skip(u, 0) \/ Skip(u, Len(Construct) + (IF setup.kind \in Sync THEN 1 ELSE 2)))
    BY <1>4, <1>9 DEF SharedAdapter, Go, Wrapping
  <2>2. /\ Looks(todo[u], 1, MakeLen(setup.kind) + 1, "share")
        /\ setup.kind \notin Sync => Looks(todo[u], 1, MakeLen(setup.kind) + 2, "install")
        /\ MakeLen(setup.kind) + 1 \in Nat /\ MakeLen(setup.kind) + 2 \in Nat /\ "install" \in Wrapping /\ "share" \in Wrapping
    BY <1>3, <1>7, <2>1 DEF Fits, Wrapping
  <2> QED BY <1>5, <1>6, <1>7, <2>1, <2>2
<1>10. CASE Install(u) \/ Share(u) \/ Unset(u) \/ EnteredStep(u)
  BY <1>4, <1>5, <1>10 DEF Install, Share, Unset, EnteredStep, Go, Wrapping
<1>11. CASE VirtEnterStep(u)
  <2>1. h = "virt_enter" /\ (Skip(u, 0) \/ Skip(u, Len(Enter) + 1))
    BY <1>4, <1>11 DEF VirtEnterStep, Go, Wrapping
  <2>2. Looks(todo[u], 1, EnterLen(setup.kind) + 1, "entered") /\ EnterLen(setup.kind) + 1 \in Nat /\ "entered" \in Wrapping
    BY <1>3, <1>7, <2>1 DEF Fits, Wrapping
  <2> QED BY <1>5, <1>6, <1>7, <2>1, <2>2
<1>12. CASE VirtExitStep(u)
  <2>1. h = "virt_exit" /\ (Skip(u, 0) \/ Skip(u, Len(Exit) + 1))
    BY <1>4, <1>12 DEF VirtExitStep, Go, Wrapping
  <2>2. Looks(todo[u], 1, ExitLen(setup.kind) + 1, "exited") /\ ExitLen(setup.kind) + 1 \in Nat /\ "exited" \in Wrapping
    BY <1>3, <1>7, <2>1 DEF Fits, Wrapping
  <2> QED BY <1>5, <1>6, <1>7, <2>1, <2>2
<1>13. CASE ExitedStep(u)
  BY <1>4, <1>5, <1>13 DEF ExitedStep, Go, Wrapping
<1> QED
  BY <1>8, <1>9, <1>10, <1>11, <1>12, <1>13 DEF WrapperStep

\* A step of the wrapper loses nothing.
LEMMA LostWrapper ==
  ASSUME CtxInv, Solo, LostCalm, NEW u \in Users, WrapperStep(u)
  PROVE  LostCalm'
<1>1. /\ UNCHANGED <<setup, conns, open, given, rd, attr, pool>> /\ adapters' \in {adapters, adapters + 1}
      /\ job'[u].op = job[u].op /\ job'[u].tid = job[u].tid /\ \A w \in Users \ {u} : job'[w] = job[w]
  BY WrapperGoes
<1>2. PICK h \in {"get_adapter", "shared", "make", "install", "share", "unset", "virt_enter", "entered",
                  "virt_exit", "exited"} : At(u, h)
  BY WrapperGoes
<1>3. h # "none" /\ h \notin StoreSteps \cup {"none"} /\ h \notin {"store", "keep_attr", "keep_pool"}
  BY DEF StoreSteps
<1>4. u \in Crew /\ ~Carrying(u) /\ ~Separate
  <2>1. InCtx(u)
    BY <1>2, <1>3, WrapperHeads
  <2>2. u \in Crew /\ ~Carrying(u) /\ Tended(u) /\ todo[u] # <<>>
    BY <1>2, <1>3, FrontIs
  <2> QED BY <2>1, <2>2 DEF Tended, WordsTended
<1>5. Tended(u)' /\ \A v \in Users \ {u} : todo'[v] = todo[v]
  <2>1. CASE Make(u)
    BY <2>1, MakeTended
  <2>2. CASE Raise(u)
    <3>1. todo' = [todo EXCEPT ![u] = <<>>]
      BY <2>2 DEF Raise
    <3> QED BY <3>1, HeldApart, EndedTended
  <2>3. CASE ~Make(u) /\ ~Raise(u)
    <3>1. PICK n \in Nat : n + 1 <= Len(todo[u]) /\ Skip(u, n) /\ todo[u][n + 1] \in Wrapping
      BY <2>3, WrapperSkips
    <3>2. \A w : Follows(InCtx(u), todo[u][n + 1], w) => w \notin Demanding
      BY <3>1 DEF Follows, Wrapping, Demanding, Haves, Ends
    <3> QED BY <1>1, <1>2, <1>3, <3>1, <3>2, QuietOn
  <2> QED BY <2>1, <2>2, <2>3
<1>6. NoneLost' /\ PoolStored' /\ HomesOnly'
  BY <1>1, <1>4, <1>5, PlacesStay
<1>7. \A w \in Users : w # u => Tended(w)'
  BY <1>1, <1>4, <1>5, OthersTended
<1>8. Unmade'
  <2> SUFFICES ASSUME NEW a \in Adapters, a > adapters'
               PROVE  attr[a] = Nothing
    BY <1>1 DEF Unmade
  <2>1. adapters \in Nat /\ a \in Nat
    BY ContextsAssumption DEF ContextsAssumption, CtxInv, AdapterTypes, Adapters
  <2>2. a > adapters
    BY <1>1, <2>1
  <2> QED BY <2>2 DEF LostCalm, Unmade
<1> QED
  BY <1>5, <1>6, <1>7, <1>8 DEF LostCalm

-----------------------------------------------------------------------------
\* A call begins: it has nothing in its hands, and nothing is lost.
LEMMA LostBegins ==
  ASSUME CtxInv, Solo, LostCalm, NEW u \in Crew, u \in Users, todo[u] = <<>>, NEW j, NEW s, NEW c,
         job' = [job EXCEPT ![u] = j], todo' = [todo EXCEPT ![u] = s], rd' = [rd EXCEPT ![u] = c],
         UNCHANGED <<setup, conns, open, given, adapters, attr, pool>>, Tended(u)'
  PROVE  LostCalm'
<1>1. \A w \in Users \ {u} : todo'[w] = todo[w] /\ rd'[w] = rd[w] /\ job'[w] = job[w]
  BY HeldApart DEF CtxInv, CallTypes
<1>2. ~Carrying(u)
  BY DEF Carrying, Is
<1>3. NoneLost' /\ PoolStored' /\ HomesOnly'
  BY <1>1, <1>2, PlacesStay
<1>4. \A w \in Users : w # u => Tended(w)'
  BY <1>1, OthersTended
<1>5. Unmade'
  BY DEF LostCalm, Unmade
<1> QED
  BY <1>3, <1>4, <1>5 DEF LostCalm

\* A call on the store begins.
LEMMA LostAsk ==
  ASSUME CtxInv, LoneInv, Solo, LostCalm, NEW u \in Users, AskSome(u), UNCHANGED ctxVars
  PROVE  LostCalm'
<1>1. PICK op \in setup.ops \cap (DOMAIN Kind \cup DOMAIN Common), t \in Threads :
        Ask(u, op, t) /\ (t = setup.home[u] \/ (setup.foreign /\ ~(setup.kind \in Managers /\ op = "get")))
  BY DEF AskSome
<1>2. setup.kind \in Sync \cup Async
  BY StoreAssumption DEF StoreAssumption, CtxInv, CallTypes
<1>3. /\ Shape(setup.kind, FALSE, Program(op)) /\ op \notin CtxOps /\ Opens(op, Program(op)) /\ Len(Program(op)) > 0
      /\ \A i \in 1..Len(Program(op)) : Allows(op, Program(op)[i])
  BY <1>2, StorePrograms, OpsApart DEF StoreProgram
<1>4. PICK s \in Seq(Words) : s = Program(op)
  BY <1>3 DEF Shape
<1>5. PICK j : j = [op |-> op, tid |-> t, on |-> Nothing]
  OBVIOUS
<1>6. /\ job' = [job EXCEPT ![u] = j] /\ todo' = [todo EXCEPT ![u] = s] /\ rd' = [rd EXCEPT ![u] = Nothing]
      /\ todo[u] = <<>> /\ u \in Crew
      /\ UNCHANGED <<setup, order, conns, open, given, walk, adapters, attr, pool>>
  BY <1>1, <1>4, <1>5 DEF Ask, storeVars, ctxVars, Crew
<1>7. todo'[u] = s /\ job'[u].op = op /\ job'[u].tid = t /\ ~InCtx(u)'
  <2>1. todo'[u] = s /\ job'[u] = j
    BY <1>6 DEF CtxInv, CallTypes
  <2> QED BY <1>3, <1>5, <2>1 DEF InCtx
<1>8. op \notin Cleans /\ op \in setup.ops
  BY DEF Solo, Does
<1>9. \A w : Says(u, w)' => Allows(op, w)
  BY <1>3, <1>4, <1>7 DEF Says
<1>10. WordsTended(u)'
  <2>1. ~Says(u, "drop")' /\ ~Says(u, "purge")'
    BY <1>8, <1>9 DEF Allows, Cleans
  <2>2. (Says(u, "promise")' => setup.kind \notin Managers) /\ (Says(u, "own")' => setup.kind \in Managers)
    BY <1>9 DEF Allows, Managers
  <2>3. setup.kind \in Managers /\ Says(u, "store")' => t = setup.home[u]
    BY <1>1, <1>9 DEF Allows
  <2>4. Separate => t = setup.home[u] /\ ~Says(u, "walk")' /\ ~Says(u, "sweep")'
    <3> HAVE Separate
    <3>1. op \notin Cleans \cup {"close_all"} /\ ~setup.foreign
      BY <1>8 DEF Separate, Does
    <3> QED BY <1>1, <1>9, <3>1 DEF Allows, Cleans
  <2>5. Separate' = Separate
    BY <1>6 DEF Separate, Crew, Does
  <2> QED BY <1>6, <1>7, <2>1, <2>2, <2>3, <2>4, <2>5 DEF WordsTended
<1>11. \A w : Is(todo'[u], 1, w) => \/ w \in {"lookup", "seek", "own"}
                                    \/ w = "walk" /\ Says(u, "walk")'
                                    \/ w = "connect" /\ \A v : ~Is(todo'[u], 2, v)
  <2>1. \/ s[1] \in {"lookup", "seek", "own", "walk"}
        \/ s[1] = "connect" /\ Len(s) = 1
    BY <1>3, <1>4, <1>8 DEF Opens
  <2>2. 1 \in 1..Len(s)
    BY <1>3, <1>4
  <2>3. s[1] = "walk" => Says(u, "walk")'
    BY <1>7, <2>2 DEF Says
  <2> QED BY <1>7, <2>1, <2>3 DEF Is
<1>12. ThreadTended(u)'
  BY <1>11 DEF ThreadTended, Replaces
<1>13. AdapterTended(u)'
  BY <1>7 DEF AdapterTended
<1>14. IterTended(u)'
  <2>1. Says(u, "walk")' => walk[u] = Nothing
    <3> HAVE Says(u, "walk")'
    <3>1. ~Separate
      BY <1>6, <1>7, <1>9, <1>10, <1>8 DEF Separate, Does, Allows, Cleans
    <3>2. WalkCalm(u)
      BY <3>1 DEF Solo, LoneInv, LoneCalm, Calm
    <3> QED BY <1>6, <3>2 DEF WalkCalm
  <2>2. Says(u, "walk")' => \A x \in Threads : ~Passed(u, x)'
    <3> HAVE Says(u, "walk")'
    <3>1. Place(u).at' = 1
      BY <1>6, <2>1 DEF Place
    <3>2. \A i \in 1..Len(order') : ~(i < 1)
      OBVIOUS
    <3> QED BY <3>1, <3>2 DEF Passed
  <2> QED BY <1>11, <2>2 DEF IterTended
<1>15. Tended(u)'
  BY <1>10, <1>12, <1>13, <1>14 DEF Tended
<1> QED
  BY <1>6, <1>15, LostBegins

\* A call on an adapter or the wrapper begins.
LEMMA LostCtxAsk ==
  ASSUME CtxInv, Solo, LostCalm, NEW u \in Users, setup.kind \in Wrapped, NEW op \in setup.ops \cap CtxOps, CtxAsk(u, op)
  PROVE  LostCalm'
<1>1. PICK a, b : Begins(op, a) /\ Block(CtxPrograms[op], a, b, CtxWords(op))
  BY CtxProgramBlocks
<1>2. PICK s \in Seq(Words) : s = CtxPrograms[op]
  BY <1>1 DEF Block, Shape
<1>3. Shape(setup.kind, TRUE, s) /\ s[1] = a
  BY <1>1, <1>2 DEF Block
<1>4. PICK j : j = [op |-> op, tid |-> setup.home[u], on |-> IF op = "exit" THEN tracked ELSE instance]
  OBVIOUS
<1>5. /\ job' = [job EXCEPT ![u] = j] /\ todo' = [todo EXCEPT ![u] = s] /\ rd' = [rd EXCEPT ![u] = Nothing]
      /\ todo[u] = <<>> /\ u \in Crew
      /\ UNCHANGED <<setup, conns, open, given, adapters, attr, pool>>
  BY <1>2, <1>4 DEF CtxAsk, storeVars, Crew
<1>6. todo'[u] = s
  BY <1>5 DEF CtxInv, CallTypes
<1>7. WordsTended(u)'
  <2>1. \A w : Says(u, w)' => w \in CtxSteps
    BY <1>3, <1>6 DEF Says, Shape, Fits
  <2>2. setup.kind \notin Managers
    BY DEF Wrapped, Managers
  <2>3. ~Separate
    BY DEF Separate, Does
  <2>4. Separate' = Separate
    BY <1>5 DEF Separate, Crew, Does
  <2> QED BY <1>5, <2>1, <2>2, <2>3, <2>4 DEF WordsTended, CtxSteps
<1>8. \A w : Is(todo'[u], 1, w) => w \notin Demanding
  <2>1. a \notin Demanding
    BY <1>1 DEF Begins, Haves, Demanding
  <2> QED BY <1>3, <1>6, <2>1 DEF Is
<1>9. Tended(u)'
  BY <1>7, <1>8, Quiet DEF Tended
<1> QED
  BY <1>5, <1>9, LostBegins

\* Every step keeps what is open where it can be found.
LEMMA LostStep ==
  ASSUME CtxInv, LoneInv, LostInv, [CtxNext]_allVars
  PROVE  LostInv'
<1>1. setup' = setup
  BY DEF CtxNext, AskSome, Ask, CtxAsk, StoreStepHere, StoreStep, AdapterStep, ShutAttr, WrapperStep, GetAdapter,
         SharedAdapter, Make, Install, Share, Unset, VirtEnterStep, EnteredStep, VirtExitStep, ExitedStep, allVars, vars
<1>2. Solo' = Solo
  BY <1>1 DEF Solo, Lone, Separate, Does, Crew
<1>3. SUFFICES ASSUME Solo, LostCalm
               PROVE  LostCalm'
  BY <1>2 DEF LostInv
<1>4. CASE UNCHANGED allVars
  <2>1. UNCHANGED <<setup, order, conns, open, given, job, todo, rd, walk, attr, pool, adapters>>
    BY <1>4 DEF allVars, vars, ctxVars
  <2>2. \A c : (Kept(c)' <=> Kept(c)) /\ (Carried(c)' <=> Carried(c))
    BY <2>1 DEF Kept, Carried, Carrying
  <2>3. NoneLost' /\ Unmade' /\ PoolStored' /\ HomesOnly'
    BY <1>3, <2>1, <2>2 DEF LostCalm, NoneLost, Unmade, PoolStored, HomesOnly, Crew
  <2>4. ASSUME NEW u \in Users PROVE Tended(u)'
    <3>1. Tended(u)
      BY <1>3 DEF LostCalm
    <3>2. WordsTended(u)'
      BY <2>1, <3>1 DEF Tended, WordsTended, Says, InCtx, Separate, Crew, Does
    <3>3. ThreadTended(u)' /\ AdapterTended(u)'
      BY <2>1, <3>1 DEF Tended, ThreadTended, Replaces, AdapterTended, Soon, InCtx
    <3>4. \A t : Passed(u, t)' <=> Passed(u, t)
      BY <2>1 DEF Passed, Place, Keys
    <3>5. IterTended(u)'
      BY <2>1, <3>1, <3>4 DEF Tended, IterTended
    <3> QED BY <3>2, <3>3, <3>5 DEF Tended
  <2> QED BY <2>3, <2>4 DEF LostCalm
<1>5. ASSUME NEW u \in Users, AskSome(u) /\ UNCHANGED ctxVars
      PROVE  LostCalm'
  BY <1>3, <1>5, LostAsk
<1>6. ASSUME NEW u \in Users, setup.kind \in Wrapped, NEW op \in setup.ops \cap CtxOps, CtxAsk(u, op)
      PROVE  LostCalm'
  BY <1>3, <1>6, LostCtxAsk
<1>7. ASSUME NEW u \in Users, StoreStepHere(u) \/ AdapterStep(u) \/ WrapperStep(u)
      PROVE  LostCalm'
  BY <1>3, <1>7, LostStore, LostAdapter, LostWrapper
<1> QED
  BY <1>4, <1>5, <1>6, <1>7 DEF CtxNext

\* Nothing is open at the start.
LEMMA LostStart ==
  ASSUME Init
  PROVE  LostInv
<1>1. StoreInit /\ CtxInit
  BY DEF Init
<1>2. \A u \in Users : Tended(u)
  <2>1. \A k \in {1, 2, 3, 4} : \A w : ~Is(<<>>, k, w)
    BY DEF Is
  <2> SUFFICES ASSUME NEW u \in Users
               PROVE  Tended(u)
    OBVIOUS
  <2>2. todo[u] = <<>>
    BY <1>1 DEF StoreInit
  <2>3. \A w : ~Says(u, w)
    BY <2>2 DEF Says
  <2> QED BY <2>1, <2>2, <2>3 DEF Tended, WordsTended, ThreadTended, Replaces, AdapterTended, Soon, IterTended
<1>3. NoneLost /\ Unmade /\ PoolStored /\ HomesOnly
  BY <1>1 DEF StoreInit, CtxInit, NoneLost, Unmade, PoolStored, HomesOnly
<1> QED
  BY <1>2, <1>3 DEF LostInv, LostCalm

\* Whatever one caller does, and whatever callers do who have a thread each and stay with it, no connection that is
\* open gets out of reach: it is in a store, in the hands of a call, kept by an adapter, or the caller's own.
THEOREM ConnectionsStayInReach == Spec => []NothingLost
<1>1. Init => CtxInv /\ LoneInv /\ LostInv
  BY CtxStart, LoneStart, LostStart
<1>2. CtxInv /\ LoneInv /\ LostInv /\ [CtxNext]_allVars => (CtxInv /\ LoneInv /\ LostInv)'
  BY CtxStep, LoneStep, LostStep
<1>3. LostInv => NothingLost
  <2> SUFFICES ASSUME LostCalm, NEW c \in open
               PROVE  c \in Reachable
    BY DEF LostInv, Solo, NothingLost
  <2>1. CASE Kept(c)
    BY <2>1 DEF Kept, Reachable
  <2>2. CASE Carried(c)
    <3>1. PICK u \in Users : Carrying(u) /\ rd[u] = c
      BY <2>2 DEF Carried
    <3>2. todo[u] # <<>>
      BY <3>1 DEF Carrying, Is
    <3> QED BY <3>1, <3>2 DEF Reachable
  <2> QED BY <2>1, <2>2 DEF LostCalm, NoneLost
<1> QED
  BY <1>1, <1>2, <1>3, PTL DEF Spec

=============================================================================
