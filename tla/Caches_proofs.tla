---------------------------- MODULE Caches_proofs ----------------------------
(***************************************************************************)
(* For any users, keys, timeouts and setups of the cache adapters: the     *)
(* types, what may lose an entry that has not expired, and that each       *)
(* adapter implements ExpiringCache for one caller, step by step.          *)
(***************************************************************************)
EXTENDS Caches, FiniteSetTheorems, SequenceTheorems, TLAPS

Computing == {"get_or_set", "memo", "bypass"}
Reading   == Computing \cup {"get", "update_timeout"}
Writing  == Computing \cup {"set", "update_timeout"}

Sqlites == {"sqlite", "async_sqlite"}
Servers == {"redis", "async_redis", "memcached", "async_memcached"}

Labels == {"idle", "refuse", "start", "find", "fetch", "judge", "drop", "pop", "set", "echo",
           "purge", "recheck", "delete", "exists", "write", "compute"}

Answers == {Nothing, Abs!NotFound, Abs!Stored, Abs!Raised, Abs!Removed(TRUE), Abs!Removed(FALSE)}
           \cup [result : {"value"}, value : Nat]

CallsOK ==
  /\ call \in [Users -> Calls \cup {Nothing}]
  /\ pc \in [Users -> Labels]
  /\ answer \in [Users -> Answers]
  /\ asks \in Nat

(* The call has its value, and is to store it. *)
HasValue(u) ==
  \/ pc[u] \in {"set", "echo", "exists", "write"} /\ Op(u) \in Computing
  \/ pc[u] = "purge" /\ held[u] # Nothing

(* The operations that come to each place, and the places an adapter has. *)
OpFits(kind, place, op) ==
  /\ place = "find" => op # "set"
  /\ place \in {"fetch", "judge", "drop"} => op \in Reading
  /\ place = "recheck" => op \in Computing \cup {"get"}
  /\ place = "delete" => op \in Computing \cup {"get", "remove"}
  /\ place = "pop" => op = "remove"
  /\ place = "purge" => op \in Computing \cup {"get", "set"}
  /\ place = "compute" => op \in Computing
  /\ place \in {"set", "exists", "write"} => op \in Writing
  /\ place = "echo" => op \in Computing \cup {"set"}
  /\ kind \in Sqlites => ~(place = "judge" /\ op = "update_timeout") /\ (place = "set" => op \in Computing)
  /\ kind \in Servers => ~(place = "delete" /\ op # "remove")
  /\ place \in {"fetch", "drop", "pop", "echo"} => kind = "memory"
  /\ kind = "async_memory" => /\ place \in {"refuse", "start", "compute", "set"}
                              /\ place = "set" => op \in Computing

At(u) ==
  /\ u \in setup.crew /\ call[u] \in Calls /\ call[u].since <= now /\ call[u].id <= asks
  /\ OpFits(setup.kind, pc[u], Op(u))
  /\ pc[u] = "refuse" => call[u].timeout = Unset
  /\ pc[u] = "start" => call[u].all
  /\ pc[u] = "compute" => call[u].missed \/ Op(u) = "bypass"
  /\ pc[u] # "refuse" /\ Op(u) = "update_timeout" => call[u].timeout # Unset

HeldOK(u) ==
  /\ HasValue(u) => /\ held[u] # Nothing /\ held[u].value \in {0, call[u].id}
                    /\ call[u].missed \/ Op(u) = "bypass"
                    /\ Op(u) \in Computing
  /\ pc[u] \notin {"idle", "compute"} /\ ~HasValue(u) => ~call[u].missed
  /\ pc[u] \in {"idle", "refuse", "start", "find", "fetch", "pop", "compute"} => held[u] = Nothing
  /\ pc[u] = "delete" /\ Op(u) = "remove" => held[u] = Nothing
  /\ pc[u] = "judge" => held[u] # Nothing
  /\ pc[u] \in {"set", "exists", "write"} /\ Op(u) = "update_timeout" => held[u] # Nothing
  /\ pc[u] = "write" /\ ~Sync => plan[u].until \in Abs!Deadlines(call[u])

ControlInv == CallsOK /\ \A u \in Users : (pc[u] # "idle" => At(u)) /\ HeldOK(u)

(* One caller: what it has found out is still so. *)
Alone == Cardinality(setup.crew) = 1

StillSo(u) ==
  LET e == store[Key(u)]
  IN  /\ pc[u] \in {"fetch", "pop", "echo"} => e # Nothing
      /\ pc[u] = "judge" => e = held[u]
      /\ pc[u] \in {"drop", "recheck"} => Abs!Due(e)
      /\ pc[u] = "delete" => e # Nothing /\ (Op(u) # "remove" => Abs!Due(e))
      /\ pc[u] \in {"set", "exists", "write"} /\ Op(u) = "update_timeout" => e # Nothing /\ e = held[u]
      /\ pc[u] = "write" => (plan[u].exists <=> e # Nothing)

SoloInv == Alone => \A u \in Users : StillSo(u)

IInv == TypeOK /\ ControlInv /\ SoloInv

-----------------------------------------------------------------------------
(* Calls that do not take the step *)

World == setup' = setup /\ now' \in Nat /\ now <= now' /\ asks' \in Nat /\ asks <= asks'

SameHeld(w) == /\ held'[w] = Nothing <=> held[w] = Nothing
               /\ held[w] # Nothing => held'[w].value = held[w].value

Steady(w) == pc'[w] = pc[w] /\ call'[w] = call[w] /\ plan'[w] = plan[w] /\ SameHeld(w)

LEMMA Numbers ==
  ASSUME TypeOK, ControlInv
  PROVE  /\ now \in Nat \ {0} /\ asks \in Nat
         /\ \A u \in Users : pc[u] # "idle" => call[u] \in Calls /\ call[u].since \in Nat /\ call[u].id \in Nat
<1>1. now \in Nat \ {0} /\ asks \in Nat
  BY CallsAssumption DEF TypeOK, ControlInv, CallsOK
<1>2. \A u \in Users : pc[u] # "idle" => call[u] \in Calls
  BY DEF ControlInv, At
<1> QED
  BY <1>1, <1>2 DEF Calls

Fine(u) == (pc[u] # "idle" => At(u)) /\ HeldOK(u)

LEMMA SteadyKeeps ==
  ASSUME TypeOK, ControlInv, World, NEW w \in Users, Steady(w)
  PROVE  Fine(w)'
<1>1. Fine(w)
  BY DEF ControlInv, Fine
<1>2. Op(w)' = Op(w) /\ (HasValue(w)' <=> HasValue(w)) /\ Sync' = Sync /\ setup' = setup
      /\ pc'[w] = pc[w] /\ call'[w] = call[w]
  BY DEF Op, HasValue, Sync, World, Steady, SameHeld
<1>3. ASSUME pc[w] # "idle" PROVE At(w)'
  <2>1. call'[w].since <= now' /\ call'[w].id <= asks'
    BY <1>1, <1>2, <1>3, Numbers DEF Fine, At, World
  <2> QED
    BY <1>1, <1>2, <1>3, <2>1 DEF Fine, At
<1>4. HeldOK(w)'
  <2>1. pc[w] = "write" /\ ~Sync => plan'[w].until \in Abs!Deadlines(call[w])'
    <3> SUFFICES ASSUME pc[w] = "write", ~Sync PROVE plan'[w].until \in Abs!Deadlines(call[w])'
      OBVIOUS
    <3>1. call[w] \in Calls /\ plan[w].until \in Abs!Deadlines(call[w]) /\ now \in Nat
      BY <1>1, Numbers DEF Fine, HeldOK
    <3>2. plan[w].until \in Abs!Deadlines(call[w])'
      BY <1>2, <3>1 DEF World, Abs!Deadlines, Calls, Abs!Never, Abs!Unset, Never, Unset
    <3> QED
      BY <3>2 DEF Steady
  <2> QED
    BY <1>1, <1>2, <2>1 DEF Fine, HeldOK, World, Steady, SameHeld
<1> QED
  BY <1>2, <1>3, <1>4 DEF Fine

-----------------------------------------------------------------------------
(* The ways a call can go on *)

Keeps(u) == CallsOK' /\ Fine(u)'

LEMMA EndKeeps ==
  ASSUME TypeOK, ControlInv, World, NEW u \in Users, NEW r \in Answers, Answer(u, r),
         held'[u] = Nothing
  PROVE  Keeps(u)
<1>1. CallsOK'
  BY DEF CallsOK, ControlInv, World, Answer, Labels
<1>2. pc'[u] = "idle"
  BY DEF CallsOK, ControlInv, Answer
<1>3. ~HasValue(u)'
  BY <1>2 DEF HasValue
<1> QED
  BY <1>1, <1>2, <1>3 DEF Keeps, Fine, HeldOK

LEMMA KeyLists ==
  ASSUME NEW s \in Seq(Keys), s # <<>>
  PROVE  /\ Head(s) \in Keys /\ Head(s) = s[1] /\ Len(s) \in Nat \ {0} /\ s[1] \in Keys
         /\ Tail(s) = SubSeq(s, 2, Len(s)) /\ Tail(s) \in Seq(Keys)
         /\ Len(s) # 1 => Tail(s) # <<>>
<1>1. Head(s) \in Keys /\ Head(s) = s[1] /\ Len(s) \in Nat \ {0} /\ s[1] \in Keys
  OBVIOUS
<1>2. Tail(s) \in Seq(Keys) /\ Len(Tail(s)) = Len(s) - 1
  OBVIOUS
<1>3. Tail(s) = SubSeq(s, 2, Len(s))
  BY TailIsSubSeq
<1> QED
  BY <1>1, <1>2, <1>3

LEMMA CallTypes ==
  ASSUME NEW c \in Calls
  PROVE  /\ [c EXCEPT !.missed = TRUE] \in Calls
         /\ c.keys \in Seq(Keys) /\ c.keys # <<>> /\ Head(c.keys) \in Keys /\ Head(c.keys) = c.keys[1]
         /\ Len(c.keys) \in Nat \ {0} /\ c.keys[1] \in Keys
         /\ Len(c.keys) # 1 => Tail(c.keys) \in Seq(Keys) \ {<<>>}
         /\ c # Nothing /\ c.op \in Abs!Ops
         /\ c.timeout \in Nat \cup {Unset} /\ c.id \in Nat \ {0} /\ c.since \in Nat
<1>1. /\ c.keys \in Seq(Keys) /\ c.keys # <<>> /\ c.op \in Abs!Ops
      /\ c.timeout \in Nat \cup {Unset} /\ c.id \in Nat \ {0} /\ c.since \in Nat
  BY DEF Calls
<1>2. /\ Head(c.keys) \in Keys /\ Head(c.keys) = c.keys[1]
      /\ Len(c.keys) \in Nat \ {0} /\ c.keys[1] \in Keys
      /\ Len(c.keys) # 1 => Tail(c.keys) \in Seq(Keys) \ {<<>>}
  BY <1>1, KeyLists
<1>3. [c EXCEPT !.missed = TRUE] \in Calls
  BY DEF Calls
<1>4. c # Nothing
  BY NothingAssumption
<1> QED
  BY <1>1, <1>2, <1>3, <1>4

LEMMA MissKeeps ==
  ASSUME TypeOK, ControlInv, World, NEW u \in Users, pc[u] # "idle", Op(u) \in Reading, Miss(u),
         held'[u] = Nothing
  PROVE  Keeps(u)
<1>1. CASE Op(u) \in {"get", "update_timeout"}
  <2>1. Abs!NotFound \in Answers /\ Answer(u, Abs!NotFound)
    BY <1>1 DEF Miss, Answers
  <2> QED
    BY <2>1, EndKeeps
<1>2. CASE Op(u) \in Computing
  <2>1. At(u) /\ call \in [Users -> Calls \cup {Nothing}] /\ pc \in [Users -> Labels]
    BY DEF ControlInv, CallsOK
  <2>2. pc' = [pc EXCEPT ![u] = "compute"] /\ call' = [call EXCEPT ![u].missed = TRUE] /\ answer' = answer
    BY <1>2 DEF Miss, Computing
  <2>3. /\ pc'[u] = "compute" /\ call'[u] = [call[u] EXCEPT !.missed = TRUE] /\ call[u] \in Calls
        /\ u \in setup.crew /\ call[u].since <= now /\ call[u].id <= asks
    BY <2>1, <2>2 DEF At
  <2>4. call'[u] \in Calls /\ call' \in [Users -> Calls \cup {Nothing}] /\ pc' \in [Users -> Labels]
    BY <2>1, <2>2, <2>3, CallTypes DEF Labels
  <2>5. CallsOK'
    BY <2>2, <2>4 DEF CallsOK, ControlInv, World
  <2>6. /\ call'[u].op = call[u].op /\ call'[u].since = call[u].since /\ call'[u].id = call[u].id
        /\ call'[u].timeout = call[u].timeout /\ call'[u].missed
    BY <2>3 DEF Calls
  <2>7. At(u)'
    <3>1. call'[u].since <= now' /\ call'[u].id <= asks'
      BY <2>3, <2>6, Numbers DEF World
    <3> QED
      BY <1>2, <2>3, <2>4, <2>6, <3>1 DEF At, Op, OpFits, World, Computing
  <2>8. HeldOK(u)'
    BY <2>3 DEF HeldOK, HasValue
  <2> QED
    BY <2>5, <2>7, <2>8 DEF Keeps, Fine
<1> QED
  BY <1>1, <1>2 DEF Reading

LEMMA NextKeyKeeps ==
  ASSUME TypeOK, ControlInv, World, NEW u \in Users, pc[u] # "idle", Op(u) = "remove",
         ~call[u].missed, setup.kind # "async_memory", NEW b \in BOOLEAN, NextKey(u, b),
         held'[u] = Nothing
  PROVE  Keeps(u)
<1>1. At(u) /\ call \in [Users -> Calls \cup {Nothing}] /\ pc \in [Users -> Labels]
  BY DEF ControlInv, CallsOK
<1>2. call[u] \in Calls /\ u \in setup.crew /\ call[u].since <= now /\ call[u].id <= asks
  BY <1>1 DEF At
<1>3. (call[u].all /\ b) \in BOOLEAN
  OBVIOUS
<1>4. CASE Len(call[u].keys) = 1
  <2>1. Abs!Removed(call[u].all /\ b) \in Answers /\ Answer(u, Abs!Removed(call[u].all /\ b))
    BY <1>3, <1>4 DEF NextKey, Answers
  <2> QED
    BY <2>1, EndKeeps
<1>5. CASE Len(call[u].keys) # 1
  <2>2. /\ pc' = [pc EXCEPT ![u] = "find"] /\ answer' = answer
        /\ call' = [call EXCEPT ![u].keys = Tail(@), ![u].all = @ /\ b]
    BY <1>5 DEF NextKey
  <2>3. pc'[u] = "find" /\ call'[u] = [call[u] EXCEPT !.keys = Tail(@), !.all = @ /\ b]
    BY <1>1, <2>2
  <2>4. call'[u] \in Calls /\ call' \in [Users -> Calls \cup {Nothing}] /\ pc' \in [Users -> Labels]
    <3>1. call[u].keys # <<>> /\ Tail(call[u].keys) \in Seq(Keys) \ {<<>>}
      BY <1>2, <1>5, CallTypes
    <3>2. call'[u] \in Calls
      BY <1>2, <1>3, <2>3, <3>1 DEF Calls
    <3> QED
      BY <1>1, <2>2, <3>2 DEF Labels
  <2>5. CallsOK'
    BY <2>2, <2>4 DEF CallsOK, ControlInv, World
  <2>6. /\ call'[u].op = call[u].op /\ call'[u].since = call[u].since /\ call'[u].id = call[u].id
        /\ call'[u].timeout = call[u].timeout /\ ~call'[u].missed
    BY <1>2, <2>3 DEF Calls
  <2>7. At(u)'
    <3>1. call'[u].since <= now' /\ call'[u].id <= asks'
      BY <1>2, <2>6, Numbers DEF World
    <3> QED
      BY <1>2, <2>3, <2>4, <2>6, <3>1 DEF At, Op, OpFits, World
  <2>8. HeldOK(u)'
    BY <2>3, <2>6 DEF HeldOK, HasValue, World
  <2> QED
    BY <2>5, <2>7, <2>8 DEF Keeps, Fine
<1> QED
  BY <1>4, <1>5

LEMMA GotoKeeps ==
  ASSUME TypeOK, ControlInv, World, NEW u \in Users, pc[u] \notin {"idle", "refuse"},
         NEW place \in Labels \ {"idle", "refuse", "start"}, OpFits(setup.kind, place, Op(u)),
         place = "compute" => call[u].missed \/ Op(u) = "bypass",
         Goto(u, place), HeldOK(u)'
  PROVE  Keeps(u)
<1>1. At(u) /\ call \in [Users -> Calls \cup {Nothing}] /\ pc \in [Users -> Labels]
  BY DEF ControlInv, CallsOK
<1>2. CallsOK' /\ pc'[u] = place /\ call'[u] = call[u] /\ Op(u)' = Op(u)
  BY <1>1 DEF CallsOK, ControlInv, World, Goto, Op
<1>3. call'[u].since <= now' /\ call'[u].id <= asks'
  BY <1>1, <1>2, Numbers DEF At, World
<1>4. At(u)'
  BY <1>1, <1>2, <1>3 DEF At, World
<1> QED
  BY <1>2, <1>4 DEF Keeps, Fine

(* The held entry after a Goto. *)
LEMMA HeldGoto ==
  ASSUME ControlInv, NEW u \in Users, NEW place, Goto(u, place)
  PROVE  pc'[u] = place /\ call'[u] = call[u] /\ Op(u)' = Op(u)
BY DEF ControlInv, CallsOK, Goto, Op

LEMMA HitKeeps ==
  ASSUME TypeOK, ControlInv, World, NEW u \in Users, pc[u] \in {"start", "find", "judge"},
         Op(u) \in Reading, NEW v \in Nat, Hit(u, v),
         setup.kind \in {"async_memory"} \cup Sqlites => Op(u) # "update_timeout",
         held'[u] = Nothing <=> Op(u) # "update_timeout"
  PROVE  Keeps(u)
<1>1. CASE Op(u) = "memo" /\ v = 0
  BY <1>1, MissKeeps DEF Hit
<1>2. CASE Op(u) \in {"get", "get_or_set"} \/ (Op(u) = "memo" /\ v # 0)
  <2>1. Abs!Found(v) \in Answers /\ Answer(u, Abs!Found(v))
    BY <1>2 DEF Hit, Answers, Abs!Found
  <2> QED
    BY <1>2, <2>1, EndKeeps
<1>3. CASE Op(u) = "bypass"
  <2>1. Goto(u, "compute") /\ held'[u] = Nothing
    BY <1>3 DEF Hit
  <2>2. HeldOK(u)'
    BY <2>1, HeldGoto DEF HeldOK, HasValue
  <2> QED
    BY <1>3, <2>1, <2>2, GotoKeeps DEF Labels, OpFits, Computing
<1>4. CASE Op(u) = "update_timeout"
  <2>1. Goto(u, "set")
    BY <1>4 DEF Hit
  <2>2. HeldOK(u)'
    <3>1. HeldOK(u) /\ ~HasValue(u) /\ ~HasValue(u)'
      BY <1>4, <2>1, HeldGoto DEF ControlInv, HasValue, Computing
    <3> QED
      BY <1>4, <2>1, <3>1, HeldGoto DEF HeldOK
  <2>3. OpFits(setup.kind, "set", Op(u))
    BY <1>4 DEF OpFits, Writing
  <2> QED
    BY <2>1, <2>2, <2>3, GotoKeeps DEF Labels
<1> QED
  BY <1>1, <1>2, <1>3, <1>4 DEF Reading, Computing

(* The others do not take part in u's step. *)
LEMMA OthersSteady ==
  ASSUME TypeOK, ControlInv, NEW u \in Users, NEW w \in Users \ {u},
         \/ \E place : Goto(u, place)
         \/ \E r : Answer(u, r)
         \/ \E v : Hit(u, v) /\ Op(u) \in Reading
         \/ Miss(u)
         \/ \E b : NextKey(u, b),
         SameHeld(w), plan'[w] = plan[w]
  PROVE  Steady(w)
<1> USE DEF ControlInv, CallsOK, Steady
<1>1. CASE (\E place : Goto(u, place)) \/ (\E r : Answer(u, r))
  BY <1>1 DEF Goto, Answer
<1>2. ASSUME Miss(u) PROVE Steady(w)
  BY <1>2 DEF Miss, Answer
<1>3. ASSUME NEW v, Hit(u, v), Op(u) \in Reading PROVE Steady(w)
  BY <1>3, <1>1, <1>2 DEF Hit, Reading, Computing
<1>4. ASSUME NEW b, NextKey(u, b) PROVE Steady(w)
  BY <1>4 DEF NextKey, Answer
<1> QED
  BY <1>1, <1>2, <1>3, <1>4

\* What is known of the caller before its step.
LEMMA Before ==
  ASSUME TypeOK, ControlInv, NEW u \in Users, pc[u] # "idle"
  PROVE  /\ At(u) /\ HeldOK(u) /\ Key(u) \in Keys /\ call[u] \in Calls
         /\ Nothing \notin Entry /\ held[u] \in Entry \cup {Nothing} /\ store[Key(u)] \in Entry \cup {Nothing}
         /\ Entry \subseteq [value : Nat, until : Nat]
         /\ DOMAIN held = Users /\ DOMAIN plan = Users
<1>1. At(u) /\ HeldOK(u) /\ call[u] \in Calls
  BY DEF ControlInv, At
<1>2. Key(u) \in Keys
  BY <1>1, CallTypes DEF Key
<1>3. Entry \subseteq [value : Nat, until : Nat]
  BY Numbers DEF Entry
<1> QED
  BY <1>1, <1>2, <1>3, NothingAssumption DEF TypeOK

\* The call ends with an exception.
LEMMA RaiseKeeps ==
  ASSUME TypeOK, ControlInv, World, NEW u \in Users, Raise(u)
  PROVE  Keeps(u) /\ \A w \in Users \ {u} : Steady(w)
<1>1. Answer(u, Abs!Raised) /\ Abs!Raised \in Answers
  BY DEF Raise, Answers
<1>2. held'[u] = Nothing /\ \A w \in Users \ {u} : SameHeld(w) /\ plan'[w] = plan[w]
  BY DEF Raise, Forgets, SameHeld, TypeOK
<1> QED
  BY <1>1, <1>2, EndKeeps, OthersSteady

\* A write is answered with the value written.
LEMMA WroteEnds ==
  ASSUME TypeOK, ControlInv, NEW u \in Users, pc[u] # "idle", Op(u) = "set" \/ held[u] # Nothing,
         Wrote(u)
  PROVE  \E r \in Answers : Answer(u, r)
<1>1. CASE Op(u) = "set"
  BY <1>1 DEF Wrote, Answers
<1>2. CASE Op(u) # "set"
  <2>1. held[u].value \in Nat
    BY <1>2, Before
  <2>2. Abs!Found(held[u].value) \in Answers
    BY <2>1 DEF Answers, Abs!Found
  <2> QED
    BY <1>2, <2>2 DEF Wrote
<1> QED
  BY <1>1, <1>2

LEMMA MemoryKeeps ==
  ASSUME TypeOK, ControlInv, NEW u \in Users, MemoryStep(u)
  PROVE  World /\ Keeps(u) /\ \A w \in Users \ {u} : Steady(w)
<1>1. World /\ setup.kind = "memory"
  BY Numbers DEF MemoryStep, World
<1> USE DEF OpFits, Reading, Writing, Computing, Labels
<1>2. CASE MStart(u)
  <2>1. PICK place \in {"set", "find"} : Goto(u, place) /\ (place = "set" <=> Op(u) = "set")
    BY <1>2 DEF MStart
  <2>2. pc[u] = "start" /\ At(u) /\ HeldOK(u)
    BY <1>2, Before DEF MStart
  <2>3. HeldOK(u)'
    BY <1>2, <2>1, <2>2, HeldGoto DEF MStart, HeldOK, HasValue
  <2>4. OpFits(setup.kind, place, Op(u))
    BY <1>1, <2>1 DEF Sqlites
  <2> HIDE DEF OpFits
  <2>5. Keeps(u)
    BY <1>1, <2>1, <2>2, <2>3, <2>4, GotoKeeps
  <2>6. \A w \in Users \ {u} : Steady(w)
    BY <1>2, <2>1, OthersSteady DEF MStart, SameHeld
  <2> QED
    BY <1>1, <2>5, <2>6
<1>3. CASE MFind(u)
  <2>1. pc[u] = "find" /\ At(u) /\ HeldOK(u) /\ held[u] = Nothing /\ ~HasValue(u) /\ ~call[u].missed
        /\ UNCHANGED <<held, plan>>
    BY <1>3, Before DEF MFind, HeldOK, HasValue
  <2>2. CASE \E place \in {"pop", "fetch"} : Goto(u, place) /\ (place = "pop" <=> Op(u) = "remove")
    <3>1. PICK place \in {"pop", "fetch"} : Goto(u, place) /\ (place = "pop" <=> Op(u) = "remove")
      BY <2>2
    <3>2. HeldOK(u)'
      BY <2>1, <3>1, HeldGoto DEF HeldOK, HasValue
    <3>3. OpFits(setup.kind, place, Op(u))
      BY <1>1, <2>1, <3>1, CallTypes DEF At, Abs!Ops, Op, Sqlites
    <3> HIDE DEF OpFits
    <3>4. Keeps(u)
      BY <1>1, <2>1, <3>1, <3>2, <3>3, GotoKeeps
    <3> QED
      BY <1>1, <2>1, <3>1, <3>4, OthersSteady DEF SameHeld
  <2>3. CASE NextKey(u, FALSE) /\ Op(u) = "remove"
    BY <1>1, <2>1, <2>3, NextKeyKeeps, OthersSteady DEF SameHeld
  <2>4. CASE Miss(u) /\ Op(u) # "remove"
    <3>1. Op(u) \in Reading
      BY <2>1, <2>4, CallTypes DEF At, Abs!Ops, Op
    <3> QED
      BY <1>1, <2>1, <2>4, <3>1, MissKeeps, OthersSteady DEF SameHeld
  <2> QED
    BY <1>3, <2>2, <2>3, <2>4 DEF MFind
<1>4. CASE MFetch(u)
  <2>1. pc[u] = "fetch" /\ At(u) /\ HeldOK(u) /\ ~HasValue(u) /\ ~call[u].missed
    BY <1>4, Before DEF MFetch, HeldOK, HasValue
  <2>2. CASE KeyError(u)
    BY <1>1, <2>2, RaiseKeeps DEF KeyError
  <2>3. CASE ~KeyError(u)
    <3>1. /\ store[Key(u)] # Nothing /\ held' = [held EXCEPT ![u] = store[Key(u)]]
          /\ Goto(u, "judge") /\ plan' = plan
      BY <1>4, <2>3 DEF MFetch
    <3>2. HeldOK(u)'
      BY <2>1, <3>1, HeldGoto, Before DEF HeldOK, HasValue
    <3>3. OpFits(setup.kind, "judge", Op(u))
      BY <1>1, <2>1 DEF At, Sqlites
    <3> HIDE DEF OpFits
    <3>4. Keeps(u)
      BY <1>1, <2>1, <3>1, <3>2, <3>3, GotoKeeps
    <3> QED
      BY <1>1, <3>1, <3>4, OthersSteady DEF SameHeld, TypeOK
  <2> QED
    BY <2>2, <2>3
<1>5. CASE MJudge(u)
  <2>1. pc[u] = "judge" /\ At(u) /\ HeldOK(u) /\ ~HasValue(u) /\ ~call[u].missed /\ held[u] # Nothing
        /\ Op(u) \in Reading /\ plan' = plan
    BY <1>5, Before DEF MJudge, HeldOK, HasValue, At
  <2>2. CASE Expired(held[u])
    <3>1. Goto(u, "drop") /\ held' = held
      BY <1>5, <2>2 DEF MJudge
    <3>2. HeldOK(u)'
      BY <2>1, <3>1, HeldGoto DEF HeldOK, HasValue
    <3>3. OpFits(setup.kind, "drop", Op(u))
      BY <1>1, <2>1
    <3> HIDE DEF OpFits
    <3>4. Keeps(u)
      BY <1>1, <2>1, <3>1, <3>2, <3>3, GotoKeeps
    <3> QED
      BY <1>1, <2>1, <3>1, <3>4, OthersSteady DEF SameHeld
  <2>3. CASE ~Expired(held[u])
    <3>1. Hit(u, held[u].value) /\ held' = [held EXCEPT ![u] = IF pc'[u] = "set" THEN @ ELSE Nothing]
      BY <1>5, <2>3 DEF MJudge
    <3>2. held[u].value \in Nat
      BY <2>1, Before
    <3>3. pc'[u] = "set" <=> Op(u) = "update_timeout"
      BY <2>1, <3>1 DEF Hit, Miss, Answer, Goto, ControlInv, CallsOK
    <3>4. held'[u] = Nothing <=> Op(u) # "update_timeout"
      BY <2>1, <3>1, <3>3 DEF TypeOK
    <3>5. Keeps(u)
      BY <1>1, <2>1, <3>1, <3>2, <3>4, HitKeeps DEF Sqlites
    <3> QED
      BY <1>1, <2>1, <3>1, <3>5, OthersSteady DEF SameHeld, TypeOK
  <2> QED
    BY <2>2, <2>3
<1>6. CASE MDrop(u)
  <2>1. pc[u] = "drop" /\ At(u) /\ Op(u) \in Reading
    BY <1>6, Before DEF MDrop, At
  <2>2. CASE KeyError(u)
    BY <1>1, <2>2, RaiseKeeps DEF KeyError
  <2>3. CASE Miss(u) /\ Forgets(u)
    <3>1. held'[u] = Nothing /\ \A w \in Users \ {u} : SameHeld(w) /\ plan'[w] = plan[w]
      BY <2>3 DEF Forgets, SameHeld, TypeOK
    <3> QED
      BY <1>1, <2>1, <2>3, <3>1, MissKeeps, OthersSteady
  <2> QED
    BY <1>6, <2>2, <2>3 DEF MDrop
<1>7. CASE MPop(u)
  <2>1. pc[u] = "pop" /\ At(u) /\ Op(u) = "remove" /\ held[u] = Nothing /\ ~call[u].missed
    BY <1>7, Before DEF MPop, At, HeldOK, HasValue
  <2>2. CASE KeyError(u)
    BY <1>1, <2>2, RaiseKeeps DEF KeyError
  <2>3. CASE NextKey(u, TRUE) /\ UNCHANGED <<held, plan>>
    BY <1>1, <2>1, <2>3, NextKeyKeeps, OthersSteady DEF SameHeld
  <2> QED
    BY <1>7, <2>2, <2>3 DEF MPop
<1>8. CASE MSet(u)
  <2>1. pc[u] = "set" /\ At(u) /\ HeldOK(u) /\ Op(u) \in Computing \cup {"set"}
    BY <1>8, Before DEF MSet, At
  <2>2. CASE Raise(u)
    BY <1>1, <2>2, RaiseKeeps
  <2>3. CASE Goto(u, "echo") /\ UNCHANGED <<held, plan>>
    <3>1. HeldOK(u)'
      BY <2>1, <2>3, HeldGoto DEF HeldOK, HasValue
    <3>2. OpFits(setup.kind, "echo", Op(u))
      BY <1>1, <2>1 DEF Sqlites, Servers
    <3> HIDE DEF OpFits
    <3>3. Keeps(u)
      BY <1>1, <2>1, <2>3, <3>1, <3>2, GotoKeeps
    <3> QED
      BY <1>1, <2>3, <3>3, OthersSteady DEF SameHeld
  <2> QED
    BY <1>8, <2>2, <2>3 DEF MSet
<1>9. CASE MEcho(u)
  <2>1. pc[u] = "echo" /\ At(u) /\ (Op(u) = "set" \/ held[u] # Nothing)
    BY <1>9, Before DEF MEcho, At, HeldOK, HasValue
  <2>2. CASE KeyError(u)
    BY <1>1, <2>2, RaiseKeeps DEF KeyError
  <2>3. CASE Wrote(u) /\ Forgets(u)
    <3>1. held'[u] = Nothing /\ \A w \in Users \ {u} : SameHeld(w) /\ plan'[w] = plan[w]
      BY <2>3 DEF Forgets, SameHeld, TypeOK
    <3> QED
      BY <1>1, <2>1, <2>3, <3>1, WroteEnds, EndKeeps, OthersSteady
  <2> QED
    BY <1>9, <2>2, <2>3 DEF MEcho
<1>10. CASE MRetime(u)
  <2>1. pc[u] = "set" /\ At(u) /\ held[u] # Nothing
    BY <1>10, Before DEF MRetime, At, HeldOK, HasValue
  <2>2. CASE KeyError(u)
    BY <1>1, <2>2, RaiseKeeps DEF KeyError
  <2>3. CASE ~KeyError(u)
    <3> DEFINE e == [store[Key(u)] EXCEPT !.until = now + call[u].timeout]
    <3>1. /\ store[Key(u)] # Nothing /\ Wrote(u) /\ plan' = plan
          /\ held' = [w \in Users |-> IF w = u THEN Nothing
                                      ELSE IF held[w] = store[Key(u)] THEN e ELSE held[w]]
      BY <1>10, <2>3 DEF MRetime
    <3>2. store[Key(u)] \in [value : Nat, until : Nat]
      BY <2>1, <3>1, Before
    <3>3. e = [value |-> store[Key(u)].value, until |-> now + call[u].timeout]
      BY <3>2
    <3> HIDE DEF e
    <3>4. e.value = store[Key(u)].value /\ e # Nothing
      <4>1. call[u].timeout \in Nat /\ now \in Nat
        BY <1>10, <2>1, Numbers, CallTypes DEF MRetime, At
      <4>2. e \in [value : Nat, until : Nat]
        BY <3>2, <3>3, <4>1
      <4> QED
        BY <3>3, <4>2, NothingAssumption
    <3>5. held'[u] = Nothing /\ \A w \in Users \ {u} : SameHeld(w)
      BY <3>1, <3>4 DEF SameHeld
    <3> QED
      BY <1>1, <2>1, <3>1, <3>5, WroteEnds, EndKeeps, OthersSteady
  <2> QED
    BY <2>2, <2>3
<1> QED
  BY <1>2, <1>3, <1>4, <1>5, <1>6, <1>7, <1>8, <1>9, <1>10 DEF MemoryStep

LEMMA AsyncMemoryKeeps ==
  ASSUME TypeOK, ControlInv, NEW u \in Users, AsyncMemoryStep(u)
  PROVE  World /\ Keeps(u) /\ \A w \in Users \ {u} : Steady(w)
<1>1. World /\ setup.kind = "async_memory" /\ now \in Nat
  BY Numbers DEF AsyncMemoryStep, World
<1>2. CASE AGet(u)
  <2>1. /\ pc[u] = "start" /\ At(u) /\ HeldOK(u) /\ held[u] = Nothing /\ UNCHANGED <<held, plan>>
        /\ Op(u) \in Reading
    BY <1>2, Before, CallTypes DEF AGet, HeldOK, Op, Abs!Ops, Reading, Computing
  <2>2. CASE Miss(u)
    BY <1>1, <2>1, <2>2, MissKeeps, OthersSteady DEF SameHeld
  <2>3. CASE /\ Kept(Key(u)) # Nothing /\ Op(u) = "update_timeout"
             /\ Answer(u, Abs!Found(Kept(Key(u)).value))
    <3>1. Abs!Found(Kept(Key(u)).value) \in Answers
      BY <2>1, <2>3, Before DEF Kept, Answers, Abs!Found
    <3> QED
      BY <1>1, <2>1, <2>3, <3>1, EndKeeps, OthersSteady DEF SameHeld
  <2>4. CASE Kept(Key(u)) # Nothing /\ Op(u) # "update_timeout" /\ Hit(u, Kept(Key(u)).value)
    <3>1. Kept(Key(u)).value \in Nat
      BY <2>1, <2>4, Before DEF Kept
    <3> QED
      BY <1>1, <2>1, <2>4, <3>1, HitKeeps, OthersSteady DEF SameHeld, Sqlites
  <2> QED
    BY <1>2, <2>2, <2>3, <2>4 DEF AGet
<1>3. CASE ASet(u)
  <2>1. pc[u] # "idle" /\ (Op(u) = "set" \/ held[u] # Nothing)
    BY <1>1, <1>3, Before DEF ASet, At, OpFits, HeldOK, HasValue
  <2>2. CASE Raise(u)
    BY <1>1, <2>2, RaiseKeeps
  <2>3. CASE Wrote(u) /\ Forgets(u)
    <3>1. held'[u] = Nothing /\ \A w \in Users \ {u} : SameHeld(w) /\ plan'[w] = plan[w]
      BY <2>3 DEF Forgets, SameHeld, TypeOK
    <3> QED
      BY <1>1, <2>1, <2>3, <3>1, WroteEnds, EndKeeps, OthersSteady
  <2> QED
    BY <1>3, <2>2, <2>3 DEF ASet
<1>4. CASE ARemove(u)
  <2>1. pc[u] = "start" /\ held[u] = Nothing /\ UNCHANGED <<held, plan>>
    BY <1>4, Before DEF ARemove, HeldOK
  <2>2. PICK r \in Answers : Answer(u, r)
    BY <1>4 DEF ARemove, Answers
  <2> QED
    BY <1>1, <2>1, <2>2, EndKeeps, OthersSteady DEF SameHeld
<1> QED
  BY <1>2, <1>3, <1>4 DEF AsyncMemoryStep

LEMMA ServerKeeps ==
  ASSUME TypeOK, ControlInv, NEW u \in Users, ServerStep(u)
  PROVE  World /\ Keeps(u) /\ \A w \in Users \ {u} : Steady(w)
<1>1. World /\ setup.kind \in Servers /\ setup.kind \notin Sqlites \cup {"memory", "async_memory"}
  BY Numbers DEF ServerStep, World, Servers, Sqlites
<1> USE DEF Reading, Writing, Computing, Labels
<1>2. CASE VStart(u)
  <2>1. PICK place \in {"set", "find"} : Goto(u, place) /\ (place = "set" <=> Op(u) = "set")
    BY <1>2 DEF VStart
  <2>2. pc[u] = "start" /\ At(u) /\ HeldOK(u)
    BY <1>2, Before DEF VStart
  <2>3. HeldOK(u)'
    BY <1>2, <2>1, <2>2, HeldGoto DEF VStart, HeldOK, HasValue
  <2>4. OpFits(setup.kind, place, Op(u))
    BY <1>1, <2>1 DEF OpFits
  <2>5. Keeps(u)
    BY <1>1, <2>1, <2>2, <2>3, <2>4, GotoKeeps
  <2> QED
    BY <1>1, <1>2, <2>1, <2>5, OthersSteady DEF VStart, SameHeld
<1>3. CASE VGet(u)
  <2>1. /\ pc[u] = "find" /\ At(u) /\ HeldOK(u) /\ ~HasValue(u) /\ ~call[u].missed /\ plan' = plan
        /\ Op(u) # "set" /\ held[u] = Nothing
    BY <1>3, Before DEF VGet, HeldOK, HasValue, At, OpFits
  <2>2. held' = [held EXCEPT ![u] = IF pc'[u] = "set" THEN store[Key(u)] ELSE Nothing]
    BY <1>3 DEF VGet
  <2>3. \A w \in Users \ {u} : SameHeld(w) /\ plan'[w] = plan[w]
    BY <2>1, <2>2 DEF SameHeld, TypeOK
  <2>4. pc'[u] # "set" => held'[u] = Nothing
    BY <2>2 DEF TypeOK
  <2>5. CASE Goto(u, "delete") /\ Op(u) = "remove"
    <3>1. HeldOK(u)'
      BY <2>1, <2>4, <2>5, HeldGoto DEF HeldOK, HasValue
    <3>2. OpFits(setup.kind, "delete", Op(u))
      BY <1>1, <2>5 DEF OpFits
    <3>3. Keeps(u)
      BY <1>1, <2>1, <2>5, <3>1, <3>2, GotoKeeps
    <3> QED
      BY <1>1, <2>3, <2>5, <3>3, OthersSteady
  <2>6. CASE NextKey(u, FALSE) /\ Op(u) = "remove"
    <3>1. pc'[u] # "set"
      BY <2>6 DEF NextKey, Answer, ControlInv, CallsOK
    <3> QED
      BY <1>1, <2>1, <2>3, <2>4, <2>6, <3>1, NextKeyKeeps, OthersSteady
  <2>7. CASE Serves(Key(u)) /\ Hit(u, store[Key(u)].value) /\ Op(u) # "remove"
    <3>1. Op(u) \in Reading
      BY <2>1, <2>7, Before, CallTypes DEF Op, Abs!Ops
    <3>2. store[Key(u)] # Nothing /\ store[Key(u)].value \in Nat
      BY <2>1, <2>7, Before DEF Serves
    <3>3. pc'[u] = "set" <=> Op(u) = "update_timeout"
      BY <2>7, <3>1 DEF Hit, Miss, Answer, Goto, ControlInv, CallsOK
    <3>4. held'[u] = Nothing <=> Op(u) # "update_timeout"
      BY <2>2, <3>2, <3>3 DEF TypeOK
    <3>5. Keeps(u)
      BY <1>1, <2>1, <2>7, <3>1, <3>2, <3>4, HitKeeps
    <3> QED
      BY <1>1, <2>3, <2>7, <3>1, <3>5, OthersSteady
  <2>8. CASE Miss(u) /\ Op(u) # "remove"
    <3>1. Op(u) \in Reading
      BY <2>1, <2>8, Before, CallTypes DEF Op, Abs!Ops
    <3>2. pc'[u] # "set"
      BY <2>8 DEF Miss, Answer, ControlInv, CallsOK
    <3> QED
      BY <1>1, <2>1, <2>3, <2>4, <2>8, <3>1, <3>2, MissKeeps, OthersSteady
  <2> QED
    BY <1>3, <2>5, <2>6, <2>7, <2>8 DEF VGet
<1>4. CASE VDelete(u)
  <2>1. /\ pc[u] = "delete" /\ At(u) /\ HeldOK(u) /\ Op(u) = "remove" /\ ~HasValue(u) /\ ~call[u].missed
        /\ NextKey(u, TRUE) /\ UNCHANGED <<held, plan>> /\ held[u] = Nothing
    BY <1>1, <1>4, Before DEF VDelete, At, OpFits, HeldOK, HasValue
  <2> QED
    BY <1>1, <2>1, NextKeyKeeps, OthersSteady DEF SameHeld
<1>5. CASE VSet(u)
  <2>1. pc[u] = "set" /\ (Op(u) = "set" \/ held[u] # Nothing)
    BY <1>5, Before DEF VSet, At, OpFits, HeldOK, HasValue
  <2>2. CASE Raise(u)
    BY <1>1, <2>2, RaiseKeeps
  <2>3. CASE Wrote(u) /\ Forgets(u)
    <3>1. held'[u] = Nothing /\ \A w \in Users \ {u} : SameHeld(w) /\ plan'[w] = plan[w]
      BY <2>3 DEF Forgets, SameHeld, TypeOK
    <3> QED
      BY <1>1, <2>1, <2>3, <3>1, WroteEnds, EndKeeps, OthersSteady
  <2> QED
    BY <1>5, <2>2, <2>3 DEF VSet
<1> QED
  BY <1>2, <1>3, <1>4, <1>5 DEF ServerStep

LEMMA CalcInTime ==
  ASSUME NEW c \in Calls, now \in Nat, now' \in Nat, now <= now', c.since <= now
  PROVE  CalcExpires(c.timeout) \in Abs!Deadlines(c)'
BY DEF Calls, CalcExpires, Abs!Deadlines, Abs!Never, Abs!Unset, Never, Unset

LEMMA SqliteKeeps ==
  ASSUME TypeOK, ControlInv, NEW u \in Users, SqliteStep(u)
  PROVE  World /\ Keeps(u) /\ \A w \in Users \ {u} : Steady(w)
<1>1. /\ World /\ setup.kind \in Sqlites /\ setup.kind \notin Servers \cup {"memory", "async_memory"}
      /\ Sync' = Sync
  BY Numbers DEF SqliteStep, World, Servers, Sqlites, Sync
<1> USE DEF Reading, Writing, Computing, Labels
<1>2. CASE QStart(u) \/ QSet(u) \/ QPurge(u)
  <2>1. /\ At(u) /\ HeldOK(u) /\ UNCHANGED <<held, plan>> /\ call[u].op \in Abs!Ops
        /\ pc[u] \in {"start", "set", "purge"}
    BY <1>2, Before, CallTypes DEF QStart, QSet, QPurge
  <2>2. PICK place \in {"purge", "exists", "find"} :
           /\ Goto(u, place)
           /\ place = "purge" => Op(u) \notin {"remove", "update_timeout"}
           /\ place = "exists" => Op(u) = "set" \/ HasValue(u)
           /\ place = "find" => Op(u) # "set" /\ held[u] = Nothing
           /\ pc[u] = "set" => place # "find"
    <3>1. CASE QStart(u)
      BY <2>1, <3>1 DEF QStart, Purges, HeldOK
    <3>2. CASE QSet(u)
      BY <1>1, <2>1, <3>2 DEF QSet, Purges, HeldOK, HasValue, At, OpFits
    <3>3. CASE QPurge(u)
      BY <1>1, <2>1, <3>3 DEF QPurge, HeldOK, HasValue, At, OpFits
    <3> QED
      BY <1>2, <3>1, <3>2, <3>3
  <2>3. HeldOK(u)'
    <3>1. pc'[u] = place /\ call'[u] = call[u] /\ Op(u)' = Op(u) /\ held'[u] = held[u]
      BY <2>1, <2>2, HeldGoto
    <3> QED
      BY <1>1, <2>1, <2>2, <3>1 DEF HeldOK, HasValue, At, OpFits
  <2>4. OpFits(setup.kind, place, Op(u))
    BY <1>1, <2>1, <2>2 DEF OpFits, Op, Abs!Ops, HasValue, At, HeldOK
  <2>5. Keeps(u)
    BY <1>1, <2>1, <2>2, <2>3, <2>4, GotoKeeps
  <2> QED
    BY <1>1, <2>1, <2>2, <2>5, OthersSteady DEF SameHeld
<1>3. CASE QFind(u)
  <2>1. /\ pc[u] = "find" /\ At(u) /\ HeldOK(u) /\ held[u] = Nothing /\ ~HasValue(u) /\ ~call[u].missed
        /\ Op(u) # "set" /\ plan' = plan /\ call[u].op \in Abs!Ops
    BY <1>3, Before, CallTypes DEF QFind, HeldOK, HasValue, At, OpFits
  <2>2. CASE NextKey(u, FALSE) /\ Op(u) = "remove" /\ UNCHANGED held
    BY <1>1, <2>1, <2>2, NextKeyKeeps, OthersSteady DEF SameHeld
  <2>3. CASE Miss(u) /\ Op(u) # "remove" /\ UNCHANGED held
    <3>1. Op(u) \in Reading
      BY <2>1, <2>3 DEF Op, Abs!Ops
    <3> QED
      BY <1>1, <2>1, <2>3, <3>1, MissKeeps, OthersSteady DEF SameHeld
  <2>4. CASE Goto(u, "delete") /\ Op(u) = "remove" /\ UNCHANGED held
    <3>1. HeldOK(u)'
      BY <2>1, <2>4, HeldGoto DEF HeldOK, HasValue
    <3>2. OpFits(setup.kind, "delete", Op(u))
      BY <1>1, <2>4 DEF OpFits
    <3>3. Keeps(u)
      BY <1>1, <2>1, <2>4, <3>1, <3>2, GotoKeeps
    <3> QED
      BY <1>1, <2>1, <2>4, <3>3, OthersSteady DEF SameHeld
  <2>5. CASE \E place \in {"exists", "judge"} :
                /\ Goto(u, place) /\ held' = [held EXCEPT ![u] = store[Key(u)]]
                /\ store[Key(u)] # Nothing /\ Op(u) # "remove"
                /\ place = "exists" <=> Op(u) = "update_timeout"
    <3>1. PICK place \in {"exists", "judge"} :
                /\ Goto(u, place) /\ held' = [held EXCEPT ![u] = store[Key(u)]]
                /\ store[Key(u)] # Nothing /\ Op(u) # "remove"
                /\ place = "exists" <=> Op(u) = "update_timeout"
      BY <2>5
    <3>2. pc'[u] = place /\ call'[u] = call[u] /\ Op(u)' = Op(u) /\ held'[u] = store[Key(u)]
      BY <3>1, HeldGoto DEF TypeOK
    <3>3. HeldOK(u)'
      BY <2>1, <3>1, <3>2 DEF HeldOK, HasValue
    <3>4. OpFits(setup.kind, place, Op(u))
      BY <1>1, <2>1, <3>1 DEF OpFits, Op, Abs!Ops
    <3>5. Keeps(u)
      BY <1>1, <2>1, <3>1, <3>3, <3>4, GotoKeeps
    <3> QED
      BY <1>1, <2>1, <3>1, <3>5, OthersSteady DEF SameHeld, TypeOK
  <2> QED
    BY <1>3, <2>2, <2>3, <2>4, <2>5 DEF QFind
<1>4. CASE QJudge(u)
  <2>1. /\ pc[u] = "judge" /\ At(u) /\ HeldOK(u) /\ ~HasValue(u) /\ ~call[u].missed /\ held[u] # Nothing
        /\ Op(u) \in Reading /\ Op(u) # "update_timeout" /\ plan' = plan
    BY <1>1, <1>4, Before DEF QJudge, HeldOK, HasValue, At, OpFits
  <2>2. CASE Goto(u, "recheck") /\ UNCHANGED held
    <3>1. HeldOK(u)'
      BY <2>1, <2>2, HeldGoto DEF HeldOK, HasValue
    <3>2. OpFits(setup.kind, "recheck", Op(u))
      BY <1>1, <2>1 DEF OpFits
    <3>3. Keeps(u)
      BY <1>1, <2>1, <2>2, <3>1, <3>2, GotoKeeps
    <3> QED
      BY <1>1, <2>1, <2>2, <3>3, OthersSteady DEF SameHeld
  <2>3. CASE Hit(u, held[u].value) /\ held' = [held EXCEPT ![u] = Nothing]
    <3>1. held[u].value \in Nat /\ held'[u] = Nothing
      BY <2>1, <2>3, Before DEF TypeOK
    <3>2. Keeps(u)
      BY <1>1, <2>1, <2>3, <3>1, HitKeeps
    <3> QED
      BY <1>1, <2>1, <2>3, <3>2, OthersSteady DEF SameHeld, TypeOK
  <2> QED
    BY <1>4, <2>2, <2>3 DEF QJudge
<1>5. CASE QRecheck(u)
  <2>1. /\ pc[u] = "recheck" /\ At(u) /\ HeldOK(u) /\ ~HasValue(u) /\ ~call[u].missed
        /\ Op(u) \in Computing \cup {"get"}
    BY <1>5, Before DEF QRecheck, HeldOK, HasValue, At, OpFits
  <2>2. CASE Miss(u) /\ Forgets(u)
    <3>1. held'[u] = Nothing /\ \A w \in Users \ {u} : SameHeld(w) /\ plan'[w] = plan[w]
      BY <2>2 DEF Forgets, SameHeld, TypeOK
    <3> QED
      BY <1>1, <2>1, <2>2, <3>1, MissKeeps, OthersSteady
  <2>3. CASE Goto(u, "delete") /\ UNCHANGED <<held, plan>>
    <3>1. HeldOK(u)'
      BY <2>1, <2>3, HeldGoto DEF HeldOK, HasValue
    <3>2. OpFits(setup.kind, "delete", Op(u))
      BY <1>1, <2>1 DEF OpFits
    <3>3. Keeps(u)
      BY <1>1, <2>1, <2>3, <3>1, <3>2, GotoKeeps
    <3> QED
      BY <1>1, <2>3, <3>3, OthersSteady DEF SameHeld
  <2> QED
    BY <1>5, <2>2, <2>3 DEF QRecheck
<1>6. CASE QDelete(u)
  <2>1. /\ pc[u] = "delete" /\ At(u) /\ ~HasValue(u) /\ ~call[u].missed /\ Forgets(u)
        /\ Op(u) \in Computing \cup {"get", "remove"}
    BY <1>6, Before DEF QDelete, HeldOK, HasValue, At, OpFits
  <2>2. held'[u] = Nothing /\ \A w \in Users \ {u} : SameHeld(w) /\ plan'[w] = plan[w]
    BY <2>1 DEF Forgets, SameHeld, TypeOK
  <2>3. CASE NextKey(u, TRUE) /\ Op(u) = "remove"
    BY <1>1, <2>1, <2>2, <2>3, NextKeyKeeps, OthersSteady
  <2>4. CASE Miss(u) /\ Op(u) # "remove"
    BY <1>1, <2>1, <2>2, <2>4, MissKeeps, OthersSteady
  <2> QED
    BY <1>6, <2>3, <2>4 DEF QDelete
<1>7. CASE QExists(u)
  <2>1. pc[u] = "exists" /\ At(u) /\ HeldOK(u) /\ Goto(u, "write") /\ held' = held
    BY <1>7, Before DEF QExists
  <2>2. /\ pc'[u] = "write" /\ call'[u] = call[u] /\ Op(u)' = Op(u) /\ held'[u] = held[u]
        /\ ~Sync => plan'[u].until = CalcExpires(call[u].timeout)
    BY <1>7, <2>1, HeldGoto DEF QExists, TypeOK
  <2>3. CalcExpires(call[u].timeout) \in Abs!Deadlines(call[u])'
    BY <1>1, <2>1, <2>2, Numbers, CalcInTime DEF At, World
  <2>4. HeldOK(u)'
    BY <1>1, <2>1, <2>2, <2>3 DEF HeldOK, HasValue
  <2>5. OpFits(setup.kind, "write", Op(u))
    BY <1>1, <2>1 DEF At, OpFits
  <2>6. Keeps(u)
    BY <1>1, <2>1, <2>4, <2>5, GotoKeeps
  <2> QED
    BY <1>1, <1>7, <2>1, <2>6, OthersSteady DEF QExists, SameHeld
<1>8. CASE QWrite(u)
  <2>1. pc[u] = "write" /\ (Op(u) = "set" \/ held[u] # Nothing)
    BY <1>8, Before DEF QWrite, At, OpFits, HeldOK, HasValue
  <2>2. CASE Raise(u)
    BY <1>1, <2>2, RaiseKeeps
  <2>3. CASE Wrote(u) /\ Forgets(u)
    <3>1. held'[u] = Nothing /\ \A w \in Users \ {u} : SameHeld(w) /\ plan'[w] = plan[w]
      BY <2>3 DEF Forgets, SameHeld, TypeOK
    <3> QED
      BY <1>1, <2>1, <2>3, <3>1, WroteEnds, EndKeeps, OthersSteady
  <2> QED
    BY <1>8, <2>2, <2>3 DEF QWrite
<1> QED
  BY <1>2, <1>3, <1>4, <1>5, <1>6, <1>7, <1>8 DEF SqliteStep

-----------------------------------------------------------------------------
(* Asking, computing, the clock *)

LEMMA ComputeKeeps ==
  ASSUME TypeOK, ControlInv, NEW u \in Users, Compute(u)
  PROVE  World /\ Keeps(u) /\ \A w \in Users \ {u} : Steady(w)
<1>1. World /\ pc[u] = "compute" /\ At(u) /\ HeldOK(u) /\ call[u] \in Calls /\ Op(u) \in Computing
  BY Before, Numbers DEF Compute, World, At, OpFits
<1>2. CASE Raise(u)
  BY <1>1, <1>2, RaiseKeeps
<1>3. CASE \E v \in {0, call[u].id} : /\ held' = [held EXCEPT ![u] = [value |-> v, until |-> Never]]
                                      /\ Goto(u, "set") /\ plan' = plan
  <2>1. PICK v \in {0, call[u].id} : /\ held' = [held EXCEPT ![u] = [value |-> v, until |-> Never]]
                                     /\ Goto(u, "set") /\ plan' = plan
    BY <1>3
  <2>2. held'[u] = [value |-> v, until |-> Never] /\ held'[u].value = v
    BY <2>1 DEF TypeOK
  <2>3. held'[u] # Nothing
    <3>1. v \in Nat
      BY <1>1 DEF Calls
    <3>2. [value |-> v, until |-> Never] \in [value : Nat, until : Nat]
      BY <3>1 DEF Never
    <3> QED
      BY <2>2, <3>2, NothingAssumption
  <2>4. HeldOK(u)'
    BY <1>1, <2>1, <2>2, <2>3, HeldGoto DEF HeldOK, HasValue, Computing, At
  <2>5. OpFits(setup.kind, "set", Op(u))
    BY <1>1 DEF OpFits, Writing
  <2>6. Keeps(u)
    BY <1>1, <2>1, <2>4, <2>5, GotoKeeps DEF Labels
  <2> QED
    BY <1>1, <2>1, <2>6, OthersSteady DEF SameHeld, TypeOK
<1> QED
  BY <1>2, <1>3 DEF Compute

LEMMA RefuseKeeps ==
  ASSUME TypeOK, ControlInv, NEW u \in Users, Refuse(u)
  PROVE  World /\ Keeps(u) /\ \A w \in Users \ {u} : Steady(w)
<1>1. World
  BY Numbers DEF Refuse, World
<1> QED
  BY <1>1, RaiseKeeps DEF Refuse

\* The call that AskSome makes.
Asks(u, c) ==
  /\ u \in setup.crew /\ pc[u] = "idle" /\ c \in Calls /\ asks' = asks + 1
  /\ c.since = now /\ c.id = asks + 1 /\ ~c.missed /\ c.all
  /\ call' = [call EXCEPT ![u] = c]
  /\ pc' = [pc EXCEPT ![u] = IF c.timeout = Unset /\ IntFirst(c.op) THEN "refuse" ELSE "start"]
  /\ answer' = [answer EXCEPT ![u] = Nothing]
  /\ UNCHANGED <<setup, now, store, purged, held, plan>>

LEMMA AskMakesCall ==
  ASSUME TypeOK, ControlInv, NEW u \in Users, AskSome(u)
  PROVE  \E c : Asks(u, c)
<1>1. setup \in Setups /\ setup.keys \subseteq Keys /\ now \in Nat /\ asks \in Nat
  BY CallsAssumption, Numbers DEF TypeOK
<1>2. ASSUME NEW op \in Abs!Ops, NEW ks \in Seq(Keys) \ {<<>>}, NEW t \in Nat \cup {Unset}, Ask(u, op, ks, t)
      PROVE  \E c : Asks(u, c)
  <2> DEFINE c == [op |-> op, keys |-> ks, timeout |-> t, id |-> asks + 1,
                   since |-> now, missed |-> FALSE, all |-> TRUE]
  <2>1. c \in Calls
    BY <1>1 DEF Calls
  <2>2. Asks(u, c)
    BY <1>2, <2>1 DEF Ask, Asks
  <2> QED
    BY <2>2
<1>3. PICK k \in setup.keys :
         \/ \E op \in {"set", "get_or_set", "memo", "bypass", "update_timeout"}, t \in Timeouts :
              Ask(u, op, <<k>>, t)
         \/ Ask(u, "get", <<k>>, 1)
         \/ Ask(u, "remove", <<k>>, 1)
         \/ \E j \in setup.keys \ {k} : Ask(u, "remove", <<k, j>>, 1)
  BY DEF AskSome
<1>4. k \in Keys /\ <<k>> \in Seq(Keys) \ {<<>>} /\ \A j \in setup.keys : <<k, j>> \in Seq(Keys) \ {<<>>}
  BY <1>1, <1>3
<1>5. \A t \in Timeouts : t \in Nat \cup {Unset}
  BY CallsAssumption
<1>6. ASSUME NEW op \in {"set", "get_or_set", "memo", "bypass", "update_timeout"}, NEW t \in Timeouts,
             Ask(u, op, <<k>>, t)
      PROVE  \E c : Asks(u, c)
  <2>1. op \in Abs!Ops
    BY DEF Abs!Ops
  <2> QED
    BY <1>2, <1>4, <1>5, <1>6, <2>1
<1>7. ASSUME Ask(u, "get", <<k>>, 1) PROVE \E c : Asks(u, c)
  <2>1. "get" \in Abs!Ops /\ 1 \in Nat \cup {Unset}
    BY DEF Abs!Ops
  <2> HIDE DEF Asks
  <2> QED
    BY <1>2, <1>4, <1>7, <2>1
<1>8. ASSUME NEW ks \in Seq(Keys) \ {<<>>}, Ask(u, "remove", ks, 1) PROVE \E c : Asks(u, c)
  BY <1>2, <1>8 DEF Abs!Ops
<1> QED
  BY <1>3, <1>4, <1>6, <1>7, <1>8

LEMMA AskKeeps ==
  ASSUME TypeOK, ControlInv, NEW u \in Users, AskSome(u)
  PROVE  World /\ Keeps(u) /\ \A w \in Users \ {u} : Steady(w)
<1>1. PICK c : Asks(u, c)
  BY AskMakesCall
<1>2. World /\ now \in Nat
  BY <1>1, Numbers DEF Asks, World
<1>3. CallsOK'
  BY <1>1, <1>2 DEF Asks, ControlInv, CallsOK, World, Labels, Answers
<1>4. call'[u] = c /\ Op(u)' = c.op /\ held'[u] = Nothing
      /\ pc'[u] = IF c.timeout = Unset /\ IntFirst(c.op) THEN "refuse" ELSE "start"
  BY <1>1 DEF Asks, ControlInv, CallsOK, Op, HeldOK
<1>5. At(u)'
  BY <1>1, <1>2, <1>4 DEF Asks, At, World, OpFits, IntFirst
<1>6. HeldOK(u)'
  BY <1>1, <1>4 DEF Asks, HeldOK, HasValue
<1>7. \A w \in Users \ {u} : Steady(w)
  BY <1>1 DEF Asks, ControlInv, CallsOK, Steady, SameHeld
<1> QED
  BY <1>2, <1>3, <1>5, <1>6, <1>7 DEF Keeps, Fine

LEMMA ControlKeeps ==
  ASSUME TypeOK, ControlInv, [Next]_vars
  PROVE  ControlInv'
<1>1. ASSUME NEW u \in Users, AskSome(u) \/ Refuse(u) \/ Compute(u) \/ Serve(u)
      PROVE  ControlInv'
  <2>1. World /\ Keeps(u) /\ \A w \in Users \ {u} : Steady(w)
    BY <1>1, AskKeeps, RefuseKeeps, ComputeKeeps, MemoryKeeps, AsyncMemoryKeeps, SqliteKeeps, ServerKeeps
    DEF Serve
  <2>2. \A w \in Users \ {u} : Fine(w)'
    BY <2>1, SteadyKeeps
  <2> QED
    BY <2>1, <2>2 DEF Keeps, Fine, ControlInv
<1>2. CASE Tick \/ UNCHANGED vars
  <2>1. World /\ (\A w \in Users : Steady(w)) /\ UNCHANGED <<call, pc, answer>>
    BY <1>2, Numbers DEF Tick, vars, World, Steady, SameHeld
  <2>2. \A w \in Users : Fine(w)'
    BY <2>1, SteadyKeeps
  <2> QED
    BY <2>1, <2>2 DEF Fine, ControlInv, CallsOK, World
<1> QED
  BY <1>1, <1>2 DEF Next

-----------------------------------------------------------------------------
(* Types *)

LEMMA EntriesGrow ==
  ASSUME TypeOK, ControlInv, World
  PROVE  Entry \subseteq Entry'
BY Numbers DEF Entry, World

\* A step of one call, as far as types go.
LEMMA TypeFrame ==
  ASSUME TypeOK, ControlInv, NEW u \in Users, World, Keeps(u), \A w \in Users \ {u} : Steady(w),
         now' = now,
         pc'[u] = "idle" => call'[u] = Nothing,
         store' \in [Keys -> Entry' \cup {Nothing}], purged' \in {purged, now},
         held' \in [Users -> Entry' \cup {Nothing}], plan' \in [Users -> [exists : BOOLEAN, until : Nat]]
  PROVE  TypeOK'
<1>1. \A w \in Users : (call'[w] = Nothing) <=> (pc'[w] = "idle")
  <2>1. \A w \in Users \ {u} : (call'[w] = Nothing) <=> (pc'[w] = "idle")
    BY DEF TypeOK, Steady
  <2>2. pc'[u] # "idle" => call'[u] # Nothing
    BY NothingAssumption DEF Keeps, Fine, At
  <2> QED
    BY <2>1, <2>2
<1>2. purged' \in 0..now' /\ now' \in 1..MaxNow
  BY Numbers DEF TypeOK
<1>3. setup' \in Setups
  BY DEF World, TypeOK
<1> QED
  BY <1>1, <1>2, <1>3 DEF TypeOK

LEMMA IdleHasNoCall ==
  ASSUME ControlInv, NEW u \in Users,
         \/ \E place \in Labels \ {"idle"} : Goto(u, place)
         \/ \E r : Answer(u, r)
         \/ \E v : Hit(u, v) /\ Op(u) \in Reading
         \/ Miss(u)
         \/ \E b : NextKey(u, b)
  PROVE  pc'[u] = "idle" => call'[u] = Nothing
<1> USE DEF ControlInv, CallsOK
<1>1. ASSUME NEW place \in Labels \ {"idle"}, Goto(u, place) PROVE pc'[u] = "idle" => call'[u] = Nothing
  BY <1>1 DEF Goto
<1>2. ASSUME NEW r, Answer(u, r) PROVE pc'[u] = "idle" => call'[u] = Nothing
  BY <1>2 DEF Answer
<1>3. ASSUME Miss(u) PROVE pc'[u] = "idle" => call'[u] = Nothing
  BY <1>2, <1>3 DEF Miss
<1>4. ASSUME NEW v, Hit(u, v), Op(u) \in Reading PROVE pc'[u] = "idle" => call'[u] = Nothing
  BY <1>1, <1>2, <1>3, <1>4 DEF Hit, Reading, Computing, Labels
<1>5. ASSUME NEW b, NextKey(u, b) PROVE pc'[u] = "idle" => call'[u] = Nothing
  BY <1>2, <1>5 DEF NextKey
<1> QED
  BY <1>1, <1>2, <1>3, <1>4, <1>5

\* What is written has the value of a call that was made.
LEMMA NewEntry ==
  ASSUME TypeOK, ControlInv, World, NEW u \in Users, pc[u] # "idle",
         Op(u) = "set" \/ held[u] # Nothing, NEW d \in Nat
  PROVE  [value |-> NewValue(u), until |-> d] \in Entry'
<1>1. NewValue(u) \in 0..asks
  <2>1. CASE Op(u) = "set"
    BY <2>1, Before, Numbers DEF NewValue, At
  <2>2. CASE Op(u) # "set"
    BY <2>2, Before DEF NewValue, Entry
  <2> QED
    BY <2>1, <2>2
<1> QED
  BY <1>1, Numbers DEF Entry, World

LEMMA StoreWrite ==
  ASSUME TypeOK, ControlInv, World, NEW k, NEW e \in Entry' \cup {Nothing},
         store' = [store EXCEPT ![k] = e]
  PROVE  store' \in [Keys -> Entry' \cup {Nothing}]
BY EntriesGrow DEF TypeOK

LEMMA HeldForgets ==
  ASSUME TypeOK, ControlInv, World, NEW u \in Users, Forgets(u) \/ UNCHANGED <<held, plan>>
  PROVE  /\ held' \in [Users -> Entry' \cup {Nothing}]
         /\ plan' \in [Users -> [exists : BOOLEAN, until : Nat]]
<1>1. held \in [Users -> Entry' \cup {Nothing}]
  BY EntriesGrow DEF TypeOK
<1>2. CASE Forgets(u)
  <2>1. NoPlan \in [exists : BOOLEAN, until : Nat]
    BY DEF NoPlan, Never
  <2>2. /\ held' = [held EXCEPT ![u] = Nothing]
        /\ plan' = [plan EXCEPT ![u] = NoPlan]
    BY <1>2 DEF Forgets
  <2>3. plan' \in [Users -> [exists : BOOLEAN, until : Nat]]
    BY <2>1, <2>2 DEF TypeOK
  <2> QED
    BY <1>1, <2>2, <2>3
<1>3. CASE UNCHANGED <<held, plan>>
  BY <1>1, <1>3 DEF TypeOK
<1> QED
  BY <1>2, <1>3

LEMMA TimeoutsAdd ==
  ASSUME TypeOK, ControlInv, NEW u \in Users, pc[u] # "idle", call[u].timeout # Unset
  PROVE  call[u].timeout \in Nat /\ now + call[u].timeout \in Nat
<1>1. call[u].timeout \in Nat /\ now \in Nat
  BY Before, Numbers, CallTypes
<1> QED
  BY <1>1

LEMMA MemoryTypes ==
  ASSUME TypeOK, ControlInv, NEW u \in Users, MemoryStep(u)
  PROVE  TypeOK'
<1> DEFINE StoreOK == store' \in [Keys -> Entry' \cup {Nothing}]
           HeldTypes == /\ held' \in [Users -> Entry' \cup {Nothing}]
                        /\ plan' \in [Users -> [exists : BOOLEAN, until : Nat]]
           IdleOK == pc'[u] = "idle" => call'[u] = Nothing
<1>1. World /\ now' = now /\ purged' = purged /\ Keeps(u) /\ \A w \in Users \ {u} : Steady(w)
  BY MemoryKeeps DEF MemoryStep
<1>2. /\ UNCHANGED store => StoreOK
      /\ store' = [store EXCEPT ![Key(u)] = Nothing] => StoreOK
      /\ UNCHANGED <<held, plan>> \/ Forgets(u) => HeldTypes
  BY <1>1, EntriesGrow, StoreWrite, HeldForgets DEF TypeOK
<1>3. ASSUME KeyError(u) PROVE StoreOK /\ HeldTypes /\ IdleOK
  BY <1>2, <1>3, IdleHasNoCall DEF KeyError, Raise
<1>4. ASSUME MStart(u) PROVE StoreOK /\ HeldTypes /\ IdleOK
  BY <1>2, <1>4, IdleHasNoCall DEF MStart, Labels
<1>5. ASSUME MFind(u) PROVE StoreOK /\ HeldTypes /\ IdleOK
  BY <1>2, <1>5, IdleHasNoCall DEF MFind, Labels
<1>6. ASSUME MFetch(u) PROVE StoreOK /\ HeldTypes /\ IdleOK
  <2>1. CASE ~KeyError(u)
    <3>1. pc[u] # "idle" /\ held' = [held EXCEPT ![u] = store[Key(u)]] /\ Goto(u, "judge") /\ UNCHANGED <<store, plan>>
      BY <1>6, <2>1 DEF MFetch
    <3>2. store[Key(u)] \in Entry' \cup {Nothing}
      BY <1>1, <3>1, Before, EntriesGrow
    <3> QED
      BY <1>1, <1>2, <3>1, <3>2, EntriesGrow, IdleHasNoCall DEF TypeOK, Labels
  <2> QED
    BY <1>3, <2>1
<1>7. ASSUME MJudge(u) PROVE StoreOK /\ HeldTypes /\ IdleOK
  <2>1. Op(u) \in Reading
    BY <1>7, Before DEF MJudge, At, OpFits
  <2>2. IdleOK
    BY <1>7, <2>1, IdleHasNoCall DEF MJudge, Labels
  <2>3. HeldTypes
    BY <1>1, <1>7, EntriesGrow DEF MJudge, TypeOK
  <2> QED
    BY <1>2, <1>7, <2>2, <2>3 DEF MJudge
<1>8. ASSUME MDrop(u) PROVE StoreOK /\ HeldTypes /\ IdleOK
  BY <1>2, <1>3, <1>8, IdleHasNoCall DEF MDrop
<1>9. ASSUME MPop(u) PROVE StoreOK /\ HeldTypes /\ IdleOK
  BY <1>2, <1>3, <1>9, IdleHasNoCall DEF MPop
<1>10. ASSUME MSet(u) PROVE StoreOK /\ HeldTypes /\ IdleOK
  <2>1. pc[u] = "set" /\ (Op(u) = "set" \/ held[u] # Nothing)
    BY <1>10, Before DEF MSet, At, OpFits, HeldOK, HasValue, Writing
  <2>2. CASE call[u].timeout = Unset
    BY <1>2, <1>10, <2>2, IdleHasNoCall DEF MSet, Raise
  <2>3. CASE call[u].timeout # Unset
    <3>1. now + call[u].timeout \in Nat
      BY <2>1, <2>3, TimeoutsAdd
    <3>2. [value |-> NewValue(u), until |-> now + call[u].timeout] \in Entry'
      BY <1>1, <2>1, <3>1, NewEntry
    <3> QED
      BY <1>1, <1>2, <1>10, <2>3, <3>2, StoreWrite, IdleHasNoCall DEF MSet, Labels
  <2> QED
    BY <2>2, <2>3
<1>11. ASSUME MEcho(u) PROVE StoreOK /\ HeldTypes /\ IdleOK
  BY <1>2, <1>3, <1>11, IdleHasNoCall DEF MEcho, Wrote
<1>12. ASSUME MRetime(u) PROVE StoreOK /\ HeldTypes /\ IdleOK
  <2>1. CASE ~KeyError(u)
    <3> DEFINE e == [store[Key(u)] EXCEPT !.until = now + call[u].timeout]
    <3>1. /\ pc[u] = "set" /\ Op(u) = "update_timeout"
          /\ store[Key(u)] # Nothing /\ Wrote(u) /\ plan' = plan
          /\ store' = [store EXCEPT ![Key(u)] = e]
          /\ held' = [w \in Users |-> IF w = u THEN Nothing
                                      ELSE IF held[w] = store[Key(u)] THEN e ELSE held[w]]
      BY <1>12, <2>1 DEF MRetime
    <3>2. now + call[u].timeout \in Nat
      BY <3>1, Before, TimeoutsAdd DEF At
    <3>3. e \in Entry
      BY <3>1, <3>2, Before DEF Entry
    <3> HIDE DEF e
    <3>4. e \in Entry'
      BY <1>1, <3>3, EntriesGrow
    <3> QED
      BY <1>1, <3>1, <3>4, EntriesGrow, StoreWrite, IdleHasNoCall DEF TypeOK, Wrote
  <2> QED
    BY <1>3, <2>1
<1>13. StoreOK /\ HeldTypes /\ IdleOK
  BY <1>4, <1>5, <1>6, <1>7, <1>8, <1>9, <1>10, <1>11, <1>12 DEF MemoryStep
<1> QED
  BY <1>1, <1>13, TypeFrame

LEMMA AsyncMemoryTypes ==
  ASSUME TypeOK, ControlInv, NEW u \in Users, AsyncMemoryStep(u)
  PROVE  TypeOK'
<1> DEFINE StoreOK == store' \in [Keys -> Entry' \cup {Nothing}]
           HeldTypes == /\ held' \in [Users -> Entry' \cup {Nothing}]
                        /\ plan' \in [Users -> [exists : BOOLEAN, until : Nat]]
           IdleOK == pc'[u] = "idle" => call'[u] = Nothing
<1>1. World /\ now' = now /\ purged' = purged /\ Keeps(u) /\ \A w \in Users \ {u} : Steady(w)
  BY AsyncMemoryKeeps DEF AsyncMemoryStep
<1>2. /\ UNCHANGED store => StoreOK
      /\ store' = [store EXCEPT ![Key(u)] = Nothing] => StoreOK
      /\ UNCHANGED <<held, plan>> \/ Forgets(u) => HeldTypes
  BY <1>1, EntriesGrow, StoreWrite, HeldForgets DEF TypeOK
<1>3. ASSUME AGet(u) PROVE StoreOK /\ HeldTypes /\ IdleOK
  <2>1. pc[u] = "start" /\ Op(u) \in Reading /\ UNCHANGED <<held, plan>>
    BY <1>3, Before, CallTypes DEF AGet, Op, Abs!Ops, Reading, Computing
  <2>2. CASE Kept(Key(u)) # Nothing /\ Op(u) = "update_timeout"
    <3>1. store[Key(u)] # Nothing /\ store' = [store EXCEPT ![Key(u)].until = now + call[u].timeout]
          /\ \E r : Answer(u, r)
      BY <1>3, <2>2 DEF AGet, Kept
    <3>2. now + call[u].timeout \in Nat
      BY <2>1, <2>2, Before, TimeoutsAdd DEF At
    <3>3. [store[Key(u)] EXCEPT !.until = now + call[u].timeout] \in Entry
      BY <2>1, <3>1, <3>2, Before DEF Entry
    <3>4. [store[Key(u)] EXCEPT !.until = now + call[u].timeout] \in Entry'
      BY <1>1, <3>3, EntriesGrow
    <3>5. store' = [store EXCEPT ![Key(u)] = [store[Key(u)] EXCEPT !.until = now + call[u].timeout]]
      BY <3>1
    <3> QED
      BY <1>1, <1>2, <2>1, <3>1, <3>4, <3>5, StoreWrite, IdleHasNoCall
  <2>3. CASE Kept(Key(u)) = Nothing
    BY <1>2, <1>3, <2>1, <2>3, IdleHasNoCall DEF AGet
  <2>4. CASE Kept(Key(u)) # Nothing /\ Op(u) # "update_timeout"
    BY <1>2, <1>3, <2>1, <2>4, IdleHasNoCall DEF AGet
  <2> QED
    BY <2>2, <2>3, <2>4
<1>4. ASSUME ASet(u) PROVE StoreOK /\ HeldTypes /\ IdleOK
  <2>1. pc[u] # "idle" /\ (Op(u) = "set" \/ held[u] # Nothing)
    BY <1>4, Before DEF ASet, AsyncMemoryStep, At, OpFits, HeldOK, HasValue
  <2>2. CASE call[u].timeout = Unset
    BY <1>2, <1>4, <2>2, IdleHasNoCall DEF ASet, Raise
  <2>3. CASE call[u].timeout # Unset
    <3>1. [value |-> NewValue(u), until |-> now + call[u].timeout] \in Entry'
      BY <1>1, <2>1, <2>3, TimeoutsAdd, NewEntry
    <3> QED
      BY <1>1, <1>2, <1>4, <2>3, <3>1, StoreWrite, IdleHasNoCall DEF ASet, Wrote
  <2> QED
    BY <2>2, <2>3
<1>5. ASSUME ARemove(u) PROVE StoreOK /\ HeldTypes /\ IdleOK
  <2>1. StoreOK
    BY <1>1, <1>5, EntriesGrow DEF ARemove, TypeOK
  <2> QED
    BY <1>2, <1>5, <2>1, IdleHasNoCall DEF ARemove
<1>6. StoreOK /\ HeldTypes /\ IdleOK
  BY <1>3, <1>4, <1>5 DEF AsyncMemoryStep
<1> QED
  BY <1>1, <1>6, TypeFrame

LEMMA ServerTypes ==
  ASSUME TypeOK, ControlInv, NEW u \in Users, ServerStep(u)
  PROVE  TypeOK'
<1> DEFINE StoreOK == store' \in [Keys -> Entry' \cup {Nothing}]
           HeldTypes == /\ held' \in [Users -> Entry' \cup {Nothing}]
                        /\ plan' \in [Users -> [exists : BOOLEAN, until : Nat]]
           IdleOK == pc'[u] = "idle" => call'[u] = Nothing
<1>1. /\ World /\ now' = now /\ purged' = purged /\ Keeps(u) /\ \A w \in Users \ {u} : Steady(w)
      /\ setup.kind \in Servers
  BY ServerKeeps DEF ServerStep, Servers
<1>2. /\ UNCHANGED store => StoreOK
      /\ store' = [store EXCEPT ![Key(u)] = Nothing] => StoreOK
      /\ UNCHANGED <<held, plan>> \/ Forgets(u) => HeldTypes
  BY <1>1, EntriesGrow, StoreWrite, HeldForgets DEF TypeOK
<1>3. ASSUME VStart(u) PROVE StoreOK /\ HeldTypes /\ IdleOK
  BY <1>2, <1>3, IdleHasNoCall DEF VStart, Labels
<1>4. ASSUME VGet(u) PROVE StoreOK /\ HeldTypes /\ IdleOK
  <2>1. pc[u] = "find" /\ (Op(u) # "remove" => Op(u) \in Reading)
    BY <1>4, Before, CallTypes DEF VGet, At, OpFits, Op, Abs!Ops, Reading, Computing
  <2>2. IdleOK
    BY <1>4, <2>1, IdleHasNoCall DEF VGet, Labels
  <2>3. held' = [held EXCEPT ![u] = IF pc'[u] = "set" THEN store[Key(u)] ELSE Nothing] /\ UNCHANGED <<store, plan>>
    BY <1>4 DEF VGet
  <2>4. store[Key(u)] \in Entry' \cup {Nothing}
    BY <1>1, <2>1, Before, EntriesGrow
  <2>5. HeldTypes
    BY <1>1, <2>3, <2>4, EntriesGrow DEF TypeOK
  <2> QED
    BY <1>2, <2>2, <2>3, <2>5
<1>5. ASSUME VDelete(u) PROVE StoreOK /\ HeldTypes /\ IdleOK
  BY <1>2, <1>5, IdleHasNoCall DEF VDelete
<1>6. ASSUME VSet(u) PROVE StoreOK /\ HeldTypes /\ IdleOK
  <2>1. pc[u] = "set" /\ (Op(u) = "set" \/ held[u] # Nothing)
    BY <1>6, Before DEF VSet, At, OpFits, HeldOK, HasValue, Writing
  <2>2. CASE Setting(call[u].timeout).refused
    BY <1>2, <1>6, <2>2, IdleHasNoCall DEF VSet, Raise
  <2>3. CASE ~Setting(call[u].timeout).refused
    <3>1. Setting(call[u].timeout).until \in Nat
      <4>1. call[u].timeout # Unset => now + call[u].timeout \in Nat
        BY <2>1, TimeoutsAdd
      <4> QED
        BY <1>1, <2>3, <4>1
        DEF Setting, RedisSet, AsyncRedisSet, MemcachedSet, AsyncMemcachedSet, Servers, Never
    <3>2. [value |-> NewValue(u), until |-> Setting(call[u].timeout).until] \in Entry'
      BY <1>1, <2>1, <3>1, NewEntry
    <3> QED
      BY <1>1, <1>2, <1>6, <2>3, <3>2, StoreWrite, IdleHasNoCall DEF VSet, Wrote
  <2> QED
    BY <2>2, <2>3
<1>7. StoreOK /\ HeldTypes /\ IdleOK
  BY <1>3, <1>4, <1>5, <1>6 DEF ServerStep
<1> QED
  BY <1>1, <1>7, TypeFrame

LEMMA SqliteTypes ==
  ASSUME TypeOK, ControlInv, NEW u \in Users, SqliteStep(u)
  PROVE  TypeOK'
<1> DEFINE StoreOK == store' \in [Keys -> Entry' \cup {Nothing}]
           HeldTypes == /\ held' \in [Users -> Entry' \cup {Nothing}]
                        /\ plan' \in [Users -> [exists : BOOLEAN, until : Nat]]
           IdleOK == pc'[u] = "idle" => call'[u] = Nothing
           PurgedOK == purged' \in {purged, now}
<1>1. World /\ now' = now /\ Keeps(u) /\ \A w \in Users \ {u} : Steady(w)
  BY SqliteKeeps DEF SqliteStep
<1>2. /\ UNCHANGED store => StoreOK
      /\ store' = [store EXCEPT ![Key(u)] = Nothing] => StoreOK
      /\ UNCHANGED <<held, plan>> \/ Forgets(u) => HeldTypes
  BY <1>1, EntriesGrow, StoreWrite, HeldForgets DEF TypeOK
<1>3. ASSUME QStart(u) PROVE StoreOK /\ HeldTypes /\ IdleOK /\ PurgedOK
  BY <1>2, <1>3, IdleHasNoCall DEF QStart, Labels
<1>4. ASSUME QPurge(u) PROVE StoreOK /\ HeldTypes /\ IdleOK /\ PurgedOK
  <2>1. StoreOK
    BY <1>1, <1>4, EntriesGrow DEF QPurge, TypeOK
  <2> QED
    BY <1>2, <1>4, <2>1, IdleHasNoCall DEF QPurge, Labels
<1>5. ASSUME QFind(u) PROVE StoreOK /\ HeldTypes /\ IdleOK /\ PurgedOK
  <2>1. IdleOK
    BY <1>5, IdleHasNoCall DEF QFind, Labels
  <2>2. held' \in {held, [held EXCEPT ![u] = store[Key(u)]]} /\ UNCHANGED <<store, purged, plan>>
    BY <1>5 DEF QFind
  <2>3. store[Key(u)] \in Entry' \cup {Nothing}
    BY <1>1, <1>5, Before, EntriesGrow DEF QFind
  <2> QED
    BY <1>1, <1>2, <2>1, <2>2, <2>3, EntriesGrow DEF TypeOK
<1>6. ASSUME QJudge(u) PROVE StoreOK /\ HeldTypes /\ IdleOK /\ PurgedOK
  <2>1. Op(u) \in Reading
    BY <1>6, Before DEF QJudge, At, OpFits
  <2>2. IdleOK
    BY <1>6, <2>1, IdleHasNoCall DEF QJudge, Labels
  <2>3. HeldTypes
    BY <1>1, <1>6, EntriesGrow DEF QJudge, TypeOK
  <2> QED
    BY <1>2, <1>6, <2>2, <2>3 DEF QJudge
<1>7. ASSUME QRecheck(u) PROVE StoreOK /\ HeldTypes /\ IdleOK /\ PurgedOK
  BY <1>2, <1>7, IdleHasNoCall DEF QRecheck, Labels
<1>8. ASSUME QDelete(u) PROVE StoreOK /\ HeldTypes /\ IdleOK /\ PurgedOK
  BY <1>2, <1>8, IdleHasNoCall DEF QDelete
<1>9. ASSUME QSet(u) PROVE StoreOK /\ HeldTypes /\ IdleOK /\ PurgedOK
  BY <1>2, <1>9, IdleHasNoCall DEF QSet, Labels
<1>10. CalcExpires(call[u].timeout) \in Nat \/ pc[u] = "idle"
  BY TimeoutsAdd DEF CalcExpires, Never
<1>11. ASSUME QExists(u) PROVE StoreOK /\ HeldTypes /\ IdleOK /\ PurgedOK
  <2>1. HeldTypes
    BY <1>1, <1>10, <1>11, EntriesGrow DEF QExists, TypeOK, Never
  <2> QED
    BY <1>2, <1>11, <2>1, IdleHasNoCall DEF QExists, Labels
<1>12. ASSUME QWrite(u) PROVE StoreOK /\ HeldTypes /\ IdleOK /\ PurgedOK
  <2> DEFINE d == IF Sync THEN CalcExpires(call[u].timeout) ELSE plan[u].until
             row == [value |-> NewValue(u), until |-> d]
  <2>1. pc[u] = "write" /\ (Op(u) = "set" \/ held[u] # Nothing)
    BY <1>12, Before DEF QWrite, At, OpFits, HeldOK, HasValue, Writing
  <2>2. d \in Nat
    BY <1>10, <2>1 DEF TypeOK
  <2> HIDE DEF d
  <2>3. row \in Entry'
    BY <1>1, <2>1, <2>2, NewEntry
  <2> HIDE DEF row
  <2>4. \/ Raise(u) /\ UNCHANGED store
        \/ /\ store' = [store EXCEPT ![Key(u)] = IF plan[u].exists /\ @ = Nothing THEN @ ELSE row]
           /\ Wrote(u) /\ Forgets(u)
    BY <1>12 DEF QWrite, row, d
  <2>5. StoreOK
    BY <1>1, <1>2, <2>3, <2>4, EntriesGrow DEF TypeOK
  <2> QED
    BY <1>2, <1>12, <2>4, <2>5, IdleHasNoCall DEF Wrote, Raise, QWrite
<1>13. StoreOK /\ HeldTypes /\ IdleOK /\ PurgedOK
  BY <1>3, <1>4, <1>5, <1>6, <1>7, <1>8, <1>9, <1>11, <1>12 DEF SqliteStep
<1> QED
  BY <1>1, <1>13, TypeFrame

LEMMA ComputeTypes ==
  ASSUME TypeOK, ControlInv, NEW u \in Users, Compute(u)
  PROVE  TypeOK'
<1>1. World /\ now' = now /\ Keeps(u) /\ (\A w \in Users \ {u} : Steady(w)) /\ UNCHANGED <<store, purged>>
  BY ComputeKeeps DEF Compute
<1>2. pc'[u] = "idle" => call'[u] = Nothing
  BY IdleHasNoCall DEF Compute, Raise, Labels
<1>3. /\ held' \in [Users -> Entry' \cup {Nothing}]
      /\ plan' \in [Users -> [exists : BOOLEAN, until : Nat]]
  <2>1. CASE Raise(u)
    BY <1>1, <2>1, HeldForgets DEF Raise
  <2>2. ASSUME NEW v \in {0, call[u].id}, held' = [held EXCEPT ![u] = [value |-> v, until |-> Never]],
               plan' = plan
        PROVE  held' \in [Users -> Entry' \cup {Nothing}] /\ plan' \in [Users -> [exists : BOOLEAN, until : Nat]]
    <3>1. v \in 0..asks
      BY Before, Numbers DEF At, Compute
    <3>2. [value |-> v, until |-> Never] \in Entry'
      BY <1>1, <3>1, Numbers DEF Entry, World, Never
    <3> QED
      BY <1>1, <2>2, <3>2, EntriesGrow DEF TypeOK
  <2> QED
    BY <2>1, <2>2 DEF Compute
<1>4. store' \in [Keys -> Entry' \cup {Nothing}]
  BY <1>1, EntriesGrow DEF TypeOK
<1> QED
  BY <1>1, <1>2, <1>3, <1>4, TypeFrame

LEMMA TypeKeeps ==
  ASSUME TypeOK, ControlInv, [Next]_vars
  PROVE  TypeOK'
<1>1. ASSUME NEW u \in Users, AskSome(u) PROVE TypeOK'
  <2>1. PICK c : Asks(u, c)
    BY <1>1, AskMakesCall
  <2>2. World /\ Keeps(u) /\ \A w \in Users \ {u} : Steady(w)
    BY <1>1, AskKeeps
  <2>3. pc'[u] # "idle" /\ UNCHANGED <<setup, now, store, purged, held, plan>>
    BY <2>1 DEF Asks, ControlInv, CallsOK
  <2>4. store' \in [Keys -> Entry' \cup {Nothing}] /\ held' \in [Users -> Entry' \cup {Nothing}]
    BY <2>2, <2>3, EntriesGrow DEF TypeOK
  <2>5. plan' \in [Users -> [exists : BOOLEAN, until : Nat]]
    BY <2>3 DEF TypeOK
  <2> QED
    BY <2>2, <2>3, <2>4, <2>5, TypeFrame
<1>2. ASSUME NEW u \in Users, Refuse(u) PROVE TypeOK'
  <2>1. World /\ Keeps(u) /\ \A w \in Users \ {u} : Steady(w)
    BY <1>2, RefuseKeeps
  <2>2. Answer(u, Abs!Raised) /\ Forgets(u) /\ UNCHANGED <<setup, now, store, purged, asks>>
    BY <1>2 DEF Refuse, Raise
  <2>3. store' \in [Keys -> Entry' \cup {Nothing}]
    BY <2>1, <2>2, EntriesGrow DEF TypeOK
  <2> QED
    BY <2>1, <2>2, <2>3, HeldForgets, IdleHasNoCall, TypeFrame
<1>3. ASSUME Tick PROVE TypeOK'
  <2>1. /\ now \in 1..MaxNow /\ now < MaxNow /\ now' = now + 1 /\ purged \in 0..now
        /\ MaxNow \in Nat
        /\ UNCHANGED <<setup, store, purged, asks, call, pc, held, plan>>
    BY <1>3, CallsAssumption DEF Tick, TypeOK
  <2>2. now' \in 1..MaxNow /\ purged' \in 0..now' /\ Entry' = Entry
    BY <2>1 DEF Entry
  <2> QED
    BY <2>1, <2>2 DEF TypeOK
<1>4. ASSUME UNCHANGED vars PROVE TypeOK'
  BY <1>4 DEF vars, TypeOK, Entry
<1> QED
  BY <1>1, <1>2, <1>3, <1>4, ComputeTypes, MemoryTypes, AsyncMemoryTypes, SqliteTypes, ServerTypes
  DEF Next, Serve

LEMMA InitHolds == Init => TypeOK /\ ControlInv
<1> SUFFICES ASSUME Init PROVE TypeOK /\ ControlInv
  OBVIOUS
<1>1. asks \in {0, 1} /\ (setup.old # {} => asks = 1) /\ setup.old \subseteq Keys /\ now = 1
  BY CallsAssumption DEF Init
<1>2. TypeOK
  <2>1. store \in [Keys -> Entry \cup {Nothing}]
    BY <1>1 DEF Init, Entry
  <2>2. NoPlan \in [exists : BOOLEAN, until : Nat]
    BY DEF NoPlan, Never
  <2>3. now \in 1..MaxNow /\ purged \in 0..now
    BY CallsAssumption DEF Init
  <2> QED
    BY <2>1, <2>2, <2>3 DEF Init, TypeOK
<1>3. ControlInv
  BY <1>1 DEF Init, ControlInv, CallsOK, Labels, Answers, HeldOK, HasValue
<1> QED
  BY <1>2, <1>3

LEMMA Controlled == Spec => [](TypeOK /\ ControlInv)
<1>1. TypeOK /\ ControlInv /\ [Next]_vars => (TypeOK /\ ControlInv)'
  BY TypeKeeps, ControlKeeps
<1> QED
  BY <1>1, InitHolds, PTL DEF Spec

\* TypeOK: the types of the adapters and their callers, whoever runs and
\* however often.  Every value that is stored is one that a call has brought,
\* a call is remembered exactly while it runs, no purge is of the future.
THEOREM TypeCorrect == Spec => []TypeOK
BY Controlled, PTL

-----------------------------------------------------------------------------
(* What loses an entry *)

LEMMA OnlyRemoversLose ==
  ASSUME TypeOK, ControlInv, [Next]_vars, NEW k \in Keys,
         store[k] # Nothing, ~Abs!Due(store[k]), store'[k] = Nothing
  PROVE  \E u \in Users : SawExpire(u, k) \/ (pc[u] # "idle" /\ Op(u) = "remove")
<1> DEFINE Loses(u) == SawExpire(u, k) \/ (pc[u] # "idle" /\ Op(u) = "remove")
<1>1. DOMAIN store = Keys /\ store'[k] # store[k]
  BY DEF TypeOK
<1>2. \A e : e \in Entry' => e # Nothing
  <2>1. asks' \in Nat
    BY ControlKeeps DEF ControlInv, CallsOK
  <2> QED
    BY <2>1, NothingAssumption DEF Entry
<1>3. ASSUME NEW u \in Users, MemoryStep(u) PROVE Loses(u)
  <2>1. setup.kind = "memory" /\ World
    BY <1>3, MemoryKeeps DEF MemoryStep
  <2>2. CASE MDrop(u) \/ MPop(u)
    <3>1. k = Key(u) /\ pc[u] \in {"drop", "pop"} /\ At(u)
      BY <1>1, <2>2, Before DEF MDrop, MPop, KeyError
    <3> QED
      BY <2>1, <3>1 DEF SawExpire, At, OpFits
  <2>3. CASE MSet(u)
    <3>1. pc[u] = "set" /\ (Op(u) = "set" \/ held[u] # Nothing)
      BY <2>3, Before DEF MSet, At, OpFits, HeldOK, HasValue, Writing
    <3>2. /\ call[u].timeout # Unset
          /\ store' = [store EXCEPT ![Key(u)] = [value |-> NewValue(u), until |-> now + call[u].timeout]]
      BY <1>1, <2>3 DEF MSet
    <3>3. [value |-> NewValue(u), until |-> now + call[u].timeout] \in Entry'
      BY <2>1, <3>1, <3>2, TimeoutsAdd, NewEntry
    <3> QED
      BY <1>1, <1>2, <3>2, <3>3
  <2>4. CASE MRetime(u)
    <3>1. /\ store[Key(u)] # Nothing /\ pc[u] = "set" /\ Op(u) = "update_timeout"
          /\ store' = [store EXCEPT ![Key(u)] = [store[Key(u)] EXCEPT !.until = now + call[u].timeout]]
      BY <1>1, <2>4 DEF MRetime, KeyError
    <3>2. now + call[u].timeout \in Nat
      BY <3>1, Before, TimeoutsAdd DEF At
    <3>3. [store[Key(u)] EXCEPT !.until = now + call[u].timeout] \in Entry
      BY <3>1, <3>2, Before DEF Entry
    <3> QED
      BY <1>1, <3>1, <3>3, Before
  <2>5. CASE MStart(u) \/ MFind(u) \/ MFetch(u) \/ MJudge(u) \/ MEcho(u)
    BY <1>1, <2>5 DEF MStart, MFind, MFetch, MJudge, MEcho, KeyError
  <2> QED
    BY <1>3, <2>2, <2>3, <2>4, <2>5 DEF MemoryStep
<1>4. ASSUME NEW u \in Users, AsyncMemoryStep(u) PROVE Loses(u)
  <2>1. setup.kind = "async_memory" /\ World /\ now \in Nat
    BY <1>4, AsyncMemoryKeeps, Numbers DEF AsyncMemoryStep
  <2>2. CASE AGet(u)
    <3>1. pc[u] = "start" /\ store[k] \in Entry
      BY <2>2 DEF AGet, TypeOK
    <3>2. store[k].until \in Nat
      BY <3>1, Before DEF Entry
    <3>3. ~Expired(store[k])
      BY <2>1, <3>2 DEF Expired, Abs!Due, Never, Abs!Never
    <3>4. CASE Kept(Key(u)) # Nothing
      <4>1. k = Key(u) => store[Key(u)] # Nothing
        BY <3>3
      <4>2. CASE Op(u) = "update_timeout"
        <5>1. /\ store[Key(u)] # Nothing
              /\ store' = [store EXCEPT ![Key(u)] = [store[Key(u)] EXCEPT !.until = now + call[u].timeout]]
          BY <2>2, <3>4, <4>2 DEF AGet, Kept
        <5>2. now + call[u].timeout \in Nat
          BY <3>1, <4>2, Before, TimeoutsAdd DEF At
        <5>3. [store[Key(u)] EXCEPT !.until = now + call[u].timeout] \in Entry
          BY <3>1, <5>1, <5>2, Before DEF Entry
        <5> QED
          BY <1>1, <3>1, <5>1, <5>3, Before
      <4>3. CASE Op(u) # "update_timeout"
        BY <1>1, <2>2, <3>4, <4>3 DEF AGet
      <4> QED
        BY <4>2, <4>3
    <3>5. CASE Kept(Key(u)) = Nothing
      <4>1. store' = [store EXCEPT ![Key(u)] = Nothing]
        BY <2>2, <3>5 DEF AGet
      <4> QED
        BY <1>1, <3>3, <3>5, <4>1 DEF Kept
    <3> QED
      BY <3>4, <3>5
  <2>3. CASE ASet(u)
    <3>1. pc[u] # "idle" /\ (Op(u) = "set" \/ held[u] # Nothing)
      BY <1>4, <2>3, Before DEF ASet, AsyncMemoryStep, At, OpFits, HeldOK, HasValue
    <3>2. /\ call[u].timeout # Unset
          /\ store' = [store EXCEPT ![Key(u)] = [value |-> NewValue(u), until |-> now + call[u].timeout]]
      BY <1>1, <2>3 DEF ASet
    <3>3. [value |-> NewValue(u), until |-> now + call[u].timeout] \in Entry'
      BY <2>1, <3>1, <3>2, TimeoutsAdd, NewEntry
    <3> QED
      BY <1>1, <1>2, <3>2, <3>3
  <2>4. CASE ARemove(u)
    BY <2>4 DEF ARemove
  <2> QED
    BY <1>4, <2>2, <2>3, <2>4 DEF AsyncMemoryStep
<1>5. ASSUME NEW u \in Users, SqliteStep(u) PROVE Loses(u)
  <2>1. setup.kind \in {"sqlite", "async_sqlite"} /\ World /\ now \in Nat
    BY <1>5, SqliteKeeps, Numbers DEF SqliteStep
  <2>2. CASE QPurge(u)
    <3>1. store[k] \in Entry /\ PurgedBy(store[k])
      BY <1>1, <2>2 DEF QPurge, TypeOK
    <3>2. store[k].until \in Nat
      BY <3>1 DEF Entry
    <3> QED
      BY <2>1, <3>1, <3>2 DEF PurgedBy, Abs!Due, Never, Abs!Never
  <2>3. CASE QDelete(u)
    <3>1. k = Key(u) /\ pc[u] = "delete"
      BY <1>1, <2>3 DEF QDelete
    <3> QED
      BY <2>1, <3>1 DEF SawExpire
  <2>4. CASE QWrite(u)
    <3> DEFINE d == IF Sync THEN CalcExpires(call[u].timeout) ELSE plan[u].until
               row == [value |-> NewValue(u), until |-> d]
    <3>1. pc[u] = "write" /\ (Op(u) = "set" \/ held[u] # Nothing)
      BY <2>4, Before DEF QWrite, At, OpFits, HeldOK, HasValue, Writing
    <3>2. d \in Nat
      BY <3>1, TimeoutsAdd DEF CalcExpires, Never, TypeOK
    <3> HIDE DEF d
    <3>3. row \in Entry'
      BY <2>1, <3>1, <3>2, NewEntry
    <3> HIDE DEF row
    <3>4. store' = [store EXCEPT ![Key(u)] = IF plan[u].exists /\ @ = Nothing THEN @ ELSE row]
      BY <1>1, <2>4 DEF QWrite, row, d
    <3> QED
      BY <1>1, <1>2, <3>3, <3>4
  <2>5. CASE QStart(u) \/ QFind(u) \/ QJudge(u) \/ QRecheck(u) \/ QSet(u) \/ QExists(u)
    BY <1>1, <2>5 DEF QStart, QFind, QJudge, QRecheck, QSet, QExists
  <2> QED
    BY <1>5, <2>2, <2>3, <2>4, <2>5 DEF SqliteStep
<1>6. ASSUME NEW u \in Users, ServerStep(u) PROVE Loses(u)
  <2>1. setup.kind \in Servers /\ World /\ now \in Nat
    BY <1>6, ServerKeeps, Numbers DEF ServerStep, Servers
  <2>2. CASE VDelete(u)
    BY <2>1, <2>2, Before DEF VDelete, At, OpFits
  <2>3. CASE VSet(u)
    <3>1. pc[u] = "set" /\ (Op(u) = "set" \/ held[u] # Nothing)
      BY <2>3, Before DEF VSet, At, OpFits, HeldOK, HasValue, Writing
    <3>2. /\ ~Setting(call[u].timeout).refused
          /\ store' = [store EXCEPT ![Key(u)] = [value |-> NewValue(u), until |-> Setting(call[u].timeout).until]]
      BY <1>1, <2>3 DEF VSet
    <3>3. Setting(call[u].timeout).until \in Nat
      <4>1. call[u].timeout # Unset => now + call[u].timeout \in Nat
        BY <3>1, TimeoutsAdd
      <4> QED
        BY <2>1, <3>2, <4>1
        DEF Setting, RedisSet, AsyncRedisSet, MemcachedSet, AsyncMemcachedSet, Servers, Never
    <3>4. [value |-> NewValue(u), until |-> Setting(call[u].timeout).until] \in Entry'
      BY <2>1, <3>1, <3>3, NewEntry
    <3> QED
      BY <1>1, <1>2, <3>2, <3>4
  <2>4. CASE VStart(u) \/ VGet(u)
    BY <1>1, <2>4 DEF VStart, VGet
  <2> QED
    BY <1>6, <2>2, <2>3, <2>4 DEF ServerStep
<1>7. ASSUME NEW u \in Users, AskSome(u) PROVE FALSE
  <2>1. \E c : Asks(u, c)
    BY <1>7, AskMakesCall
  <2> QED
    BY <1>1, <2>1 DEF Asks
<1>8. ASSUME Tick \/ UNCHANGED vars \/ \E u \in Users : Refuse(u) \/ Compute(u) PROVE FALSE
  BY <1>1, <1>8 DEF Tick, vars, Refuse, Compute
<1> QED
  BY <1>3, <1>4, <1>5, <1>6, <1>7, <1>8 DEF Next, Serve

\* FreshLostOnlyToRemovers: an entry that has not expired goes only because
\* somebody removes it, or because a get of a local adapter has seen an
\* earlier entry of the key expire.  No set, purge or server ever loses it,
\* however many callers there are.
THEOREM FreshEntriesStay == Spec => FreshLostOnlyToRemovers
<1>1. TypeOK /\ ControlInv /\ [Next]_vars
        => [\A k \in Keys :
              store[k] # Nothing /\ ~Abs!Due(store[k]) /\ store'[k] = Nothing
                => \E u \in Users : SawExpire(u, k) \/ (pc[u] # "idle" /\ Op(u) = "remove")]_vars
  BY OnlyRemoversLose
<1> QED
  BY <1>1, Controlled, PTL DEF Spec, FreshLostOnlyToRemovers

-----------------------------------------------------------------------------
(* One caller: what it has found out stays so between its steps *)

LEMMA OnlyCaller ==
  ASSUME TypeOK, ControlInv, Alone
  PROVE  \E p : setup.crew = {p} /\ \A w \in Users : w # p => pc[w] = "idle"
<1>1. IsFiniteSet(setup.crew)
  BY CallsAssumption DEF TypeOK
<1>2. PICK p : setup.crew = {p}
  BY <1>1, FS_Singleton DEF Alone
<1> QED
  BY <1>2 DEF ControlInv, At

\* The places where nothing is remembered of the store.
LEMMA Unplaced ==
  ASSUME NEW u \in Users,
         \/ pc'[u] \in {"idle", "refuse", "start", "find", "compute", "purge"}
         \/ pc'[u] \in {"set", "exists"} /\ Op(u)' # "update_timeout"
  PROVE  StillSo(u)'
BY DEF StillSo

LEMMA Placed ==
  ASSUME ControlInv, NEW u \in Users
  PROVE  /\ \A r : Answer(u, r) => pc'[u] = "idle"
         /\ \A place : Goto(u, place)
                         => pc'[u] = place /\ call'[u] = call[u] /\ Op(u)' = Op(u) /\ Key(u)' = Key(u)
         /\ Miss(u) => pc'[u] \in {"idle", "compute"}
         /\ \A b : NextKey(u, b) => pc'[u] \in {"idle", "find"}
         /\ \A v : Hit(u, v) /\ Op(u) \in Reading \ {"update_timeout"} => pc'[u] \in {"idle", "compute"}
         /\ \A v : Hit(u, v) /\ Op(u) = "update_timeout" => Goto(u, "set")
<1>1. \A r : Answer(u, r) => pc'[u] = "idle"
  BY DEF ControlInv, CallsOK, Answer
<1>2. \A place : Goto(u, place)
                   => pc'[u] = place /\ call'[u] = call[u] /\ Op(u)' = Op(u) /\ Key(u)' = Key(u)
  BY HeldGoto DEF Key
<1>3. Miss(u) => pc'[u] \in {"idle", "compute"}
  BY <1>1 DEF Miss, ControlInv, CallsOK
<1>4. \A b : NextKey(u, b) => pc'[u] \in {"idle", "find"}
  BY <1>1 DEF NextKey, ControlInv, CallsOK
<1>5. \A v : Hit(u, v) /\ Op(u) \in Reading \ {"update_timeout"} => pc'[u] \in {"idle", "compute"}
  BY <1>1, <1>2, <1>3 DEF Hit, Reading, Computing
<1>6. \A v : Hit(u, v) /\ Op(u) = "update_timeout" => Goto(u, "set")
  BY DEF Hit
<1> QED
  BY <1>1, <1>2, <1>3, <1>4, <1>5, <1>6

LEMMA MemoryStays ==
  ASSUME TypeOK, ControlInv, NEW u \in Users, StillSo(u), MemoryStep(u)
  PROVE  StillSo(u)'
<1>1. now' = now /\ now \in Nat
  BY Numbers DEF MemoryStep
<1>2. KeyError(u) => StillSo(u)'
  BY Placed, Unplaced DEF KeyError, Raise
<1>3. CASE MStart(u)
  <2>1. PICK place \in {"set", "find"} : Goto(u, place) /\ (place = "set" => Op(u) = "set")
    BY <1>3 DEF MStart
  <2> QED
    BY <2>1, Placed, Unplaced
<1>4. CASE MFind(u)
  <2>1. CASE store[Key(u)] # Nothing
    <3>1. PICK place \in {"pop", "fetch"} : Goto(u, place)
      BY <1>4, <2>1 DEF MFind
    <3>2. store' = store
      BY <1>4 DEF MFind
    <3> QED
      BY <2>1, <3>1, <3>2, Placed DEF StillSo
  <2>2. CASE store[Key(u)] = Nothing
    BY <1>4, <2>2, Placed, Unplaced DEF MFind
  <2> QED
    BY <2>1, <2>2
<1>5. CASE MFetch(u)
  <2>1. CASE ~KeyError(u)
    <3>1. Goto(u, "judge") /\ held'[u] = store[Key(u)] /\ store' = store
      BY <1>5, <2>1 DEF MFetch, TypeOK
    <3> QED
      BY <3>1, Placed DEF StillSo
  <2> QED
    BY <1>2, <2>1
<1>6. CASE MJudge(u)
  <2>1. pc[u] = "judge" /\ held[u] # Nothing /\ store[Key(u)] = held[u] /\ held[u].until \in Nat
        /\ store' = store /\ Op(u) \in Reading
    BY <1>6, Before DEF MJudge, StillSo, HeldOK, At, OpFits
  <2>2. CASE Expired(held[u])
    <3>1. Goto(u, "drop")
      BY <1>6, <2>2 DEF MJudge
    <3>2. Abs!Due(store[Key(u)])' /\ (Key(u)' = Key(u) => Abs!Due(store[Key(u)])')
      BY <1>1, <2>1, <2>2, <3>1, Placed DEF Expired, Abs!Due, Never, Abs!Never
    <3> QED
      BY <3>1, <3>2, Placed DEF StillSo
  <2>3. CASE ~Expired(held[u]) /\ Op(u) # "update_timeout"
    <3>1. Hit(u, held[u].value)
      BY <1>6, <2>3 DEF MJudge
    <3> QED
      BY <2>1, <2>3, <3>1, Placed, Unplaced
  <2>4. CASE ~Expired(held[u]) /\ Op(u) = "update_timeout"
    <3>1. Goto(u, "set")
      BY <1>6, <2>4, Placed DEF MJudge
    <3>2. held'[u] = held[u]
      BY <1>6, <2>4, <3>1, Placed DEF MJudge, TypeOK
    <3> QED
      BY <2>1, <3>1, <3>2, Placed DEF StillSo
  <2> QED
    BY <2>2, <2>3, <2>4
<1>7. CASE MDrop(u) \/ MPop(u)
  BY <1>2, <1>7, Placed, Unplaced DEF MDrop, MPop
<1>8. CASE MSet(u)
  <2>1. CASE call[u].timeout = Unset
    BY <1>8, <2>1, Placed, Unplaced DEF MSet, Raise
  <2>2. CASE call[u].timeout # Unset
    <3>1. /\ Goto(u, "echo") /\ pc[u] = "set" /\ (Op(u) = "set" \/ held[u] # Nothing)
          /\ store' = [store EXCEPT ![Key(u)] = [value |-> NewValue(u), until |-> now + call[u].timeout]]
      BY <1>8, <2>2, Before DEF MSet, At, OpFits, HeldOK, HasValue, Writing
    <3>2. [value |-> NewValue(u), until |-> now + call[u].timeout] # Nothing
      <4>1. World /\ asks' \in Nat
        BY MemoryKeeps DEF World
      <4>2. [value |-> NewValue(u), until |-> now + call[u].timeout] \in Entry'
        BY <2>2, <3>1, <4>1, TimeoutsAdd, NewEntry
      <4> QED
        BY <4>1, <4>2, NothingAssumption DEF Entry
    <3>3. store'[Key(u)] # Nothing
      BY <3>1, <3>2, Before DEF TypeOK
    <3> QED
      BY <3>1, <3>3, Placed DEF StillSo
  <2> QED
    BY <2>1, <2>2
<1>9. CASE MEcho(u)
  BY <1>2, <1>9, Placed, Unplaced DEF MEcho, Wrote
<1>10. CASE MRetime(u)
  BY <1>2, <1>10, Placed, Unplaced DEF MRetime, Wrote
<1> QED
  BY <1>3, <1>4, <1>5, <1>6, <1>7, <1>8, <1>9, <1>10 DEF MemoryStep

LEMMA AsyncMemoryStays ==
  ASSUME TypeOK, ControlInv, NEW u \in Users, AsyncMemoryStep(u)
  PROVE  StillSo(u)'
<1>1. Keeps(u) /\ World /\ setup.kind = "async_memory"
  BY AsyncMemoryKeeps DEF AsyncMemoryStep
<1>2. pc'[u] # "idle" => pc'[u] \in {"refuse", "start", "compute", "set"}
                         /\ (pc'[u] = "set" => Op(u)' \in Computing)
  BY <1>1 DEF Keeps, Fine, At, OpFits, World
<1> QED
  BY <1>2, Unplaced DEF Computing

LEMMA ServerStays ==
  ASSUME TypeOK, ControlInv, NEW u \in Users, StillSo(u), ServerStep(u)
  PROVE  StillSo(u)'
<1>1. now' = now /\ now \in Nat
  BY Numbers DEF ServerStep
<1>2. CASE VStart(u)
  <2>1. PICK place \in {"set", "find"} : Goto(u, place) /\ (place = "set" => Op(u) = "set")
    BY <1>2 DEF VStart
  <2> QED
    BY <2>1, Placed, Unplaced
<1>3. CASE VGet(u)
  <2>1. pc[u] = "find" /\ (Op(u) # "remove" => Op(u) \in Reading) /\ store' = store
        /\ held'[u] = IF pc'[u] = "set" THEN store[Key(u)] ELSE Nothing
    BY <1>3, Before, CallTypes DEF VGet, At, OpFits, Op, Abs!Ops, Reading, Computing
  <2>2. CASE Serves(Key(u)) /\ Op(u) = "remove"
    <3>1. Goto(u, "delete") /\ store[Key(u)] # Nothing
      BY <1>3, <2>2 DEF VGet, Serves
    <3> QED
      BY <2>1, <2>2, <3>1, Placed DEF StillSo
  <2>3. CASE Serves(Key(u)) /\ Op(u) = "update_timeout"
    <3>1. Goto(u, "set") /\ store[Key(u)] # Nothing
      BY <1>3, <2>3, Placed DEF VGet, Serves
    <3> QED
      BY <2>1, <3>1, Placed DEF StillSo
  <2>4. CASE ~Serves(Key(u)) \/ Op(u) \notin {"remove", "update_timeout"}
    BY <1>3, <2>1, <2>4, Placed, Unplaced DEF VGet
  <2> QED
    BY <2>2, <2>3, <2>4
<1>4. CASE VDelete(u)
  BY <1>4, Placed, Unplaced DEF VDelete
<1>5. CASE VSet(u)
  BY <1>5, Placed, Unplaced DEF VSet, Raise, Wrote
<1> QED
  BY <1>2, <1>3, <1>4, <1>5 DEF ServerStep

LEMMA SqliteStays ==
  ASSUME TypeOK, ControlInv, NEW u \in Users, StillSo(u), SqliteStep(u)
  PROVE  StillSo(u)'
<1>1. now' = now /\ now \in Nat /\ setup.kind \in Sqlites
  BY Numbers DEF SqliteStep, Sqlites
<1>2. CASE QStart(u)
  <2>1. PICK place \in {"purge", "exists", "find"} : Goto(u, place) /\ (place = "exists" => Op(u) = "set")
    BY <1>2 DEF QStart
  <2> QED
    BY <2>1, Placed, Unplaced
<1>3. CASE QPurge(u)
  <2>1. pc[u] = "purge" /\ Op(u) # "update_timeout"
    BY <1>3, Before DEF QPurge, At, OpFits, Computing
  <2>2. PICK place \in {"exists", "find"} : Goto(u, place)
    BY <1>3 DEF QPurge
  <2> QED
    BY <2>1, <2>2, Placed, Unplaced
<1>4. CASE QFind(u)
  <2>1. pc[u] = "find" /\ store' = store
    BY <1>4 DEF QFind
  <2>2. CASE store[Key(u)] = Nothing
    BY <1>4, <2>2, Placed, Unplaced DEF QFind
  <2>3. CASE store[Key(u)] # Nothing /\ Op(u) = "remove"
    <3>1. Goto(u, "delete")
      BY <1>4, <2>3 DEF QFind
    <3> QED
      BY <2>1, <2>3, <3>1, Placed DEF StillSo
  <2>4. CASE store[Key(u)] # Nothing /\ Op(u) # "remove"
    <3>1. PICK place \in {"exists", "judge"} : Goto(u, place)
      BY <1>4, <2>4 DEF QFind
    <3>2. held'[u] = store[Key(u)]
      BY <1>4, <2>4 DEF QFind, TypeOK
    <3> QED
      BY <2>1, <2>4, <3>1, <3>2, Placed DEF StillSo
  <2> QED
    BY <2>2, <2>3, <2>4
<1>5. CASE QJudge(u)
  <2>1. pc[u] = "judge" /\ held[u] # Nothing /\ store[Key(u)] = held[u] /\ held[u].until \in Nat
        /\ store' = store /\ Op(u) \in Reading \ {"update_timeout"}
    BY <1>1, <1>5, Before DEF QJudge, StillSo, HeldOK, At, OpFits
  <2>2. CASE RowExpired(held[u])
    <3>1. Goto(u, "recheck")
      BY <1>5, <2>2 DEF QJudge
    <3>2. Abs!Due(store[Key(u)])'
      BY <1>1, <2>1, <2>2, <3>1, Placed DEF RowExpired, Abs!Due, Never, Abs!Never
    <3> QED
      BY <3>1, <3>2, Placed DEF StillSo
  <2>3. CASE ~RowExpired(held[u])
    BY <1>5, <2>1, <2>3, Placed, Unplaced DEF QJudge
  <2> QED
    BY <2>2, <2>3
<1>6. CASE QRecheck(u)
  <2>1. CASE Miss(u)
    BY <2>1, Placed, Unplaced
  <2>2. CASE Goto(u, "delete")
    <3>1. pc[u] = "recheck" /\ Abs!Due(store[Key(u)]) /\ store' = store
      BY <1>6 DEF QRecheck, StillSo
    <3>2. Abs!Due(store[Key(u)])'
      BY <1>1, <2>2, <3>1, Placed DEF Abs!Due
    <3>3. store'[Key(u)] # Nothing
      BY <3>1 DEF Abs!Due
    <3> QED
      BY <2>2, <3>2, <3>3, Placed DEF StillSo
  <2> QED
    BY <1>6, <2>1, <2>2 DEF QRecheck
<1>7. CASE QDelete(u)
  BY <1>7, Placed, Unplaced DEF QDelete
<1>8. CASE QSet(u)
  <2>1. pc[u] = "set" /\ Op(u) # "update_timeout"
    BY <1>1, <1>8, Before DEF QSet, At, OpFits, Computing
  <2>2. PICK place \in {"purge", "exists"} : Goto(u, place)
    BY <1>8 DEF QSet
  <2> QED
    BY <2>1, <2>2, Placed, Unplaced
<1>9. CASE QExists(u)
  <2>1. pc[u] = "exists" /\ Goto(u, "write") /\ store' = store /\ held' = held
    BY <1>9 DEF QExists
  <2>2. plan'[u].exists <=> store[Key(u)] # Nothing
    BY <1>9 DEF QExists, TypeOK
  <2>3. Op(u) = "update_timeout" => store[Key(u)] # Nothing /\ store[Key(u)] = held[u]
    BY <2>1 DEF StillSo
  <2>4. pc'[u] = "write" /\ Key(u)' = Key(u) /\ Op(u)' = Op(u)
    BY <2>1, Placed
  <2> QED
    BY <2>1, <2>2, <2>3, <2>4 DEF StillSo
<1>10. CASE QWrite(u)
  BY <1>10, Placed, Unplaced DEF QWrite, Raise, Wrote
<1> QED
  BY <1>2, <1>3, <1>4, <1>5, <1>6, <1>7, <1>8, <1>9, <1>10 DEF SqliteStep

LEMMA SoloKeeps ==
  ASSUME TypeOK, ControlInv, SoloInv, [Next]_vars
  PROVE  SoloInv'
<1> SUFFICES ASSUME Alone PROVE \A w \in Users : StillSo(w)'
  <2>1. setup' = setup
    BY DEF Next, vars, Tick, AskSome, Ask, Refuse, Compute, Serve,
           MemoryStep, AsyncMemoryStep, SqliteStep, ServerStep
  <2> QED
    BY <2>1 DEF SoloInv, Alone
<1>1. PICK p : setup.crew = {p} /\ \A w \in Users : w # p => pc[w] = "idle"
  BY OnlyCaller
<1>2. \A w \in Users : StillSo(w)
  BY DEF SoloInv
<1>3. ASSUME NEW u \in Users, AskSome(u) \/ Refuse(u) \/ Compute(u) \/ Serve(u)
      PROVE  \A w \in Users : StillSo(w)'
  <2>1. u = p /\ \A w \in Users \ {u} : Steady(w)
    <3>1. pc[u] # "idle" \/ u \in setup.crew
      <4>1. AskSome(u) => u \in setup.crew
        BY DEF AskSome, Ask
      <4> QED
        BY <1>3, <4>1 DEF Refuse, Compute, Serve, MemoryStep, AsyncMemoryStep, SqliteStep, ServerStep,
             MStart, MFind, MFetch, MJudge, MDrop, MPop, MSet, MEcho, MRetime, AGet, ASet, ARemove,
             QStart, QPurge, QFind, QJudge, QRecheck, QDelete, QSet, QExists, QWrite,
             VStart, VGet, VDelete, VSet
    <3> QED
      BY <1>1, <1>3, <3>1, AskKeeps, RefuseKeeps, ComputeKeeps, MemoryKeeps, AsyncMemoryKeeps,
         SqliteKeeps, ServerKeeps DEF Serve
  <2>2. \A w \in Users \ {u} : StillSo(w)'
    BY <1>1, <2>1, Unplaced DEF Steady
  <2>3. CASE AskSome(u)
    <3>1. PICK c : Asks(u, c)
      BY <2>3, AskMakesCall
    <3>2. pc'[u] \in {"refuse", "start"}
      BY <3>1 DEF Asks, ControlInv, CallsOK
    <3> QED
      BY <2>2, <3>2, Unplaced
  <2>4. CASE Refuse(u)
    BY <2>2, <2>4, Placed, Unplaced DEF Refuse, Raise
  <2>5. CASE Compute(u)
    <3>1. Op(u) # "update_timeout"
      BY <2>5, Before DEF Compute, At, OpFits, Computing
    <3> QED
      BY <2>2, <2>5, <3>1, Placed, Unplaced DEF Compute, Raise
  <2>6. CASE Serve(u)
    BY <1>2, <2>2, <2>6, MemoryStays, AsyncMemoryStays, SqliteStays, ServerStays DEF Serve
  <2> QED
    BY <1>3, <2>3, <2>4, <2>5, <2>6
<1>4. ASSUME Tick \/ UNCHANGED vars PROVE \A w \in Users : StillSo(w)'
  <2>1. /\ now' \in Nat /\ now \in Nat /\ now <= now'
        /\ UNCHANGED <<store, call, pc, held, plan>>
    BY <1>4, Numbers DEF Tick, vars
  <2>2. ASSUME NEW w \in Users, Abs!Due(store[Key(w)]), Key(w) \in Keys PROVE Abs!Due(store[Key(w)])'
    <3>1. store[Key(w)].until \in Nat
      BY <2>2, Numbers DEF TypeOK, Entry, Abs!Due
    <3> QED
      BY <2>1, <2>2, <3>1 DEF Abs!Due, Key
  <2>3. \A w \in Users : pc[w] # "idle" => Key(w) \in Keys
    BY Before
  <2> QED
    BY <1>2, <2>1, <2>2, <2>3 DEF StillSo, Op, Key
<1> QED
  BY <1>3, <1>4 DEF Next

-----------------------------------------------------------------------------
(* The steps of ExpiringCache *)

\* A step of u leaves the others' abstract calls and answers alone.
LEMMA AbsFrame ==
  ASSUME TypeOK, ControlInv, NEW u \in Users,
         \A w \in Users \ {u} : Steady(w) /\ answer'[w] = answer[w]
  PROVE  /\ Asked' = [Asked EXCEPT ![u] = Asked'[u]]
         /\ Answered' = [Answered EXCEPT ![u] = Answered'[u]]
<1>1. ASSUME NEW w \in Users \ {u} PROVE Asked'[w] = Asked[w] /\ Answered'[w] = Answered[w]
  <2>1. Steady(w) /\ answer'[w] = answer[w]
    OBVIOUS
  <2>2. Over(w) => call[w].op = "set" \/ held[w] # Nothing
    <3>1. Over(w) => At(w) /\ HeldOK(w)
      BY DEF ControlInv, Over
    <3> QED
      BY <3>1 DEF At, OpFits, HeldOK, HasValue, Over, Op
  <2> QED
    BY <2>1, <2>2 DEF Asked, Answered, Over, Steady, SameHeld
<1>2. Asked' = [w \in Users |-> Asked'[w]] /\ Answered' = [w \in Users |-> Answered'[w]]
  BY DEF Asked, Answered
<1>3. Asked = [w \in Users |-> Asked[w]] /\ Answered = [w \in Users |-> Answered[w]]
  BY DEF Asked, Answered
<1> QED
  BY <1>1, <1>2, <1>3

\* So do the ways a call goes on.
LEMMA OthersAnswers ==
  ASSUME ControlInv, NEW u \in Users, NEW w \in Users \ {u},
         \/ \E place : Goto(u, place)
         \/ \E r : Answer(u, r)
         \/ \E v : Hit(u, v) /\ Op(u) \in Reading
         \/ Miss(u)
         \/ \E b : NextKey(u, b)
  PROVE  answer'[w] = answer[w]
<1> USE DEF ControlInv, CallsOK
<1>1. CASE (\E place : Goto(u, place)) \/ (\E r : Answer(u, r))
  BY <1>1 DEF Goto, Answer
<1>2. ASSUME Miss(u) PROVE answer'[w] = answer[w]
  BY <1>2 DEF Miss, Answer
<1>3. ASSUME NEW v, Hit(u, v), Op(u) \in Reading PROVE answer'[w] = answer[w]
  BY <1>3, <1>1, <1>2 DEF Hit, Reading, Computing
<1>4. ASSUME NEW b, NextKey(u, b) PROVE answer'[w] = answer[w]
  BY <1>4 DEF NextKey, Answer
<1> QED
  BY <1>1, <1>2, <1>3, <1>4

OthersSame(u) == \A w \in Users \ {u} : Steady(w)

\* A call that is asked and not over.
LEMMA AbsCall ==
  ASSUME ControlInv, NEW u \in Users, pc[u] \notin {"idle", "echo"}
  PROVE  Asked[u] = call[u] /\ Asked[u] # Nothing /\ Answered[u] = answer[u] /\ call[u] \in Calls
<1>1. call[u] \in Calls
  BY DEF ControlInv, At
<1> QED
  BY <1>1, NothingAssumption DEF Asked, Answered, Over

\* The abstract call is answered when the call is.
LEMMA AbsAnswer ==
  ASSUME TypeOK, ControlInv, NEW u \in Users, OthersSame(u), NEW r, Answer(u, r)
  PROVE  Abs!Answer(u, r)
<1>1. pc'[u] = "idle" /\ call'[u] = Nothing /\ answer'[u] = r
  BY DEF ControlInv, CallsOK, Answer
<1>2. Asked'[u] = Nothing /\ Answered'[u] = r
  BY <1>1 DEF Asked, Answered, Over
<1>3. \A w \in Users \ {u} : Steady(w) /\ answer'[w] = answer[w]
  BY OthersAnswers DEF OthersSame
<1> QED
  BY <1>2, <1>3, AbsFrame DEF Abs!Answer

LEMMA AbsGoto ==
  ASSUME TypeOK, ControlInv, NEW u \in Users, OthersSame(u), NEW place, place # "echo",
         pc[u] # "echo", Goto(u, place)
  PROVE  UNCHANGED <<Asked, Answered>>
<1>1. pc'[u] = place /\ call'[u] = call[u] /\ answer'[u] = answer[u]
  BY DEF ControlInv, CallsOK, Goto
<1>2. Asked'[u] = Asked[u] /\ Answered'[u] = Answered[u]
  BY <1>1 DEF Asked, Answered, Over
<1>3. \A w \in Users \ {u} : Steady(w) /\ answer'[w] = answer[w]
  BY OthersAnswers DEF OthersSame
<1>4. Asked = [Asked EXCEPT ![u] = Asked[u]] /\ Answered = [Answered EXCEPT ![u] = Answered[u]]
  BY DEF Asked, Answered
<1> QED
  BY <1>2, <1>3, <1>4, AbsFrame

LEMMA AbsMissed ==
  ASSUME TypeOK, ControlInv, NEW u \in Users, OthersSame(u), pc[u] \notin {"idle", "echo"},
         Op(u) \in Computing, Miss(u)
  PROVE  Asked' = [Asked EXCEPT ![u].missed = TRUE] /\ Answered' = Answered
<1>1. /\ pc'[u] = "compute" /\ call'[u] = [call[u] EXCEPT !.missed = TRUE]
      /\ answer'[u] = answer[u]
  BY DEF ControlInv, CallsOK, Miss, Computing
<1>2. Asked'[u] = [Asked[u] EXCEPT !.missed = TRUE] /\ Answered'[u] = Answered[u]
  BY <1>1, AbsCall DEF Asked, Answered, Over
<1>3. \A w \in Users \ {u} : Steady(w) /\ answer'[w] = answer[w]
  BY OthersAnswers DEF OthersSame
<1>4. Answered = [Answered EXCEPT ![u] = Answered[u]]
  BY DEF Answered
<1>5. Asked' = [Asked EXCEPT ![u] = [Asked[u] EXCEPT !.missed = TRUE]]
  BY <1>2, <1>3, AbsFrame
<1> QED
  BY <1>2, <1>3, <1>4, <1>5, AbsFrame

-----------------------------------------------------------------------------
(* What a call finds, and the abstract step it takes *)

LEMMA AbsMiss ==
  ASSUME TypeOK, ControlInv, NEW u \in Users, OthersSame(u), pc[u] \notin {"idle", "echo"},
         Op(u) \in Reading, ~call[u].missed, Miss(u), now' = now,
         store[Key(u)] = Nothing \/ Abs!Due(store[Key(u)]),
         store' \in {store, [store EXCEPT ![Key(u)] = Nothing]}
  PROVE  Abs!Serve(u)
<1>1. Asked[u] = call[u] /\ Asked[u] # Nothing /\ Key(u) = Asked[u].keys[1] /\ Op(u) = Asked[u].op
  BY AbsCall, CallTypes DEF Key, Op
<1>2. Abs!Misses(u)
  BY <1>1 DEF Abs!Misses, Abs!EntryOf
<1>3. CASE Op(u) \in {"get", "update_timeout"}
  <2>1. Abs!Answer(u, Abs!NotFound)
    BY <1>3, AbsAnswer DEF Miss
  <2> QED
    BY <1>1, <1>2, <1>3, <2>1 DEF Abs!Serve, Abs!Get, Abs!UpdateTimeout
<1>4. CASE Op(u) \in Computing
  <2>1. Asked' = [Asked EXCEPT ![u].missed = TRUE] /\ Answered' = Answered
    BY <1>4, AbsMissed
  <2>2. Abs!GetOrSet(u)
    BY <1>1, <1>2, <1>4, <2>1 DEF Abs!GetOrSet, Computing
  <2> QED
    BY <1>1, <2>2 DEF Abs!Serve
<1> QED
  BY <1>3, <1>4 DEF Reading

\* A step of the implementation that the caller cannot see.
Stutters == UNCHANGED <<now, store, Asked, Answered>>

LEMMA AbsHit ==
  ASSUME TypeOK, ControlInv, NEW u \in Users, OthersSame(u), pc[u] \notin {"idle", "echo"},
         Op(u) \in Reading, ~call[u].missed, now' = now, store' = store,
         Abs!Fresh(store[Key(u)]), Hit(u, store[Key(u)].value)
  PROVE  Abs!Serve(u) \/ Stutters
<1> DEFINE v == store[Key(u)].value
<1>1. /\ Asked[u] = call[u] /\ Asked[u] # Nothing /\ Key(u) = Asked[u].keys[1] /\ Op(u) = Asked[u].op
      /\ Abs!EntryOf(u) = store[Key(u)] /\ store[Key(u)] # Nothing
  BY AbsCall, CallTypes DEF Key, Op, Abs!EntryOf, Abs!Fresh
<1>2. CASE Op(u) \in {"get", "get_or_set"} \/ (Op(u) = "memo" /\ v # 0)
  <2>1. Abs!Answer(u, Abs!Found(v))
    BY <1>2, AbsAnswer DEF Hit
  <2>2. Abs!Hit(u)
    BY <1>1, <2>1 DEF Abs!Hit
  <2>3. Abs!Get(u) \/ Abs!GetOrSet(u)
    BY <1>1, <1>2, <2>2 DEF Abs!Get, Abs!GetOrSet
  <2> QED
    BY <1>1, <2>3 DEF Abs!Serve
<1>3. CASE Op(u) = "memo" /\ v = 0
  <2>1. Miss(u)
    BY <1>3 DEF Hit
  <2>2. Asked' = [Asked EXCEPT ![u].missed = TRUE] /\ Answered' = Answered
    BY <1>3, <2>1, AbsMissed DEF Computing
  <2>3. Abs!GetOrSet(u)
    BY <1>1, <1>3, <2>2 DEF Abs!GetOrSet
  <2> QED
    BY <1>1, <2>3 DEF Abs!Serve
<1>4. CASE Op(u) \in {"bypass", "update_timeout"}
  <2>1. PICK place \in {"compute", "set"} : Goto(u, place)
    BY <1>4 DEF Hit
  <2>2. UNCHANGED <<Asked, Answered>>
    BY <2>1, AbsGoto
  <2> QED
    BY <2>2 DEF Stutters
<1> QED
  BY <1>2, <1>3, <1>4 DEF Reading, Computing

\* One key of remove.
LEMMA AbsNextKey ==
  ASSUME TypeOK, ControlInv, NEW u \in Users, OthersSame(u), pc[u] \notin {"idle", "echo"},
         Op(u) = "remove", NEW there \in BOOLEAN, NextKey(u, there), now' = now,
         \/ there /\ store[Key(u)] # Nothing /\ store' = [store EXCEPT ![Key(u)] = Nothing]
         \/ ~there /\ store[Key(u)] = Nothing /\ store' = store
         \/ ~there /\ Abs!Due(store[Key(u)]) /\ store' = store
  PROVE  Abs!Serve(u)
<1> DEFINE c == Asked[u]
<1>1. /\ c = call[u] /\ c # Nothing /\ Key(u) = c.keys[1] /\ c.op = "remove" /\ c.keys[1] \in Keys
      /\ Len(c.keys) \in Nat \ {0} /\ Answered[u] = answer[u]
      /\ c.keys \in Seq(Keys) /\ c.keys # <<>>
  BY AbsCall, CallTypes DEF Key, Op
<1>2. {c.keys[i] : i \in 1..1} = {c.keys[1]} /\ 1 \in 1..Len(c.keys)
  BY <1>1
<1>3. /\ store' = [k \in Keys |-> IF k \in {c.keys[1]} THEN store'[k] ELSE store[k]]
      /\ \A k \in {c.keys[1]} : store'[k] = Nothing \/ (~there /\ Abs!Due(store[k]) /\ store'[k] = store[k])
      /\ there => \A k \in {c.keys[1]} : store[k] # Nothing
      /\ ~there => \E k \in {c.keys[1]} : store[k] = Nothing \/ Abs!Due(store[k])
  BY <1>1 DEF TypeOK
<1>4. IF 1 = Len(c.keys)
      THEN Abs!Answer(u, Abs!Removed(c.all /\ there))
      ELSE /\ Asked' = [Asked EXCEPT ![u].keys = SubSeq(c.keys, 1 + 1, Len(c.keys)),
                                     ![u].all = c.all /\ there]
           /\ UNCHANGED Answered
  <2>1. CASE Len(c.keys) = 1
    <3>1. Answer(u, Abs!Removed(c.all /\ there))
      BY <1>1, <2>1 DEF NextKey
    <3>2. Abs!Answer(u, Abs!Removed(c.all /\ there))
      BY <3>1, AbsAnswer
    <3> QED
      BY <2>1, <3>2
  <2>2. CASE Len(c.keys) # 1
    <3>1. /\ pc'[u] = "find" /\ answer'[u] = answer[u]
          /\ call'[u] = [c EXCEPT !.keys = Tail(c.keys), !.all = c.all /\ there]
      <4>1. /\ pc' = [pc EXCEPT ![u] = "find"] /\ answer' = answer
            /\ call' = [call EXCEPT ![u].keys = Tail(@), ![u].all = @ /\ there]
        BY <1>1, <2>2 DEF NextKey
      <4>2. DOMAIN pc = Users /\ DOMAIN call = Users
        BY DEF ControlInv, CallsOK
      <4> QED
        BY <1>1, <4>1, <4>2
    <3>2. /\ Asked'[u] = [c EXCEPT !.keys = Tail(c.keys), !.all = c.all /\ there]
          /\ Answered'[u] = Answered[u]
      BY <1>1, <3>1 DEF Asked, Answered, Over
    <3>3. \A w \in Users \ {u} : Steady(w) /\ answer'[w] = answer[w]
      BY OthersAnswers DEF OthersSame
    <3>4. /\ Asked' = [Asked EXCEPT ![u] = [c EXCEPT !.keys = Tail(c.keys), !.all = c.all /\ there]]
          /\ Answered' = [Answered EXCEPT ![u] = Answered[u]]
      BY <3>2, <3>3, AbsFrame
    <3>5. Tail(c.keys) = SubSeq(c.keys, 1 + 1, Len(c.keys))
      BY <1>1, KeyLists
    <3>6. /\ Answered = [Answered EXCEPT ![u] = Answered[u]] /\ DOMAIN Asked = Users
      BY DEF Asked, Answered
    <3> QED
      BY <2>2, <3>4, <3>5, <3>6
  <2> QED
    BY <2>1, <2>2
<1>5. Abs!Remove(u)
  <2> DEFINE Goes(gone, t) ==
               /\ store' = [k \in Keys |-> IF k \in gone THEN store'[k] ELSE store[k]]
               /\ \A k \in gone :
                    \/ store'[k] = Nothing
                    \/ ~t /\ Abs!Due(store[k]) /\ store'[k] = store[k]
               /\ t => \A k \in gone : store[k] # Nothing
               /\ ~t => \E k \in gone : store[k] = Nothing \/ Abs!Due(store[k])
             Ends(n, t) ==
               IF n = Len(c.keys)
               THEN Abs!Answer(u, Abs!Removed(c.all /\ t))
               ELSE /\ Asked' = [Asked EXCEPT ![u].keys = SubSeq(c.keys, n + 1, Len(c.keys)),
                                              ![u].all = c.all /\ t]
                    /\ UNCHANGED Answered
  <2>1. Goes({c.keys[i] : i \in 1..1}, there)
    BY <1>2, <1>3
  <2>2. Ends(1, there)
    BY <1>4
  <2> HIDE DEF Goes, Ends
  <2>3. \E n \in 1..Len(c.keys), t \in BOOLEAN : Goes({c.keys[i] : i \in 1..n}, t) /\ Ends(n, t)
    BY <1>2, <2>1, <2>2
  <2> QED
    BY <1>1, <2>3 DEF Abs!Remove, Goes, Ends
<1> QED
  BY <1>1, <1>5 DEF Abs!Serve

\* The value is stored, and that answers the call.
LEMMA AbsWrite ==
  ASSUME TypeOK, ControlInv, NEW u \in Users, pc[u] \notin {"idle", "echo"},
         now' = now, NEW d \in Abs!Deadlines(call[u]), NEW v,
         store' = [store EXCEPT ![Key(u)] = [value |-> v, until |-> d]],
         \/ Op(u) = "set" /\ v = call[u].id /\ Abs!Answer(u, Abs!Stored)
         \/ /\ Op(u) \in Computing /\ v \in {0, call[u].id}
            /\ call[u].missed \/ Op(u) = "bypass"
            /\ Abs!Answer(u, Abs!Found(v))
         \/ /\ Op(u) = "update_timeout" /\ store[Key(u)] # Nothing /\ v = store[Key(u)].value
            /\ Abs!Answer(u, Abs!Found(v))
  PROVE  Abs!Serve(u)
<1>1. /\ Asked[u] = call[u] /\ Asked[u] # Nothing /\ Key(u) = Asked[u].keys[1] /\ Op(u) = Asked[u].op
      /\ Abs!EntryOf(u) = store[Key(u)]
  BY AbsCall, CallTypes DEF Key, Op, Abs!EntryOf
<1>2. \A r : Abs!Answer(u, r) => Abs!Write(u, v, r)
  BY <1>1 DEF Abs!Write
<1>3. CASE Op(u) = "set"
  BY <1>1, <1>2, <1>3 DEF Abs!Serve, Abs!Set, Computing
<1>4. CASE Op(u) \in Computing
  <2>1. Abs!GetOrSet(u)
    BY <1>1, <1>2, <1>4 DEF Abs!GetOrSet, Computing
  <2> QED
    BY <1>1, <2>1 DEF Abs!Serve
<1>5. CASE Op(u) = "update_timeout"
  <2>1. Abs!UpdateTimeout(u)
    BY <1>1, <1>2, <1>5 DEF Abs!UpdateTimeout, Computing
  <2> QED
    BY <1>1, <2>1 DEF Abs!Serve
<1> QED
  BY <1>3, <1>4, <1>5 DEF Computing

LEMMA AbsFail ==
  ASSUME TypeOK, ControlInv, NEW u \in Users, OthersSame(u), pc[u] \notin {"idle", "echo"},
         call[u].timeout \in {Unset, 0} \/ Op(u) \in Computing, Raise(u), now' = now, store' = store
  PROVE  Abs!Serve(u)
<1>1. Asked[u] = call[u] /\ Asked[u] # Nothing
  BY AbsCall
<1>2. Abs!Answer(u, Abs!Raised)
  BY AbsAnswer DEF Raise
<1> QED
  BY <1>1, <1>2 DEF Abs!Serve, Abs!Fail, Op, Unset, Abs!Unset, Computing

\* A deadline that counts from the moment of the write.
LEMMA NowInTime ==
  ASSUME TypeOK, ControlInv, NEW u \in Users, pc[u] # "idle", call[u].timeout # Unset
  PROVE  now + call[u].timeout \in Abs!Deadlines(call[u])
<1>1. call[u].timeout \in Nat /\ now \in Nat /\ call[u].since \in Nat /\ call[u].since <= now
  BY Before, Numbers, CallTypes DEF At
<1> QED
  BY <1>1 DEF Abs!Deadlines, Abs!Unset, Unset, Abs!Never

\* What update_timeout keeps of the entry is its value.
LEMMA SameEntry ==
  ASSUME NEW e \in [value : Nat, until : Nat], NEW d
  PROVE  [e EXCEPT !.until = d] = [value |-> e.value, until |-> d]
OBVIOUS

LEMMA AbsStored ==
  ASSUME TypeOK, ControlInv, NEW u \in Users, OthersSame(u), pc[u] \in {"start", "set", "write"},
         StillSo(u), Op(u) = "set" \/ pc[u] # "start", Op(u) \in Writing,
         now' = now, NEW d \in Abs!Deadlines(call[u]), Wrote(u),
         store' = [store EXCEPT ![Key(u)] = [value |-> NewValue(u), until |-> d]]
  PROVE  Abs!Serve(u)
<1>1. HeldOK(u) /\ Op(u) = call[u].op
  BY Before DEF Op
<1>2. CASE Op(u) = "set"
  <2>1. NewValue(u) = call[u].id /\ Abs!Answer(u, Abs!Stored)
    BY <1>2, AbsAnswer DEF NewValue, Wrote
  <2> QED
    BY <1>2, <2>1, AbsWrite
<1>3. CASE Op(u) \in Computing
  <2>1. /\ NewValue(u) \in {0, call[u].id} /\ (call[u].missed \/ Op(u) = "bypass")
        /\ NewValue(u) = held[u].value
    BY <1>1, <1>3 DEF NewValue, HeldOK, HasValue, Computing
  <2>2. Abs!Answer(u, Abs!Found(NewValue(u)))
    BY <1>3, <2>1, AbsAnswer DEF Wrote, Computing
  <2> QED
    BY <1>3, <2>1, <2>2, AbsWrite
<1>4. CASE Op(u) = "update_timeout"
  <2>1. store[Key(u)] # Nothing /\ NewValue(u) = store[Key(u)].value /\ NewValue(u) = held[u].value
    BY <1>4 DEF StillSo, NewValue
  <2>2. Abs!Answer(u, Abs!Found(NewValue(u)))
    BY <1>4, <2>1, AbsAnswer DEF Wrote
  <2> QED
    BY <1>4, <2>1, <2>2, AbsWrite
<1> QED
  BY <1>2, <1>3, <1>4 DEF Writing

LEMMA NotMissed ==
  ASSUME TypeOK, ControlInv, NEW u \in Users, pc[u] \notin {"idle", "compute"}, ~HasValue(u)
  PROVE  ~call[u].missed
BY DEF ControlInv, HeldOK

LEMMA MemoryImplements ==
  ASSUME TypeOK, ControlInv, NEW u \in Users, StillSo(u), MemoryStep(u)
  PROVE  Abs!Serve(u) \/ Stutters
<1>1. now' = now /\ now \in Nat /\ setup.kind = "memory" /\ OthersSame(u)
  BY Numbers, MemoryKeeps DEF MemoryStep, OthersSame
<1>2. ASSUME NEW place, place # "echo", pc[u] # "echo", Goto(u, place), store' = store PROVE Stutters
  BY <1>1, <1>2, AbsGoto DEF Stutters
<1>3. CASE MStart(u)
  BY <1>2, <1>3 DEF MStart
<1>4. CASE MFind(u)
  <2>1. pc[u] = "find" /\ ~call[u].missed /\ store' = store /\ (Op(u) # "remove" => Op(u) \in Reading)
    BY <1>4, Before, CallTypes, NotMissed
    DEF MFind, HasValue, At, OpFits, Op, Abs!Ops, Reading, Computing
  <2>2. CASE store[Key(u)] # Nothing
    BY <1>2, <1>4, <2>1, <2>2 DEF MFind
  <2>3. CASE store[Key(u)] = Nothing /\ Op(u) = "remove"
    BY <1>1, <1>4, <2>1, <2>3, AbsNextKey DEF MFind
  <2>4. CASE store[Key(u)] = Nothing /\ Op(u) # "remove"
    BY <1>1, <1>4, <2>1, <2>4, AbsMiss DEF MFind
  <2> QED
    BY <2>2, <2>3, <2>4
<1>5. CASE MFetch(u)
  BY <1>2, <1>5 DEF MFetch, KeyError, StillSo
<1>6. CASE MJudge(u)
  <2>1. /\ pc[u] = "judge" /\ held[u] # Nothing /\ store[Key(u)] = held[u] /\ held[u].until \in Nat
        /\ store' = store /\ Op(u) \in Reading /\ ~call[u].missed
    BY <1>6, Before, NotMissed DEF MJudge, StillSo, HeldOK, At, OpFits, HasValue
  <2>2. CASE Expired(held[u])
    BY <1>2, <1>6, <2>1, <2>2 DEF MJudge
  <2>3. CASE ~Expired(held[u])
    <3>1. Abs!Fresh(store[Key(u)])
      BY <1>1, <2>1, <2>3 DEF Expired, Abs!Fresh, Never, Abs!Never
    <3>2. Hit(u, store[Key(u)].value)
      BY <1>6, <2>1, <2>3 DEF MJudge
    <3> QED
      BY <1>1, <2>1, <3>1, <3>2, AbsHit
  <2> QED
    BY <2>2, <2>3
<1>7. CASE MDrop(u)
  <2>1. pc[u] = "drop" /\ Op(u) \in Reading /\ ~call[u].missed /\ Abs!Due(store[Key(u)])
    BY <1>7, Before, NotMissed DEF MDrop, StillSo, At, OpFits, HasValue
  <2>2. store' = [store EXCEPT ![Key(u)] = Nothing] /\ Miss(u)
    BY <1>7, <2>1 DEF MDrop, KeyError, Abs!Due
  <2> QED
    BY <1>1, <2>1, <2>2, AbsMiss
<1>8. CASE MPop(u)
  <2>1. pc[u] = "pop" /\ Op(u) = "remove" /\ store[Key(u)] # Nothing
    BY <1>8, Before DEF MPop, StillSo, At, OpFits
  <2>2. store' = [store EXCEPT ![Key(u)] = Nothing] /\ NextKey(u, TRUE)
    BY <1>8, <2>1 DEF MPop, KeyError
  <2> QED
    BY <1>1, <2>1, <2>2, AbsNextKey
<1>9. CASE MSet(u)
  <2>1. pc[u] = "set" /\ Op(u) \in Computing \cup {"set"} /\ HeldOK(u)
    BY <1>9, Before DEF MSet, At, OpFits, Writing
  <2>2. CASE call[u].timeout = Unset
    BY <1>1, <1>9, <2>1, <2>2, AbsFail DEF MSet
  <2>3. CASE call[u].timeout # Unset
    <3>1. /\ Goto(u, "echo") /\ held' = held
          /\ store' = [store EXCEPT ![Key(u)] = [value |-> NewValue(u), until |-> now + call[u].timeout]]
      BY <1>9, <2>3 DEF MSet
    <3>2. now + call[u].timeout \in Abs!Deadlines(call[u])
      BY <2>1, <2>3, NowInTime
    <3> DEFINE r == IF Op(u) = "set" THEN Abs!Stored ELSE Abs!Found(NewValue(u))
    <3>3. Asked'[u] = Nothing /\ Answered'[u] = r
      <4>1. pc'[u] = "echo" /\ call'[u] = call[u]
        BY <3>1, Placed
      <4> QED
        BY <3>1, <4>1 DEF Asked, Answered, Over, Abs!Stored, Abs!Found, NewValue, Op
    <3>4. Abs!Answer(u, r)
      <4>1. \A w \in Users \ {u} : Steady(w) /\ answer'[w] = answer[w]
        BY <1>1, <3>1, OthersAnswers DEF OthersSame
      <4> QED
        BY <3>3, <4>1, AbsFrame DEF Abs!Answer
    <3>5. /\ Op(u) = "set" => NewValue(u) = call[u].id
          /\ Op(u) \in Computing => /\ NewValue(u) \in {0, call[u].id}
                                    /\ call[u].missed \/ Op(u) = "bypass"
      BY <2>1 DEF NewValue, HeldOK, HasValue, Computing
    <3>6. CASE Op(u) = "set"
      BY <1>1, <2>1, <3>1, <3>2, <3>4, <3>5, <3>6, AbsWrite
    <3>7. CASE Op(u) \in Computing
      <4>1. Abs!Answer(u, Abs!Found(NewValue(u)))
        BY <3>4, <3>7 DEF Computing
      <4> QED
        BY <1>1, <2>1, <3>1, <3>2, <3>5, <3>7, <4>1, AbsWrite
    <3> QED
      BY <2>1, <3>6, <3>7
  <2> QED
    BY <2>2, <2>3
<1>10. CASE MEcho(u)
  <2>1. /\ pc[u] = "echo" /\ store[Key(u)] # Nothing /\ Wrote(u) /\ store' = store
        /\ call[u] # Nothing
    BY <1>10, Before, NothingAssumption DEF MEcho, KeyError, StillSo
  <2> DEFINE r == IF Op(u) = "set" THEN Abs!Stored ELSE Abs!Found(held[u].value)
  <2>2. Answer(u, r)
    BY <2>1 DEF Wrote
  <2>3. Abs!Answer(u, r)
    BY <1>1, <2>2, AbsAnswer
  <2>4. Asked[u] = Nothing /\ Answered[u] = r
    BY <2>1 DEF Asked, Answered, Over, Op, Abs!Stored, Abs!Found
  <2>5. Asked = [Asked EXCEPT ![u] = Asked[u]] /\ Answered = [Answered EXCEPT ![u] = Answered[u]]
    BY DEF Asked, Answered
  <2> QED
    BY <1>1, <2>1, <2>3, <2>4, <2>5 DEF Stutters, Abs!Answer
<1>11. CASE MRetime(u)
  <2>1. /\ pc[u] = "set" /\ Op(u) = "update_timeout" /\ store[Key(u)] # Nothing /\ Wrote(u)
        /\ store[Key(u)] = held[u]
        /\ store' = [store EXCEPT ![Key(u)] = [store[Key(u)] EXCEPT !.until = now + call[u].timeout]]
    BY <1>11 DEF MRetime, KeyError, StillSo
  <2>2. [store[Key(u)] EXCEPT !.until = now + call[u].timeout]
          = [value |-> NewValue(u), until |-> now + call[u].timeout]
    <3>1. store[Key(u)] \in [value : Nat, until : Nat]
      BY <2>1, Before
    <3> QED
      BY <2>1, <3>1, SameEntry DEF NewValue
  <2>3. now + call[u].timeout \in Abs!Deadlines(call[u])
    BY <2>1, Before, NowInTime DEF At
  <2> QED
    BY <1>1, <2>1, <2>2, <2>3, AbsStored DEF Writing
<1> QED
  BY <1>3, <1>4, <1>5, <1>6, <1>7, <1>8, <1>9, <1>10, <1>11 DEF MemoryStep

LEMMA AsyncMemoryImplements ==
  ASSUME TypeOK, ControlInv, NEW u \in Users, AsyncMemoryStep(u)
  PROVE  Abs!Serve(u) \/ Stutters
<1>1. now' = now /\ now \in Nat /\ setup.kind = "async_memory" /\ OthersSame(u)
  BY Numbers, AsyncMemoryKeeps DEF AsyncMemoryStep, OthersSame
<1>2. CASE AGet(u)
  <2>1. pc[u] = "start" /\ ~call[u].missed /\ Op(u) \in Reading
    BY <1>2, Before, CallTypes, NotMissed DEF AGet, HasValue, Op, Abs!Ops, Reading, Computing
  <2>2. CASE Kept(Key(u)) = Nothing
    <3>1. store' = [store EXCEPT ![Key(u)] = Nothing] /\ Miss(u)
      BY <1>2, <2>2 DEF AGet
    <3>2. store[Key(u)] = Nothing \/ Abs!Due(store[Key(u)])
      <4>1. store[Key(u)] # Nothing => store[Key(u)].until \in Nat
        BY <2>1, Before
      <4> QED
        BY <1>1, <2>2, <4>1 DEF Kept, Expired, Abs!Due, Never, Abs!Never
    <3> QED
      BY <1>1, <2>1, <3>1, <3>2, AbsMiss
  <2>3. CASE Kept(Key(u)) # Nothing /\ Op(u) = "update_timeout"
    <3>1. /\ store[Key(u)] # Nothing /\ Answer(u, Abs!Found(store[Key(u)].value))
          /\ store' = [store EXCEPT ![Key(u)] = [store[Key(u)] EXCEPT !.until = now + call[u].timeout]]
      BY <1>2, <2>3 DEF AGet, Kept
    <3>2. now + call[u].timeout \in Abs!Deadlines(call[u])
      BY <2>1, <2>3, Before, NowInTime DEF At
    <3>3. [store[Key(u)] EXCEPT !.until = now + call[u].timeout]
            = [value |-> store[Key(u)].value, until |-> now + call[u].timeout]
      <4>1. store[Key(u)] \in [value : Nat, until : Nat]
        BY <2>1, <3>1, Before
      <4> QED
        BY <4>1, SameEntry
    <3>4. Abs!Answer(u, Abs!Found(store[Key(u)].value))
      BY <1>1, <3>1, AbsAnswer
    <3> QED
      BY <1>1, <2>1, <2>3, <3>1, <3>2, <3>3, <3>4, AbsWrite
  <2>4. CASE Kept(Key(u)) # Nothing /\ Op(u) # "update_timeout"
    <3>1. store[Key(u)] # Nothing /\ ~Expired(store[Key(u)]) /\ Kept(Key(u)) = store[Key(u)]
      BY <2>4 DEF Kept
    <3>2. Abs!Fresh(store[Key(u)])
      <4>1. store[Key(u)].until \in Nat
        BY <2>1, <3>1, Before
      <4> QED
        BY <1>1, <3>1, <4>1 DEF Expired, Abs!Fresh, Never, Abs!Never
    <3>3. Hit(u, store[Key(u)].value) /\ store' = store
      BY <1>2, <2>4, <3>1 DEF AGet
    <3> QED
      BY <1>1, <2>1, <3>2, <3>3, AbsHit
  <2> QED
    BY <2>2, <2>3, <2>4
<1>3. CASE ASet(u)
  <2>1. /\ pc[u] \in {"start", "set"} /\ (Op(u) = "set" \/ pc[u] # "start")
        /\ (pc[u] = "set" => Op(u) \in Computing) /\ Op(u) \in Writing
    BY <1>1, <1>3, Before DEF ASet, At, OpFits, Writing
  <2>2. CASE call[u].timeout = Unset
    BY <1>1, <1>3, <2>1, <2>2, AbsFail DEF ASet
  <2>3. CASE call[u].timeout # Unset
    <3>1. StillSo(u)
      BY <2>1 DEF StillSo, Computing
    <3>2. now + call[u].timeout \in Abs!Deadlines(call[u])
      BY <2>1, <2>3, NowInTime
    <3> QED
      BY <1>1, <1>3, <2>1, <2>3, <3>1, <3>2, AbsStored DEF ASet
  <2> QED
    BY <2>2, <2>3
<1>4. CASE ARemove(u)
  <2> DEFINE c == Asked[u]
             ks == {call[u].keys[i] : i \in DOMAIN call[u].keys}
             there == \A k \in ks : store[k] # Nothing
  <2>1. /\ pc[u] = "start" /\ c = call[u] /\ c # Nothing /\ c.op = "remove"
        /\ c.keys \in Seq(Keys) /\ Len(c.keys) \in Nat \ {0}
    BY <1>4, AbsCall, CallTypes DEF ARemove, Op
  <2>2. ks = {c.keys[i] : i \in 1..Len(c.keys)} /\ ks \subseteq Keys /\ Len(c.keys) \in 1..Len(c.keys)
    BY <2>1
  <2>3. store' = [k \in Keys |-> IF k \in ks THEN Nothing ELSE store[k]]
    BY <1>4 DEF ARemove
  <2>4. Abs!Answer(u, Abs!Removed(there))
    BY <1>1, <1>4, AbsAnswer DEF ARemove
  <2> DEFINE Goes(gone, t) ==
               /\ store' = [k \in Keys |-> IF k \in gone THEN store'[k] ELSE store[k]]
               /\ \A k \in gone :
                    \/ store'[k] = Nothing
                    \/ ~t /\ Abs!Due(store[k]) /\ store'[k] = store[k]
               /\ t => \A k \in gone : store[k] # Nothing
               /\ ~t => \E k \in gone : store[k] = Nothing \/ Abs!Due(store[k])
             Ends(n, t) ==
               IF n = Len(c.keys)
               THEN Abs!Answer(u, Abs!Removed(c.all /\ t))
               ELSE /\ Asked' = [Asked EXCEPT ![u].keys = SubSeq(c.keys, n + 1, Len(c.keys)),
                                              ![u].all = c.all /\ t]
                    /\ UNCHANGED Answered
  <2>5. Goes(ks, there)
    <3> HIDE DEF ks
    <3> QED
      BY <2>2, <2>3
  <2>6. c.all
    BY <2>1, Before DEF At
  <2>7. Ends(Len(c.keys), there)
    BY <2>4, <2>6
  <2> HIDE DEF Goes, Ends
  <2>8. there \in BOOLEAN
    OBVIOUS
  <2>9. \E n \in 1..Len(c.keys), t \in BOOLEAN : Goes({c.keys[i] : i \in 1..n}, t) /\ Ends(n, t)
    BY <2>2, <2>5, <2>7, <2>8
  <2>10. Abs!Remove(u)
    BY <1>1, <2>1, <2>9 DEF Abs!Remove, Goes, Ends
  <2> QED
    BY <2>1, <2>10 DEF Abs!Serve
<1> QED
  BY <1>2, <1>3, <1>4 DEF AsyncMemoryStep

LEMMA ServerImplements ==
  ASSUME TypeOK, ControlInv, NEW u \in Users, StillSo(u), ServerStep(u)
  PROVE  Abs!Serve(u) \/ Stutters
<1>1. now' = now /\ now \in Nat /\ setup.kind \in Servers /\ OthersSame(u)
  BY Numbers, ServerKeeps DEF ServerStep, OthersSame, Servers
<1>2. ASSUME NEW place, place # "echo", pc[u] # "echo", Goto(u, place), store' = store PROVE Stutters
  BY <1>1, <1>2, AbsGoto DEF Stutters
<1>3. CASE VStart(u)
  BY <1>2, <1>3 DEF VStart
<1>4. CASE VGet(u)
  <2>1. pc[u] = "find" /\ ~call[u].missed /\ store' = store /\ (Op(u) # "remove" => Op(u) \in Reading)
    BY <1>4, Before, CallTypes, NotMissed
    DEF VGet, HasValue, At, OpFits, Op, Abs!Ops, Reading, Computing
  <2>2. store[Key(u)] # Nothing => store[Key(u)].until \in Nat
    BY <2>1, Before
  <2>3. CASE ~Serves(Key(u))
    <3>1. store[Key(u)] = Nothing \/ Abs!Due(store[Key(u)])
      BY <1>1, <2>2, <2>3 DEF Serves, Abs!Due, Never, Abs!Never
    <3>2. CASE Op(u) = "remove"
      <4>1. NextKey(u, FALSE)
        BY <1>4, <2>3, <3>2 DEF VGet
      <4> QED
        BY <1>1, <2>1, <3>1, <3>2, <4>1, AbsNextKey
    <3>3. CASE Op(u) # "remove"
      <4>1. Miss(u)
        BY <1>4, <2>3, <3>3 DEF VGet
      <4> QED
        BY <1>1, <2>1, <3>1, <3>3, <4>1, AbsMiss
    <3> QED
      BY <3>2, <3>3
  <2>4. CASE Serves(Key(u))
    <3>1. Abs!Fresh(store[Key(u)])
      BY <1>1, <2>2, <2>4 DEF Serves, Abs!Fresh, Never, Abs!Never
    <3>2. CASE Op(u) = "remove"
      BY <1>2, <1>4, <2>1, <2>4, <3>2 DEF VGet
    <3>3. CASE Op(u) # "remove"
      <4>1. Hit(u, store[Key(u)].value)
        BY <1>4, <2>4, <3>3 DEF VGet
      <4> QED
        BY <1>1, <2>1, <3>1, <3>3, <4>1, AbsHit
    <3> QED
      BY <3>2, <3>3
  <2> QED
    BY <2>3, <2>4
<1>5. CASE VDelete(u)
  <2>1. pc[u] = "delete" /\ Op(u) = "remove" /\ store[Key(u)] # Nothing
    BY <1>1, <1>5, Before DEF VDelete, StillSo, At, OpFits
  <2> QED
    BY <1>1, <1>5, <2>1, AbsNextKey DEF VDelete
<1>6. CASE VSet(u)
  <2>1. pc[u] = "set" /\ Op(u) \in Writing
    BY <1>6, Before DEF VSet, At, OpFits
  <2>2. CASE Setting(call[u].timeout).refused
    <3>1. call[u].timeout \in {Unset, 0}
      BY <1>1, <2>2 DEF Setting, RedisSet, AsyncRedisSet, MemcachedSet, AsyncMemcachedSet, Servers
    <3> QED
      BY <1>1, <1>6, <2>1, <2>2, <3>1, AbsFail DEF VSet
  <2>3. CASE ~Setting(call[u].timeout).refused
    <3>1. Setting(call[u].timeout).until \in Abs!Deadlines(call[u])
      <4>1. call[u].timeout # Unset => now + call[u].timeout \in Abs!Deadlines(call[u])
        BY <2>1, NowInTime
      <4>2. call[u].timeout \in {Unset, 0} => Never \in Abs!Deadlines(call[u])
        BY DEF Abs!Deadlines, Abs!Unset, Unset, Abs!Never, Never
      <4> QED
        BY <1>1, <2>3, <4>1, <4>2
        DEF Setting, RedisSet, AsyncRedisSet, MemcachedSet, AsyncMemcachedSet, Servers
    <3> QED
      BY <1>1, <1>6, <2>1, <2>3, <3>1, AbsStored DEF VSet
  <2> QED
    BY <2>2, <2>3
<1> QED
  BY <1>3, <1>4, <1>5, <1>6 DEF ServerStep

LEMMA SqliteImplements ==
  ASSUME TypeOK, ControlInv, NEW u \in Users, StillSo(u), SqliteStep(u)
  PROVE  Abs!Serve(u) \/ Stutters \/ Abs!Forget
<1>1. now' = now /\ now \in Nat /\ setup.kind \in Sqlites /\ OthersSame(u)
  BY Numbers, SqliteKeeps DEF SqliteStep, OthersSame, Sqlites
<1>2. ASSUME NEW place, place # "echo", pc[u] # "echo", Goto(u, place), store' = store PROVE Stutters
  BY <1>1, <1>2, AbsGoto DEF Stutters
<1>3. CASE QStart(u) \/ QSet(u) \/ QExists(u)
  BY <1>2, <1>3 DEF QStart, QSet, QExists
<1>4. CASE QPurge(u)
  <2>1. PICK place \in {"exists", "find"} : Goto(u, place) /\ pc[u] = "purge"
    BY <1>4 DEF QPurge
  <2>2. UNCHANGED <<Asked, Answered>>
    BY <1>1, <2>1, AbsGoto
  <2>3. store' = [k \in Keys |-> store'[k]]
    BY <1>4 DEF QPurge
  <2>4. ASSUME NEW k \in Keys, store'[k] # store[k]
        PROVE  Abs!Due(store[k]) /\ store'[k] = Nothing
    <3>1. store[k] # Nothing /\ PurgedBy(store[k]) /\ store'[k] = Nothing
      BY <1>4, <2>4 DEF QPurge
    <3>2. store[k].until \in Nat
      BY <3>1, Numbers DEF TypeOK, Entry
    <3> QED
      BY <1>1, <3>1, <3>2 DEF PurgedBy, Abs!Due, Never, Abs!Never
  <2> QED
    BY <1>1, <2>2, <2>3, <2>4 DEF Abs!Forget
<1>5. CASE QFind(u)
  <2>1. pc[u] = "find" /\ ~call[u].missed /\ store' = store /\ (Op(u) # "remove" => Op(u) \in Reading)
    BY <1>5, Before, CallTypes, NotMissed
    DEF QFind, HasValue, At, OpFits, Op, Abs!Ops, Reading, Computing
  <2>2. CASE store[Key(u)] = Nothing /\ Op(u) = "remove"
    BY <1>1, <1>5, <2>1, <2>2, AbsNextKey DEF QFind
  <2>3. CASE store[Key(u)] = Nothing /\ Op(u) # "remove"
    BY <1>1, <1>5, <2>1, <2>3, AbsMiss DEF QFind
  <2>4. CASE store[Key(u)] # Nothing
    BY <1>2, <1>5, <2>1, <2>4 DEF QFind
  <2> QED
    BY <2>2, <2>3, <2>4
<1>6. CASE QJudge(u)
  <2>1. /\ pc[u] = "judge" /\ held[u] # Nothing /\ store[Key(u)] = held[u] /\ held[u].until \in Nat
        /\ store' = store /\ Op(u) \in Reading /\ ~call[u].missed
    BY <1>6, Before, NotMissed DEF QJudge, StillSo, HeldOK, At, OpFits, HasValue
  <2>2. CASE RowExpired(held[u])
    BY <1>2, <1>6, <2>1, <2>2 DEF QJudge
  <2>3. CASE ~RowExpired(held[u])
    <3>1. Abs!Fresh(store[Key(u)])
      BY <1>1, <2>1, <2>3 DEF RowExpired, Abs!Fresh, Never, Abs!Never
    <3>2. Hit(u, store[Key(u)].value)
      BY <1>6, <2>1, <2>3 DEF QJudge
    <3> QED
      BY <1>1, <2>1, <3>1, <3>2, AbsHit
  <2> QED
    BY <2>2, <2>3
<1>7. CASE QRecheck(u)
  BY <1>2, <1>7 DEF QRecheck, StillSo, Abs!Due
<1>8. CASE QDelete(u)
  <2>1. /\ pc[u] = "delete" /\ store[Key(u)] # Nothing /\ ~call[u].missed
        /\ Op(u) # "remove" => Op(u) \in Reading /\ Abs!Due(store[Key(u)])
    BY <1>8, Before, NotMissed DEF QDelete, StillSo, HasValue, At, OpFits, Reading
  <2>2. CASE Op(u) = "remove"
    BY <1>1, <1>8, <2>1, <2>2, AbsNextKey DEF QDelete
  <2>3. CASE Op(u) # "remove"
    BY <1>1, <1>8, <2>1, <2>3, AbsMiss DEF QDelete
  <2> QED
    BY <2>2, <2>3
<1>9. CASE QWrite(u)
  <2> DEFINE d == IF Sync THEN CalcExpires(call[u].timeout) ELSE plan[u].until
  <2>1. /\ pc[u] = "write" /\ Op(u) \in Writing /\ HeldOK(u) /\ At(u) /\ call[u] \in Calls
        /\ plan[u].exists <=> store[Key(u)] # Nothing
    BY <1>9, Before DEF QWrite, StillSo, At, OpFits
  <2>2. d \in Abs!Deadlines(call[u])
    <3>1. CalcExpires(call[u].timeout) \in Abs!Deadlines(call[u])
      <4>1. call[u].timeout # Unset => now + call[u].timeout \in Abs!Deadlines(call[u])
        BY <2>1, NowInTime
      <4>2. call[u].timeout \in {Unset, 0} => Never \in Abs!Deadlines(call[u])
        BY DEF Abs!Deadlines, Abs!Unset, Unset, Abs!Never, Never
      <4> QED
        BY <4>1, <4>2 DEF CalcExpires
    <3> QED
      BY <2>1, <3>1 DEF HeldOK
  <2>3. store' = [store EXCEPT ![Key(u)] = [value |-> NewValue(u), until |-> d]] /\ Wrote(u)
    <3>1. CASE plan[u].exists
      BY <1>9, <2>1, <3>1 DEF QWrite
    <3>2. CASE ~plan[u].exists
      BY <1>9, <2>1, <3>2 DEF QWrite
    <3> QED
      BY <3>1, <3>2
  <2> HIDE DEF d
  <2> QED
    BY <1>1, <2>1, <2>2, <2>3, AbsStored
<1> QED
  BY <1>3, <1>4, <1>5, <1>6, <1>7, <1>8, <1>9 DEF SqliteStep

LEMMA ComputeImplements ==
  ASSUME TypeOK, ControlInv, NEW u \in Users, Compute(u)
  PROVE  Abs!Serve(u) \/ Stutters
<1>1. pc[u] = "compute" /\ now' = now /\ store' = store /\ Op(u) \in Computing /\ OthersSame(u)
  BY Before, ComputeKeeps DEF Compute, At, OpFits, OthersSame
<1>2. CASE Raise(u)
  BY <1>1, <1>2, AbsFail
<1>3. CASE Goto(u, "set")
  BY <1>1, <1>3, AbsGoto DEF Stutters
<1> QED
  BY <1>2, <1>3 DEF Compute

LEMMA RefuseImplements ==
  ASSUME TypeOK, ControlInv, NEW u \in Users, Refuse(u)
  PROVE  Abs!Serve(u)
<1>1. pc[u] = "refuse" /\ now' = now /\ store' = store /\ call[u].timeout = Unset /\ OthersSame(u)
  BY Before, RefuseKeeps DEF Refuse, At, OthersSame
<1> QED
  BY <1>1, AbsFail DEF Refuse

LEMMA AskImplements ==
  ASSUME TypeOK, ControlInv, NEW u \in Users, AskSome(u)
  PROVE  Abs!Ask(u)
<1>1. PICK c : Asks(u, c)
  BY AskMakesCall
<1>2. \A w \in Users \ {u} : Steady(w) /\ answer'[w] = answer[w]
  BY <1>1, AskKeeps DEF Asks, ControlInv, CallsOK
<1>3. call[u] = Nothing /\ pc[u] = "idle"
  BY <1>1 DEF Asks, TypeOK
<1>4. Asked[u] = Nothing /\ Asked'[u] = c /\ Answered'[u] = Nothing
  <2>1. call'[u] = c /\ pc'[u] \in {"refuse", "start"} /\ answer'[u] = Nothing
    BY <1>1 DEF Asks, ControlInv, CallsOK
  <2> QED
    BY <1>3, <2>1 DEF Asked, Answered, Over
<1>5. c \in Abs!Request
  <2>1. c \in Calls /\ c.since \in {now} /\ c.missed \in {FALSE} /\ c.all \in {TRUE}
    <3>1. c \in Calls /\ c.since = now /\ ~c.missed /\ c.all
      BY <1>1 DEF Asks
    <3>2. c.missed \in BOOLEAN /\ c.all \in BOOLEAN
      BY <3>1 DEF Calls
    <3> QED
      BY <3>1, <3>2
  <2>2. Nat \cup {Unset} \subseteq Int
    BY DEF Unset
  <2> QED
    BY <2>1, <2>2 DEF Calls, Abs!Request
<1>6. Asked' = [Asked EXCEPT ![u] = Asked'[u]] /\ Answered' = [Answered EXCEPT ![u] = Nothing]
  BY <1>2, <1>4, AbsFrame
<1> QED
  BY <1>1, <1>4, <1>5, <1>6 DEF Abs!Ask, Asks

LEMMA AbsInit == Init => Abs!Init
<1> SUFFICES ASSUME Init PROVE Abs!Init
  OBVIOUS
<1>1. store \in [Keys -> [value : Nat, until : Nat] \cup {Nothing}]
  BY DEF Init
<1>2. Asked = [u \in Users |-> Nothing] /\ Answered = [u \in Users |-> Nothing]
  BY DEF Init, Asked, Answered, Over
<1> QED
  BY <1>1, <1>2 DEF Init, Abs!Init

LEMMA StepImplements ==
  ASSUME TypeOK, ControlInv, SoloInv, Atomic, [Next]_vars
  PROVE  [Abs!Next]_(Abs!vars)
<1>1. ASSUME NEW u \in Users, Serve(u) PROVE Abs!Serve(u) \/ Stutters \/ Abs!Forget
  <2>1. CASE Alone
    <3>1. StillSo(u)
      BY <2>1 DEF SoloInv
    <3> QED
      BY <1>1, <3>1, MemoryImplements, AsyncMemoryImplements, ServerImplements, SqliteImplements DEF Serve
  <2>2. CASE setup.kind = "async_memory"
    BY <1>1, <2>2, AsyncMemoryImplements DEF Serve, MemoryStep, SqliteStep, ServerStep
  <2> QED
    BY <2>1, <2>2 DEF Atomic, Alone
<1>2. Tick => Abs!Tick
  BY DEF Tick, Abs!Tick, Asked, Answered, Over
<1>3. UNCHANGED vars => Stutters
  BY DEF vars, Stutters, Asked, Answered, Over
<1>4. Stutters => UNCHANGED Abs!vars
  BY DEF Stutters, Abs!vars
<1> QED
  BY <1>1, <1>2, <1>3, <1>4, AskImplements, RefuseImplements, ComputeImplements DEF Next, Abs!Next

\* ImplementsExpiringCache: with one caller, and for the tasks of one loop on
\* AsyncMemoryCache, every adapter is an expiring map: each call takes effect at
\* once, and its only errors are a refused timeout and the function's own.
THEOREM ExpiringCacheImplemented == Spec => ImplementsExpiringCache
<1>1. IInv /\ [Next]_vars => IInv'
  BY TypeKeeps, ControlKeeps, SoloKeeps DEF IInv
<1>2. Init => IInv
  BY InitHolds DEF Init, IInv, SoloInv, StillSo
<1>3. IInv /\ [Next]_vars => [Atomic => Abs!Next]_(Abs!vars)
  BY StepImplements DEF IInv
<1> QED
  BY <1>1, <1>2, <1>3, AbsInit, PTL DEF Spec, ImplementsExpiringCache
=============================================================================
