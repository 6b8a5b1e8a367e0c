--------------------------- MODULE ExpiringCache ---------------------------
(***************************************************************************)
(* What CacheAdapter promises to one caller at a time: a map from keys to  *)
(* values that expire.  A call (get, set, ...) is asked, takes effect in   *)
(* one step and is answered by that step; remove takes one step a key.     *)
(*                                                                         *)
(* At the very instant an entry is due either answer is allowed (the       *)
(* adapters disagree on < and <=), and an entry that is due may be         *)
(* forgotten at any moment or be revived by update_timeout: some adapters  *)
(* delete what has expired, others keep it until it is purged.             *)
(***************************************************************************)
EXTENDS Integers, Sequences

CONSTANTS
  Users,      \* the callers
  Keys,       \* the cache keys
  Nothing     \* an absent entry, an idle caller, no answer

VARIABLES
  clock,      \* seconds
  entries,    \* the entry of each key: [value, until] or Nothing
  asked,      \* the call each user is in, or Nothing
  answered    \* the answer to each user's last call, or Nothing

vars == <<clock, entries, asked, answered>>

Never == 0          \* the deadline of an entry that does not expire
Unset == -1         \* the timeout None

NotFound == [result |-> "not found"]
Stored == [result |-> "stored"]
Raised == [result |-> "raised"]
Found(v) == [result |-> "value", value |-> v]
Removed(all) == [result |-> IF all THEN "removed" ELSE "missing"]

Due(e) == e # Nothing /\ e.until # Never /\ clock >= e.until
Fresh(e) == e # Nothing /\ (e.until = Never \/ clock <= e.until)

(* What a call may make of its timeout: None means for ever, and so does   *)
(* 0 for the adapters whose back end takes it so; the deadline counts from *)
(* some moment of the call.                                                *)
Deadlines(c) ==
  CASE c.timeout = Unset -> {Never}
    [] c.timeout = 0     -> {Never} \cup c.since..clock
    [] OTHER             -> (c.since + c.timeout)..(clock + c.timeout)

Ops == {"get", "set", "get_or_set", "memo", "bypass", "remove", "update_timeout"}

(* A call as it is asked.  id tells calls, and the values they store,      *)
(* apart; missed and all are what the call has found out so far.           *)
Request ==
  [op : Ops, keys : Seq(Keys) \ {<<>>}, timeout : Int, id : Nat \ {0}, since : {clock},
   missed : {FALSE}, all : {TRUE}]

Answer(u, r) ==
  /\ asked' = [asked EXCEPT ![u] = Nothing]
  /\ answered' = [answered EXCEPT ![u] = r]

(* The store may hold what earlier callers have left. *)
Init ==
  /\ clock = 1
  /\ entries \in [Keys -> [value : Nat, until : Nat] \cup {Nothing}]
  /\ asked = [u \in Users |-> Nothing]
  /\ answered = [u \in Users |-> Nothing]

Ask(u) ==
  /\ asked[u] = Nothing
  /\ asked'[u] \in Request
  /\ asked' = [asked EXCEPT ![u] = asked'[u]]
  /\ answered' = [answered EXCEPT ![u] = Nothing]
  /\ UNCHANGED <<clock, entries>>

Tick ==
  /\ clock' = clock + 1
  /\ UNCHANGED <<entries, asked, answered>>

(* Some of the entries that are due are forgotten. *)
Forget ==
  /\ entries' = [k \in Keys |-> entries'[k]]
  /\ \A k \in Keys :
       entries'[k] # entries[k] => Due(entries[k]) /\ entries'[k] = Nothing
  /\ UNCHANGED <<clock, asked, answered>>

EntryOf(u) == entries[asked[u].keys[1]]

(* A read of the call's key finds an entry only while it is fresh. *)
Hit(u) ==
  /\ Fresh(EntryOf(u))
  /\ Answer(u, Found(EntryOf(u).value))
  /\ UNCHANGED <<clock, entries>>

(* It misses only what is absent or due; the entry that is due is left or  *)
(* forgotten.                                                              *)
Misses(u) ==
  /\ EntryOf(u) = Nothing \/ Due(EntryOf(u))
  /\ entries' \in {entries, [entries EXCEPT ![asked[u].keys[1]] = Nothing]}
  /\ UNCHANGED clock

Get(u) ==
  /\ asked[u].op = "get"
  /\ Hit(u) \/ (Misses(u) /\ Answer(u, NotFound))

Write(u, v, r) ==
  /\ \E d \in Deadlines(asked[u]) :
       entries' = [entries EXCEPT ![asked[u].keys[1]] = [value |-> v, until |-> d]]
  /\ Answer(u, r)
  /\ UNCHANGED clock

Set(u) ==
  /\ asked[u].op = "set"
  /\ Write(u, asked[u].id, Stored)

(* get_or_set and the memoised function answer a hit; otherwise they miss, *)
(* compute a value, store it and answer it.  For the memoised function an  *)
(* entry whose value counts as empty is no hit.                            *)
GetOrSet(u) ==
  LET c == asked[u]
      empty == EntryOf(u) # Nothing /\ EntryOf(u).value = 0
  IN  /\ c.op \in {"get_or_set", "memo", "bypass"}
      /\ \/ /\ c.op = "get_or_set" \/ (c.op = "memo" /\ ~empty)
            /\ Hit(u)
         \/ /\ ~c.missed
            /\ Misses(u) \/ (c.op = "memo" /\ empty /\ UNCHANGED <<clock, entries>>)
            /\ asked' = [asked EXCEPT ![u].missed = TRUE]
            /\ UNCHANGED answered
         \/ /\ c.missed \/ c.op = "bypass"
            /\ \E v \in {0, c.id} : Write(u, v, Found(v))

(* The first keys of remove: they go (one that is due and counted missing  *)
(* may stay), and the answer says whether all the keys were there.         *)
Remove(u) ==
  LET c == asked[u]
  IN  /\ c.op = "remove"
      /\ \E n \in 1..Len(c.keys), there \in BOOLEAN :
           LET gone == {c.keys[i] : i \in 1..n}
           IN  /\ entries' = [k \in Keys |-> IF k \in gone THEN entries'[k] ELSE entries[k]]
               /\ \A k \in gone :
                    \/ entries'[k] = Nothing
                    \/ ~there /\ Due(entries[k]) /\ entries'[k] = entries[k]
               /\ there => \A k \in gone : entries[k] # Nothing
               /\ ~there => \E k \in gone : entries[k] = Nothing \/ Due(entries[k])
               /\ IF n = Len(c.keys)
                  THEN Answer(u, Removed(c.all /\ there))
                  ELSE /\ asked' = [asked EXCEPT ![u].keys = SubSeq(c.keys, n + 1, Len(c.keys)),
                                                 ![u].all = c.all /\ there]
                       /\ UNCHANGED answered
      /\ UNCHANGED clock

(* The entry gets a new deadline, even one that has expired, unless it was *)
(* forgotten.                                                              *)
UpdateTimeout(u) ==
  /\ asked[u].op = "update_timeout"
  /\ \/ Misses(u) /\ Answer(u, NotFound)
     \/ EntryOf(u) # Nothing /\ Write(u, EntryOf(u).value, Found(EntryOf(u).value))

(* A timeout the adapter refuses, or a function that raises: an error, and *)
(* nothing is stored.                                                      *)
Fail(u) ==
  /\ \/ asked[u].timeout \in {Unset, 0}
     \/ asked[u].op \in {"get_or_set", "memo", "bypass"}
  /\ Answer(u, Raised)
  /\ UNCHANGED <<clock, entries>>

Serve(u) ==
  /\ asked[u] # Nothing
  /\ \/ Get(u) \/ Set(u) \/ GetOrSet(u)
     \/ Remove(u) \/ UpdateTimeout(u) \/ Fail(u)

Next ==
  \/ Tick
  \/ Forget
  \/ \E u \in Users : Ask(u) \/ Serve(u)

Spec == Init /\ [][Next]_vars

=============================================================================
