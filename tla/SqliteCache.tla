---------------------------- MODULE SqliteCache ----------------------------
(***************************************************************************)
(* SqliteCache and AsyncSqliteCache: a table in a file that threads, tasks *)
(* and processes share.  Each SQL statement is one step; between two of    *)
(* them any other user's statements may run.                               *)
(***************************************************************************)
EXTENDS CacheCalls

Sync == setup.kind = "sqlite"

(* _cache_result_expired: a row without a deadline never expires. *)
RowExpiredDate(row) == row.until <= now
RowExpired(row) == row.until # Never /\ row.until <= now

(* The rows a purge deletes: <= in one manager, < in the other. *)
PurgedByDate(row) == row.until <= now
PurgedBy(row) ==
  row.until # Never /\ IF Sync THEN row.until <= now ELSE row.until < now

(* purge_due: the time of the last purge belongs to the class, whichever   *)
(* file it purged.                                                         *)
PurgeDue == purged = 0 \/ now - purged >= PurgeEvery

(* _calc_expires: None and 0 both mean no deadline. *)
CalcExpires(t) == IF t \in {Unset, 0} THEN Never ELSE now + t

(* get and set purge first, when a purge is due; remove and update_timeout *)
(* read the row as it is, expired or not.                                  *)
Purges(u) ==
  PurgeDue /\ Op(u) \notin {"remove", "update_timeout"}

QStart(u) ==
  /\ pc[u] = "start"
  /\ Goto(u, CASE Purges(u)                      -> "purge"
               [] ~Purges(u) /\ Op(u) = "set"    -> "exists"
               [] ~Purges(u) /\ Op(u) # "set"    -> "find")
  /\ UNCHANGED <<store, purged, held, plan>>

(* get_or_set and a memoised call come to purge again when they set. *)
QPurgeNext(u) ==
  /\ pc[u] = "purge"
  /\ purged' = now + PurgeEvery
  /\ Goto(u, IF Op(u) = "set" \/ held[u] # Nothing THEN "exists" ELSE "find")
  /\ UNCHANGED <<store, held, plan>>
QPurge(u) ==
  /\ pc[u] = "purge"
  /\ store' = [k \in Keys |-> IF store[k] # Nothing /\ PurgedBy(store[k]) THEN Nothing ELSE store[k]]
  /\ purged' = now
  /\ Goto(u, IF Op(u) = "set" \/ held[u] # Nothing THEN "exists" ELSE "find")
  /\ UNCHANGED <<held, plan>>

(* SELECT: the row of the key, or none. *)
QFind(u) ==
  /\ pc[u] = "find"
  /\ LET row == store[Key(u)]
     IN  CASE row = Nothing /\ Op(u) = "remove" -> NextKey(u, FALSE) /\ UNCHANGED held
           [] row = Nothing /\ Op(u) # "remove" -> Miss(u) /\ UNCHANGED held
           [] row # Nothing /\ Op(u) = "remove" -> Goto(u, "delete") /\ UNCHANGED held
           [] row # Nothing /\ Op(u) = "update_timeout" ->
                Goto(u, "exists") /\ held' = [held EXCEPT ![u] = row]
           [] OTHER -> Goto(u, "judge") /\ held' = [held EXCEPT ![u] = row]
  /\ UNCHANGED <<store, purged, plan>>

(* The deadline of the row it has read against the time: a row that has    *)
(* expired is removed, by a call of remove that looks for the row again.   *)
QJudge(u) ==
  /\ pc[u] = "judge"
  /\ IF RowExpired(held[u])
     THEN Goto(u, "recheck") /\ UNCHANGED held
     ELSE /\ Hit(u, held[u].value)
          /\ held' = [held EXCEPT ![u] = Nothing]
  /\ UNCHANGED <<store, purged, plan>>

QRecheck(u) ==
  /\ pc[u] = "recheck"
  /\ IF store[Key(u)] = Nothing
     THEN Miss(u) /\ Forgets(u)
     ELSE Goto(u, "delete") /\ UNCHANGED <<held, plan>>
  /\ UNCHANGED <<store, purged>>

(* DELETE, whatever the row holds by now, or nothing: remove counts it. *)
QDelete(u) ==
  /\ pc[u] = "delete"
  /\ store' = [store EXCEPT ![Key(u)] = Nothing]
  /\ IF Op(u) = "remove" THEN NextKey(u, TRUE) ELSE Miss(u)
  /\ Forgets(u)
  /\ UNCHANGED purged

(* The set of get_or_set and of a memoised call purges too. *)
QSet(u) ==
  /\ pc[u] = "set"
  /\ Goto(u, IF Purges(u) THEN "purge" ELSE "exists")
  /\ UNCHANGED <<store, purged, held, plan>>

(* SELECT: whether to UPDATE or to INSERT.  AsyncSqliteCacheManager works  *)
(* out the deadline before it looks.                                       *)
QExists(u) ==
  /\ pc[u] = "exists"
  /\ plan' = [plan EXCEPT ![u] = [exists |-> store[Key(u)] # Nothing,
                                  until |-> IF Sync THEN Never ELSE CalcExpires(call[u].timeout)]]
  /\ Goto(u, "write")
  /\ UNCHANGED <<store, purged, held>>

(* UPDATE changes the row if there still is one, INSERT fails if there is  *)
(* one by now (IntegrityError).                                            *)
QWrite(u) ==
  LET k == Key(u)
      row == [value |-> NewValue(u),
              until |-> IF Sync THEN CalcExpires(call[u].timeout) ELSE plan[u].until]
  IN  /\ pc[u] = "write"
      /\ IF ~plan[u].exists /\ store[k] # Nothing
         THEN Raise(u) /\ UNCHANGED store
         ELSE /\ store' = [store EXCEPT ![k] = IF plan[u].exists /\ @ = Nothing THEN @ ELSE row]
              /\ Wrote(u)
              /\ Forgets(u)
      /\ UNCHANGED purged

SqliteStep(u) ==
  /\ setup.kind \in {"sqlite", "async_sqlite"}
  /\ \/ QStart(u) \/ QPurge(u) \/ QFind(u) \/ QJudge(u) \/ QRecheck(u) \/ QDelete(u)
     \/ QSet(u) \/ QExists(u) \/ QWrite(u)
  /\ UNCHANGED <<setup, now, asks>>

=============================================================================
