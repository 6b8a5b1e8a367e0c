------------------------ MODULE EventMultiWait_proofs ------------------------
(***************************************************************************)
(* For any number of threads and events, any list of events passed to      *)
(* event_multi_wait, and any choice of wait_on, notify_set, notify_clear   *)
(* and inversion: the types, that a wait returns only for what happened,   *)
(* that no wake-up is lost, and that a call decides from one scan.         *)
(***************************************************************************)
EXTENDS EventMultiWait, TLAPS

\* A thread that waits is in the list of its event and, until its flag has been in the
\* state waited for, the flag is in the other one: that is how the wait began.
WaiterInv(t) ==
    /\ pc[t] = "idle" => ~seen[t]
    /\ \A e \in Events : t \in waiters[e] => on[t] = e /\ pc[t] \in {"waiting", "expired"}
    /\ pc[t] = "waiting" => t \in waiters[on[t]]
    /\ pc[t] = "waiting" /\ ~seen[t] /\ want[t] = "set" => ~flag[on[t]]
    /\ pc[t] = "waiting" /\ ~seen[t] /\ want[t] = "clear" => flag[on[t]]
    /\ pc[t] = "woken" => seen[t]

\* The events that notify when their flag becomes b.
Notifying(b) == IF b THEN NotifySet ELSE NotifyClear

\* What a wait relies on the notifications for.
LostInv(t) ==
    pc[t] = "waiting" /\ seen[t] =>
        \/ want[t] # "set" /\ on[t] \notin NotifyClear
        \/ want[t] # "clear" /\ on[t] \notin NotifySet

EventInv == EventTypeOK /\ \A t \in Threads : WaiterInv(t) /\ LostInv(t)

-----------------------------------------------------------------------------
(* One event *)

\* The flag of e becomes b: the waiters in e's list are woken when e notifies of it.
LEMMA FlagKeeps ==
    ASSUME NEW e \in Events, NEW b \in BOOLEAN,
           EventInv, flag[e] # b,
           flag' = [flag EXCEPT ![e] = b], seen' = Saw(e, b),
           NotifyAll(e, e \in Notifying(b)),
           UNCHANGED <<on, want, patient, signal>>
    PROVE  EventInv'
<1> USE DEF EventInv, EventTypeOK
<1>1. ASSUME NEW t \in Threads
      PROVE  /\ pc'[t] = IF e \in Notifying(b) /\ t \in waiters[e] /\ pc[t] = "waiting"
                           THEN "woken" ELSE pc[t]
             /\ seen'[t] = (seen[t] \/ (on[t] = e /\ want[t] \in {"both", IF b THEN "set" ELSE "clear"}))
  BY DEF NotifyAll, Notified, Saw
<1>2. /\ pc' \in [Threads -> {"idle", "waiting", "woken", "expired"}]
      /\ waiters' = IF e \in Notifying(b) THEN [waiters EXCEPT ![e] = {}] ELSE waiters
  BY DEF NotifyAll, Notified
<1>3. seen' \in [Threads -> BOOLEAN]
  BY DEF Saw
<1>4. EventTypeOK'
  <2>1. waiters' \in [Events -> SUBSET Threads] /\ flag' \in [Events -> BOOLEAN]
    BY <1>2
  <2>2. \A t \in Threads : pc'[t] # "idle" <=> on'[t] # None
    BY <1>1
  <2> QED
    BY <1>2, <1>3, <2>1, <2>2
<1>5. ASSUME NEW t \in Threads PROVE WaiterInv(t)' /\ LostInv(t)'
  <2>1. WaiterInv(t) /\ LostInv(t)
    OBVIOUS
  <2>2. CASE on[t] = e
    <3>1. CASE pc[t] = "waiting"
      <4>1. t \in waiters[e]
        BY <2>1, <2>2, <3>1 DEF WaiterInv
      <4>2. CASE e \in Notifying(b)
        <5>1. pc'[t] = "woken"
          BY <1>1, <3>1, <4>1, <4>2
        <5>2. seen'[t]
          BY <1>1, <2>1, <2>2, <3>1 DEF WaiterInv
        <5>3. \A d \in Events : t \notin waiters'[d]
          BY <1>2, <2>1, <2>2, <4>2 DEF WaiterInv
        <5> QED
          BY <5>1, <5>2, <5>3 DEF WaiterInv, LostInv
      <4>3. CASE e \notin Notifying(b)
        <5>1. pc'[t] = "waiting" /\ waiters' = waiters
          BY <1>1, <1>2, <3>1, <4>3
        <5>2. flag'[e] = b
          OBVIOUS
        <5>3. WaiterInv(t)'
          BY <1>1, <2>1, <2>2, <3>1, <4>1, <5>1, <5>2 DEF WaiterInv
        <5>4. LostInv(t)'
          BY <1>1, <2>1, <2>2, <3>1, <4>3, <5>1 DEF LostInv, WaiterInv, Notifying
        <5> QED
          BY <5>3, <5>4
      <4> QED
        BY <4>2, <4>3
    <3>2. CASE pc[t] # "waiting"
      <4>1. pc'[t] = pc[t] /\ pc[t] # "idle"
        BY <1>1, <2>2, <3>2, BetterEventAssumption
      <4>2. \A d \in Events : waiters'[d] \subseteq waiters[d]
        BY <1>2
      <4>3. seen[t] => seen'[t]
        BY <1>1
      <4> QED
        BY <2>1, <3>2, <4>1, <4>2, <4>3 DEF WaiterInv, LostInv
    <3> QED
      BY <3>1, <3>2
  <2>3. CASE on[t] # e
    <3>1. t \notin waiters[e]
      BY <2>1, <2>3 DEF WaiterInv
    <3>2. pc'[t] = pc[t]
      BY <1>1, <3>1
    <3>3. seen'[t] = seen[t]
      BY <1>1, <2>3
    <3>4. \A d \in Events : d # e => flag'[d] = flag[d] /\ waiters'[d] = waiters[d]
      BY <1>2
    <3>5. on[t] # None => on[t] \in Events /\ on[t] # e
      BY <2>3
    <3>6. t \notin waiters'[e]
      BY <1>2, <3>1
    <3> QED
      BY <2>1, <3>2, <3>3, <3>4, <3>5, <3>6 DEF WaiterInv, LostInv
  <2> QED
    BY <2>2, <2>3
<1> QED
  BY <1>4, <1>5

LEMMA FlipKeeps ==
    ASSUME NEW e \in Events, EventInv, Set(e) \/ Clear(e)
    PROVE  EventInv'
<1>1. CASE Set(e)
  <2>1. flag[e] # TRUE /\ NotifyAll(e, e \in Notifying(TRUE))
    BY <1>1 DEF Set, Notifying
  <2> QED
    BY <1>1, <2>1, FlagKeeps DEF Set
<1>2. CASE Clear(e)
  <2>1. flag[e] # FALSE /\ NotifyAll(e, e \in Notifying(FALSE))
    BY <1>2 DEF Clear, Notifying
  <2> QED
    BY <1>2, <2>1, FlagKeeps DEF Clear
<1> QED
  BY <1>1, <1>2

\* A wait concerns nobody but the thread that waits.
LEMMA OtherWaits ==
    ASSUME NEW t \in Threads, NEW u \in Threads, u # t, EventInv,
           WaiterInv(u), LostInv(u),
           UNCHANGED <<flag, pc[u], on[u], want[u], seen[u]>>,
           \A d \in Events : u \in waiters'[d] <=> u \in waiters[d]
    PROVE  WaiterInv(u)' /\ LostInv(u)'
<1>1. pc[u] # "idle" => on[u] \in Events
  BY DEF EventInv, EventTypeOK
<1> QED
  BY <1>1 DEF WaiterInv, LostInv

LEMMA WaitKeeps ==
    ASSUME NEW t \in Threads, NEW e \in Events, NEW w \in {"set", "clear", "both"},
           NEW forever \in BOOLEAN, EventInv, Wait(t, e, w, forever)
    PROVE  EventInv'
<1> USE DEF EventInv, EventTypeOK
<1>1. CASE (w = "set" /\ flag[e]) \/ (w = "clear" /\ ~flag[e])
  <2>1. Return(t, TRUE) /\ UNCHANGED <<flag, waiters>> /\ pc[t] = "idle"
    BY <1>1 DEF Wait
  <2>2. EventTypeOK'
    BY <2>1 DEF Return
  <2>3. WaiterInv(t)' /\ LostInv(t)'
    BY <2>1 DEF Return, WaiterInv, LostInv
  <2>4. ASSUME NEW u \in Threads, u # t PROVE WaiterInv(u)' /\ LostInv(u)'
    BY <2>1, <2>4, OtherWaits DEF Return
  <2> QED
    BY <2>2, <2>3, <2>4
<1>2. CASE ~((w = "set" /\ flag[e]) \/ (w = "clear" /\ ~flag[e]))
  <2>1. /\ pc[t] = "idle" /\ on[t] = None /\ ~seen[t]
        /\ waiters' = [waiters EXCEPT ![e] = @ \cup {t}]
        /\ pc' = [pc EXCEPT ![t] = "waiting"]
        /\ on' = [on EXCEPT ![t] = e] /\ want' = [want EXCEPT ![t] = w]
        /\ patient' = [patient EXCEPT ![t] = forever]
        /\ UNCHANGED <<flag, signal, seen>>
    BY <1>2 DEF Wait, WaiterInv
  <2>2. EventTypeOK'
    BY <2>1, BetterEventAssumption
  <2>3. WaiterInv(t)' /\ LostInv(t)'
    BY <1>2, <2>1, BetterEventAssumption DEF WaiterInv, LostInv
  <2>4. ASSUME NEW u \in Threads, u # t PROVE WaiterInv(u)' /\ LostInv(u)'
    <3>1. \A d \in Events : u \in waiters'[d] <=> u \in waiters[d]
      BY <2>1, <2>4
    <3>2. UNCHANGED <<flag, pc[u], on[u], want[u], seen[u]>>
      BY <2>1, <2>4
    <3> QED
      BY <2>4, <3>1, <3>2, OtherWaits
  <2> QED
    BY <2>2, <2>3, <2>4
<1> QED
  BY <1>1, <1>2

LEMMA WaitStepKeeps ==
    ASSUME NEW t \in Threads, EventInv, WaitStep(t)
    PROVE  EventInv'
<1> USE DEF EventInv, EventTypeOK
<1>1. CASE Resume(t)
  <2>1. EventTypeOK'
    BY <1>1 DEF Resume, Return
  <2>2. WaiterInv(t)' /\ LostInv(t)'
    BY <1>1 DEF Resume, Return, WaiterInv, LostInv
  <2>3. ASSUME NEW u \in Threads, u # t PROVE WaiterInv(u)' /\ LostInv(u)'
    BY <1>1, <2>3, OtherWaits DEF Resume, Return
  <2> QED
    BY <2>1, <2>2, <2>3
<1>2. CASE Expire(t)
  <2>1. EventTypeOK'
    BY <1>2 DEF Expire
  <2>2. WaiterInv(t)' /\ LostInv(t)'
    BY <1>2 DEF Expire, WaiterInv, LostInv
  <2>3. ASSUME NEW u \in Threads, u # t PROVE WaiterInv(u)' /\ LostInv(u)'
    BY <1>2, <2>3, OtherWaits DEF Expire
  <2> QED
    BY <2>1, <2>2, <2>3
<1>3. CASE GiveUp(t)
  <2>1. /\ pc[t] = "expired" /\ on[t] \in Events
        /\ waiters' = [waiters EXCEPT ![on[t]] = @ \ {t}]
        /\ Return(t, FALSE) /\ UNCHANGED flag
    BY <1>3 DEF GiveUp
  <2>2. EventTypeOK'
    BY <2>1 DEF Return
  <2>3. \A d \in Events : t \notin waiters'[d]
    BY <2>1 DEF WaiterInv
  <2>4. WaiterInv(t)' /\ LostInv(t)'
    BY <2>1, <2>3 DEF Return, WaiterInv, LostInv
  <2>5. ASSUME NEW u \in Threads, u # t PROVE WaiterInv(u)' /\ LostInv(u)'
    <3>1. \A d \in Events : u \in waiters'[d] <=> u \in waiters[d]
      BY <2>1, <2>5
    <3>2. UNCHANGED <<flag, pc[u], on[u], want[u], seen[u]>>
      BY <2>1, <2>5 DEF Return
    <3> QED
      BY <2>5, <3>1, <3>2, OtherWaits
  <2> QED
    BY <2>2, <2>4, <2>5
<1> QED
  BY <1>1, <1>2, <1>3 DEF WaitStep

-----------------------------------------------------------------------------
(* event_multi_wait *)

\* While a call scans the events or makes its list, the history variable holds every event
\* that is signalled now, and every one that was found; the list is empty before.
MultiInv(t) ==
    /\ mpc[t] \in {"scan", "collect"} =>
          HitNow \subseteq ever[t] /\ hits[t] \cup result[t] \subseteq ever[t]
    /\ mpc[t] \in {"scan", "wait", "waited"} => result[t] = {}
    /\ mpc[t] = "collect" => Met(t, hits[t])
    /\ outcome[t] = "met" =>
          mpc[t] = "out" /\ hits[t] \cup result[t] \subseteq ever[t] /\ Met(t, hits[t])

IInv == TypeOK /\ EventInv /\ \A t \in Callers : MultiInv(t)

LEMMA InitInv == Init => IInv
<1> SUFFICES ASSUME Init PROVE IInv
  OBVIOUS
<1> USE BetterEventAssumption, EventMultiWaitAssumption DEF Init, EventInit, MultiInit
<1>1. EventTypeOK
  BY DEF EventTypeOK
<1>2. TypeOK
  <2>1. 1 \in 1..Len(Order)
    OBVIOUS
  <2> QED
    BY <1>1, <2>1 DEF TypeOK
<1>3. \A t \in Threads : WaiterInv(t) /\ LostInv(t)
  BY DEF WaiterInv, LostInv
<1>4. \A t \in Callers : MultiInv(t)
  BY DEF MultiInv
<1> QED
  BY <1>1, <1>2, <1>3, <1>4 DEF IInv, EventInv

\* What stands at a caller's index is an event of the list, and there is one more behind
\* every event but the last.
LEMMA Indices ==
    ASSUME TypeOK, NEW t \in Callers
    PROVE  /\ At(t) \in Listed /\ At(t) \in Events /\ t \in Threads
           /\ 1 \in 1..Len(Order)
           /\ ~Last(t) => index[t] + 1 \in 1..Len(Order)
BY EventMultiWaitAssumption DEF TypeOK, At, Listed, Last

\* A step of one caller that leaves the events alone keeps the invariant if it keeps it
\* of this caller.
LEMMA CallerKeeps ==
    ASSUME IInv, NEW t \in Callers, UNCHANGED evars, MultiInv(t)', TypeOK',
           \A u \in Callers \ {t} :
              UNCHANGED <<mpc[u], trigger[u], hits[u], result[u], outcome[u], ever[u]>>
    PROVE  IInv'
<1>1. EventInv'
  BY DEF IInv, EventInv, EventTypeOK, WaiterInv, LostInv, evars
<1>2. HitNow' = HitNow
  BY DEF HitNow, Hit, evars
<1>3. ASSUME NEW u \in Callers, u # t PROVE MultiInv(u)'
  <2>1. UNCHANGED <<mpc[u], trigger[u], hits[u], result[u], outcome[u], ever[u]>>
    BY <1>3
  <2>2. MultiInv(u)
    BY DEF IInv
  <2> QED
    BY <1>2, <2>1, <2>2 DEF MultiInv, Met
<1> QED
  BY <1>1, <1>3 DEF IInv

LEMMA CallKeeps ==
    ASSUME IInv, NEW t \in Callers, NEW trig \in {"and", "or"}, NEW lim \in BOOLEAN,
           Call(t, trig, lim)
    PROVE  IInv'
<1> USE DEF Call, Enter
<1>1. HitNow \subseteq Listed
  BY DEF HitNow
<1>2. TypeOK'
  BY <1>1, Indices DEF IInv, TypeOK, EventTypeOK, evars
<1>3. MultiInv(t)'
  BY DEF IInv, TypeOK, MultiInv, HitNow, Hit, evars
<1>4. \A u \in Callers \ {t} :
         UNCHANGED <<mpc[u], trigger[u], hits[u], result[u], outcome[u], ever[u]>>
  BY DEF IInv, TypeOK
<1> QED
  BY <1>2, <1>3, <1>4, CallerKeeps

LEMMA ScanKeeps ==
    ASSUME IInv, NEW t \in Callers, Scan(t)
    PROVE  IInv'
<1> DEFINE hs == IF Hit(At(t)) THEN hits[t] \cup {At(t)} ELSE hits[t]
<1> USE Indices DEF IInv, TypeOK
<1>1. hs \subseteq Listed /\ mpc[t] = "scan" /\ hits' = [hits EXCEPT ![t] = hs]
      /\ UNCHANGED <<evars, trigger, limited, result, ever>>
  BY DEF Scan
<1>2. /\ mpc' \in [Callers -> {"out", "scan", "wait", "waited", "collect"}]
      /\ index' \in [Callers -> 1..Len(Order)]
      /\ outcome' \in [Callers -> {"none", "met", "timeout"}]
  BY DEF Scan, Enter, Finish
<1>3. TypeOK'
  <2>1. hits' \in [Callers -> SUBSET Listed] /\ EventTypeOK'
    BY <1>1 DEF EventTypeOK, evars
  <2>2. \A u \in Callers : pc'[u] # "idle" => mpc'[u] = "waited"
    BY <1>1 DEF Scan, Enter, Finish, evars
  <2> QED
    BY <1>1, <1>2, <2>1, <2>2 DEF evars
<1>4. MultiInv(t)'
  <2>1. hs \subseteq ever[t] /\ HitNow \subseteq ever[t] /\ result[t] = {} /\ outcome[t] # "met"
    <3>1. Hit(At(t)) => At(t) \in HitNow
      BY DEF HitNow
    <3> QED
      BY <1>1, <3>1 DEF MultiInv
  <2>2. hits'[t] = hs /\ HitNow' = HitNow /\ ever'[t] = ever[t] /\ result'[t] = {}
        /\ trigger'[t] = trigger[t]
    BY <1>1, <2>1 DEF HitNow, Hit, evars
  <2>3. Met(t, hits[t])' <=> Met(t, hs)
    BY <2>2 DEF Met
  <2>4. CASE ~Last(t)
    BY <1>1, <2>1, <2>2, <2>4 DEF Scan, MultiInv
  <2>5. CASE Last(t) /\ Met(t, hs) /\ trigger[t] = "and"
    <3>1. Finish(t, "met")
      BY <2>5 DEF Scan
    <3> QED
      BY <2>1, <2>2, <2>3, <2>5, <3>1 DEF Finish, Enter, MultiInv
  <2>6. CASE Last(t) /\ Met(t, hs) /\ trigger[t] # "and"
    <3>1. Enter(t, "collect") /\ UNCHANGED outcome
      BY <2>6 DEF Scan
    <3> QED
      BY <2>1, <2>2, <2>3, <2>6, <3>1 DEF Enter, MultiInv
  <2>7. CASE Last(t) /\ ~Met(t, hs)
    <3>1. (Enter(t, "wait") /\ UNCHANGED outcome) \/ Finish(t, "timeout")
      BY <2>7 DEF Scan
    <3> QED
      BY <2>1, <2>2, <2>7, <3>1 DEF Finish, Enter, MultiInv
  <2> QED
    BY <2>4, <2>5, <2>6, <2>7
<1>5. \A u \in Callers \ {t} :
         UNCHANGED <<mpc[u], trigger[u], hits[u], result[u], outcome[u], ever[u]>>
  BY <1>1 DEF Scan, Enter, Finish
<1> QED
  BY <1>1, <1>3, <1>4, <1>5, CallerKeeps

LEMMA CollectKeeps ==
    ASSUME IInv, NEW t \in Callers, Collect(t)
    PROVE  IInv'
<1> DEFINE list == IF Hit(At(t)) THEN result[t] \cup {At(t)} ELSE result[t]
<1> USE Indices DEF IInv, TypeOK
<1>1. /\ list \subseteq Listed /\ mpc[t] = "collect" /\ result' = [result EXCEPT ![t] = list]
      /\ UNCHANGED <<evars, trigger, limited, hits, ever>>
      /\ Finish(t, "met") \/ UNCHANGED <<mpc, outcome>>
  BY DEF Collect
<1>2. TypeOK'
  <2>1. index' \in [Callers -> 1..Len(Order)]
    BY DEF Collect, Finish
  <2> QED
    BY <1>1, <2>1 DEF Finish, Enter, EventTypeOK, evars
<1>3. MultiInv(t)'
  <2>1. Hit(At(t)) => At(t) \in HitNow
    BY DEF HitNow
  <2>2. list \subseteq ever[t] /\ HitNow \subseteq ever[t] /\ hits[t] \subseteq ever[t] /\ Met(t, hits[t])
    BY <1>1, <2>1 DEF MultiInv
  <2>3. HitNow' = HitNow /\ ever'[t] = ever[t] /\ result'[t] = list /\ hits'[t] = hits[t]
        /\ (Met(t, hits[t])' <=> Met(t, hits[t]))
    BY <1>1 DEF HitNow, Hit, Met, evars
  <2> QED
    BY <1>1, <2>2, <2>3 DEF MultiInv, Finish, Enter
<1>4. \A u \in Callers \ {t} :
         UNCHANGED <<mpc[u], trigger[u], hits[u], result[u], outcome[u], ever[u]>>
  BY <1>1 DEF Enter, Finish
<1> QED
  BY <1>1, <1>2, <1>3, <1>4, CallerKeeps

LEMMA WaitedKeeps ==
    ASSUME IInv, NEW t \in Callers, Waited(t)
    PROVE  IInv'
<1> USE Indices DEF IInv, TypeOK
<1>1. HitNow \subseteq Listed
  BY DEF HitNow
<1>2. TypeOK'
  <2>1. /\ index' \in [Callers -> 1..Len(Order)] /\ hits' \in [Callers -> SUBSET Listed]
        /\ mpc' \in [Callers -> {"out", "scan", "wait", "waited", "collect"}]
    BY DEF Waited, Enter
  <2>2. ever' \in [Callers -> SUBSET Listed]
    BY <1>1 DEF Waited
  <2>3. \A u \in Callers : pc'[u] # "idle" => mpc'[u] = "waited"
    BY DEF Waited, Enter, evars
  <2> QED
    BY <2>1, <2>2, <2>3 DEF Waited, EventTypeOK, evars
<1>3. MultiInv(t)'
  BY DEF Waited, Enter, MultiInv, HitNow, Hit, evars
<1>4. \A u \in Callers \ {t} :
         UNCHANGED <<mpc[u], trigger[u], hits[u], result[u], outcome[u], ever[u]>>
  BY DEF Waited, Enter
<1> QED
  BY <1>2, <1>3, <1>4, CallerKeeps DEF Waited

\* A step in the waits of one thread leaves event_multi_wait where it is.
LEMMA WaitsKeep ==
    ASSUME IInv, EventInv', NEW t \in Threads, UNCHANGED <<flag, mvars>>,
           \A u \in Threads \ {t} : pc'[u] = pc[u],
           t \in Callers => mpc[t] = "waited"
    PROVE  IInv'
<1>1. TypeOK'
  <2>1. \A u \in Callers : pc'[u] # "idle" => mpc'[u] = "waited"
    BY EventMultiWaitAssumption DEF IInv, TypeOK, mvars
  <2> QED
    BY <2>1 DEF IInv, TypeOK, EventInv, mvars
<1>2. \A u \in Callers : MultiInv(u)'
  BY DEF IInv, MultiInv, Met, HitNow, Hit, mvars
<1> QED
  BY <1>1, <1>2 DEF IInv

LEMMA WaitChanges ==
    ASSUME NEW t \in Threads, NEW e \in Events, NEW w, NEW forever, EventTypeOK,
           Wait(t, e, w, forever)
    PROVE  UNCHANGED flag /\ \A u \in Threads \ {t} : pc'[u] = pc[u]
BY DEF Wait, Return, EventTypeOK

LEMMA ContinueKeeps ==
    ASSUME IInv, NEW t \in Threads, Continue(t)
    PROVE  IInv'
<1>1. EventInv'
  BY WaitStepKeeps DEF IInv, Continue
<1>2. UNCHANGED <<flag, mvars>> /\ pc[t] # "idle" /\ \A u \in Threads \ {t} : pc'[u] = pc[u]
  BY DEF Continue, WaitStep, Resume, Expire, GiveUp, Return, IInv, TypeOK, EventTypeOK
<1> QED
  BY <1>1, <1>2, WaitsKeep DEF IInv, TypeOK

LEMMA UseKeeps ==
    ASSUME IInv, NEW t \in Others, NEW e \in Events, Use(t, e)
    PROVE  IInv'
<1>1. PICK w \in {"set", "clear", "both"}, forever \in BOOLEAN : Wait(t, e, w, forever)
  BY BetterEventAssumption DEF Use, WaitSet, WaitClear, WaitAny
<1>2. t \in Threads /\ t \notin Callers
  BY EventMultiWaitAssumption
<1>3. EventInv'
  BY <1>1, <1>2, WaitKeeps DEF IInv
<1> QED
  BY <1>1, <1>2, <1>3, WaitChanges, WaitsKeep DEF IInv, TypeOK, Use

LEMMA WaitEventKeeps ==
    ASSUME IInv, NEW t \in Callers, WaitEvent(t)
    PROVE  IInv'
<1>1. At(t) \in Events /\ t \in Threads
  BY Indices DEF IInv
<1>2. PICK w \in {"set", "clear", "both"} : Wait(t, At(t), w, FALSE)
  BY <1>1, BetterEventAssumption DEF WaitEvent, WaitClear, WaitAny
<1>3. EventInv'
  BY <1>1, <1>2, WaitKeeps DEF IInv
<1>4. UNCHANGED flag /\ \A u \in Threads \ {t} : pc'[u] = pc[u]
  BY <1>1, <1>2, WaitChanges DEF IInv, TypeOK
<1>5. /\ mpc[t] = "wait" /\ mpc' = [mpc EXCEPT ![t] = "waited"]
      /\ UNCHANGED <<trigger, limited, index, hits, result, outcome, ever>>
  BY DEF WaitEvent, Enter
<1>6. TypeOK'
  <2>1. \A u \in Callers : pc'[u] # "idle" => mpc'[u] = "waited"
    BY <1>4, <1>5, EventMultiWaitAssumption DEF IInv, TypeOK
  <2> QED
    BY <1>3, <1>5, <2>1 DEF IInv, TypeOK, EventInv
<1>7. \A u \in Callers : MultiInv(u)'
  BY <1>4, <1>5 DEF IInv, TypeOK, MultiInv, Met, HitNow, Hit
<1> QED
  BY <1>3, <1>6, <1>7 DEF IInv

LEMMA FlipsKeep ==
    ASSUME IInv, NEW e \in Events, Flip(e)
    PROVE  IInv'
<1>1. EventInv'
  BY FlipKeeps DEF IInv, Flip
<1>2. /\ \A d \in Events \ {e} : flag'[d] = flag[d]
      /\ \A u \in Threads : pc[u] = "idle" => pc'[u] = "idle"
      /\ UNCHANGED <<mpc, trigger, limited, index, hits, result, outcome>>
  <2>1. /\ flag' = [flag EXCEPT ![e] = TRUE] \/ flag' = [flag EXCEPT ![e] = FALSE]
        /\ NotifyAll(e, e \in NotifySet) \/ NotifyAll(e, e \in NotifyClear)
    BY DEF Flip, Set, Clear
  <2>2. \A u \in Threads : pc[u] = "idle" => pc'[u] = "idle"
    BY <2>1 DEF NotifyAll, Notified
  <2> QED
    BY <2>1, <2>2 DEF Flip, IInv, TypeOK, EventTypeOK
<1>3. Listed \subseteq Events
  BY EventMultiWaitAssumption DEF Listed
<1>4. ASSUME NEW u \in Callers
      PROVE  /\ ever[u] \subseteq ever'[u] /\ ever'[u] \subseteq Listed
             /\ mpc[u] \in {"scan", "collect"} /\ HitNow \subseteq ever[u] => HitNow' \subseteq ever'[u]
             /\ mpc[u] \notin {"scan", "collect"} => ever'[u] = ever[u]
  <2>1. ever'[u] = IF mpc[u] \in {"scan", "collect"} /\ e \in Listed /\ ~Hit(e)
                     THEN ever[u] \cup {e} ELSE ever[u]
    BY DEF Flip, Observe
  <2>2. HitNow' \subseteq HitNow \cup {e} /\ (Hit(e) => HitNow' \subseteq HitNow)
    BY <1>2, <1>3 DEF HitNow, Hit
  <2>3. HitNow' \subseteq Listed /\ ever[u] \subseteq Listed
    BY DEF HitNow, IInv, TypeOK
  <2> QED
    BY <2>1, <2>2, <2>3
<1>5. TypeOK'
  <2>1. ever' \in [Callers -> SUBSET Listed]
    <3>1. DOMAIN ever' = Callers /\ ever' = [u \in Callers |-> ever'[u]]
      BY DEF Flip, Observe
    <3> QED
      BY <1>4, <3>1
  <2>2. \A u \in Callers : pc'[u] # "idle" => mpc'[u] = "waited"
    BY <1>2, EventMultiWaitAssumption DEF IInv, TypeOK
  <2> QED
    BY <1>1, <1>2, <2>1, <2>2 DEF IInv, TypeOK, EventInv
<1>6. ASSUME NEW u \in Callers PROVE MultiInv(u)'
  <2>1. MultiInv(u) /\ (Met(u, hits[u])' <=> Met(u, hits[u]))
    BY <1>2 DEF IInv, Met
  <2> QED
    BY <1>2, <1>4, <2>1 DEF MultiInv
<1> QED
  BY <1>1, <1>5, <1>6 DEF IInv

LEMMA Invariant == Spec => []IInv
<1>1. IInv /\ [Next]_vars => IInv'
  <2> SUFFICES ASSUME IInv, [Next]_vars PROVE IInv'
    OBVIOUS
  <2>1. CASE UNCHANGED vars
    BY <2>1 DEF IInv, TypeOK, EventInv, EventTypeOK, WaiterInv, LostInv, MultiInv, Met, HitNow,
                Hit, vars, evars, mvars
  <2>2. ASSUME NEW t \in Callers, CallerStep(t) PROVE IInv'
    <3>1. t \in Threads
      BY EventMultiWaitAssumption
    <3> QED
      BY <2>2, <3>1, ScanKeeps, CollectKeeps, WaitEventKeeps, WaitedKeeps, ContinueKeeps DEF CallerStep
  <2>3. ASSUME NEW t \in Callers, NEW trig \in {"and", "or"}, NEW lim \in BOOLEAN,
               Call(t, trig, lim)
        PROVE  IInv'
    BY <2>3, CallKeeps
  <2>4. ASSUME NEW t \in Others, Continue(t) \/ \E e \in Events : Use(t, e) PROVE IInv'
    <3>1. t \in Threads
      BY EventMultiWaitAssumption
    <3> QED
      BY <2>4, <3>1, ContinueKeeps, UseKeeps
  <2>5. ASSUME NEW e \in Events, Flip(e) PROVE IInv'
    BY <2>5, FlipsKeep
  <2> QED
    BY <2>1, <2>2, <2>3, <2>4, <2>5 DEF Next
<1> QED
  BY <1>1, InitInv, PTL DEF Spec

-----------------------------------------------------------------------------
(* Theorems *)

\* A wait of any kind on a BetterEvent that returns True, although it does not look at
\* the flag again after a notification, was for something that happened during the wait.
THEOREM WakesAreJustified == Spec => []WokenHasSeen
<1>1. IInv => WokenHasSeen
  BY DEF IInv, EventInv, WaiterInv, WokenHasSeen
<1> QED
  BY <1>1, Invariant, PTL

\* set and clear lose no wake-up: no thread stays parked for a change that has happened,
\* unless the event was told not to notify of such changes.
THEOREM NoWakeupLost == Spec => []NoLostWakeup
<1>1. IInv => NoLostWakeup
  BY DEF IInv, EventInv, LostInv, NoLostWakeup
<1> QED
  BY <1>1, Invariant, PTL

\* event_multi_wait returns for its trigger only when one scan found it met, and its list
\* holds only events that were signalled since that scan began.
THEOREM DecidesFromOneScan == Spec => []MetInOneScan
<1>1. IInv => MetInOneScan
  BY DEF IInv, MultiInv, MetInOneScan
<1> QED
  BY <1>1, Invariant, PTL
=============================================================================
