--------------------------- MODULE EventMultiWait ---------------------------
(***************************************************************************)
(* event_multi_wait (thread.py) over several BetterEvents: scan the events *)
(* one by one; when the trigger is not met, wait on each of them in turn   *)
(* for a slice of event_sleep, whatever that wait returns, and scan again. *)
(*                                                                         *)
(* Signalled names what invert and invert_indexes come down to: for each   *)
(* event, the flag value that counts as signalled.                         *)
(***************************************************************************)
EXTENDS BetterEvent

CONSTANTS
    Order,        \* the events in the order they are passed
    Signalled,    \* the flag value of each event that counts
    Callers,      \* the threads that call event_multi_wait
    Others        \* the threads that use the events directly

ASSUME EventMultiWaitAssumption ==
    /\ Order \in Seq(Events) /\ Order # <<>>
    /\ Signalled \in [Events -> BOOLEAN]
    /\ Callers \cup Others = Threads /\ Callers \cap Others = {}

VARIABLES
    mpc,       \* out, scan, wait, waited, collect
    trigger,   \* "and" or "or"
    limited,   \* whether wait_timeout was given
    index,     \* the event the loop is at
    hits,      \* the events found signalled in this scan
    result,    \* the events a call with trigger "or" returns
    outcome    \* the last call: "none" yet, "met" or "timeout"

\* History variable: the events that were signalled at some moment of the scan, or
\* since, while the list of a call with trigger "or" is made.
VARIABLE ever

mvars == <<mpc, trigger, limited, index, hits, result, outcome, ever>>
vars  == <<evars, mvars>>

Listed == {Order[i] : i \in 1..Len(Order)}

MultiInit ==
    /\ mpc = [t \in Callers |-> "out"] /\ trigger = [t \in Callers |-> "and"]
    /\ limited = [t \in Callers |-> FALSE] /\ index = [t \in Callers |-> 1]
    /\ hits = [t \in Callers |-> {}] /\ result = [t \in Callers |-> {}]
    /\ outcome = [t \in Callers |-> "none"] /\ ever = [t \in Callers |-> {}]

Init == EventInit /\ MultiInit

Hit(e)      == flag[e] = Signalled[e]                     \* _filter_event
HitNow      == {e \in Listed : Hit(e)}
At(t)       == Order[index[t]]
Enter(t, l) == mpc' = [mpc EXCEPT ![t] = l]
Last(t)     == index[t] = Len(Order)

\* What the history variable records when the flag of e flips.
Observe(e) ==
    ever' = [t \in Callers |-> IF mpc[t] \in {"scan", "collect"} /\ e \in Listed /\ ~Hit(e)
                                 THEN ever[t] \cup {e} ELSE ever[t]]

-----------------------------------------------------------------------------

Call(t, trig, lim) ==
    /\ mpc[t] = "out"
    /\ Enter(t, "scan")
    /\ trigger' = [trigger EXCEPT ![t] = trig] /\ limited' = [limited EXCEPT ![t] = lim]
    /\ index' = [index EXCEPT ![t] = 1] /\ hits' = [hits EXCEPT ![t] = {}]
    /\ result' = [result EXCEPT ![t] = {}] /\ outcome' = [outcome EXCEPT ![t] = "none"]
    /\ ever' = [ever EXCEPT ![t] = HitNow]
    /\ UNCHANGED evars

Finish(t, o) ==
    /\ Enter(t, "out") /\ outcome' = [outcome EXCEPT ![t] = o]
    /\ index' = [index EXCEPT ![t] = 1]

Met(t, hs) == IF trigger[t] = "and" THEN hs = Listed ELSE hs # {}

\* all_is_set(): the flags are read one after the other, without any lock.  After the
\* last one the list is judged, and on failure the time since the start.
Scan(t) ==
    /\ mpc[t] = "scan"
    /\ LET hs == IF Hit(At(t)) THEN hits[t] \cup {At(t)} ELSE hits[t] IN
       /\ hits' = [hits EXCEPT ![t] = hs]
       /\ IF ~Last(t)
            THEN index' = [index EXCEPT ![t] = @ + 1] /\ UNCHANGED <<mpc, outcome>>
            ELSE IF Met(t, hs)
              THEN IF trigger[t] = "and"
                     THEN Finish(t, "met")
                     ELSE /\ Enter(t, "collect")
                          /\ index' = [index EXCEPT ![t] = 1] /\ UNCHANGED outcome
              ELSE \/ /\ Enter(t, "wait")
                      /\ index' = [index EXCEPT ![t] = 1] /\ UNCHANGED outcome
                   \/ limited[t] /\ Finish(t, "timeout")
    /\ UNCHANGED <<evars, trigger, limited, result, ever>>

\* The list a call with trigger "or" returns is made by reading the flags once more.
Collect(t) ==
    /\ mpc[t] = "collect"
    /\ result' = [result EXCEPT ![t] = IF Hit(At(t)) THEN @ \cup {At(t)} ELSE @]
    /\ IF Last(t)
         THEN Finish(t, "met")
         ELSE index' = [index EXCEPT ![t] = @ + 1] /\ UNCHANGED <<mpc, outcome>>
    /\ UNCHANGED <<evars, trigger, limited, hits, ever>>

\* Mutant of WaitEvent: no slice, so that an event nobody signals holds the call.
WaitEventForever(t) ==
    /\ mpc[t] = "wait"
    /\ IF Signalled[At(t)] THEN WaitAny(t, At(t), TRUE) ELSE WaitClear(t, At(t), TRUE)
    /\ Enter(t, "waited")
    /\ UNCHANGED <<trigger, limited, index, hits, result, outcome, ever>>

\* _wait_event: wait() for the events that are to be set, wait_clear() for the others.
WaitEvent(t) ==
    /\ mpc[t] = "wait"
    /\ IF Signalled[At(t)] THEN WaitAny(t, At(t), FALSE) ELSE WaitClear(t, At(t), FALSE)
    /\ Enter(t, "waited")
    /\ UNCHANGED <<trigger, limited, index, hits, result, outcome, ever>>

\* Mutant of Waited: the hits of earlier scans are kept.
WaitedKeepingHits(t) ==
    /\ mpc[t] = "waited" /\ pc[t] = "idle"
    /\ IF Last(t)
         THEN Enter(t, "scan") /\ index' = [index EXCEPT ![t] = 1] /\ UNCHANGED hits
         ELSE Enter(t, "wait") /\ index' = [index EXCEPT ![t] = @ + 1] /\ UNCHANGED hits
    /\ ever' = [ever EXCEPT ![t] = IF Last(t) THEN HitNow ELSE @]
    /\ UNCHANGED <<evars, trigger, limited, result, outcome>>

\* The wait on one event is over: on to the next one, or to another scan.
Waited(t) ==
    /\ mpc[t] = "waited" /\ pc[t] = "idle"
    /\ IF Last(t)
         THEN /\ Enter(t, "scan") /\ index' = [index EXCEPT ![t] = 1]
              /\ hits' = [hits EXCEPT ![t] = {}]
         ELSE Enter(t, "wait") /\ index' = [index EXCEPT ![t] = @ + 1] /\ UNCHANGED hits
    /\ ever' = [ever EXCEPT ![t] = IF Last(t) THEN HitNow ELSE @]
    /\ UNCHANGED <<evars, trigger, limited, result, outcome>>

-----------------------------------------------------------------------------

Use(t, e) ==
    /\ \/ WaitSet(t, e, TRUE) \/ WaitClear(t, e, TRUE) \/ WaitAny(t, e, TRUE)
       \/ WaitSet(t, e, FALSE) \/ WaitClear(t, e, FALSE) \/ WaitAny(t, e, FALSE)
    /\ UNCHANGED mvars

Flip(e) == (Set(e) \/ Clear(e)) /\ Observe(e)
    /\ UNCHANGED <<mpc, trigger, limited, index, hits, result, outcome>>

Continue(t) == WaitStep(t) /\ UNCHANGED mvars

CallerStep(t) == Scan(t) \/ Collect(t) \/ WaitEvent(t) \/ Waited(t) \/ Continue(t)

Next ==
    \/ \E t \in Callers : CallerStep(t)
         \/ \E trig \in {"and", "or"}, lim \in BOOLEAN : Call(t, trig, lim)
    \/ \E t \in Others : Continue(t) \/ \E e \in Events : Use(t, e)
    \/ \E e \in Events : Flip(e)

Spec == Init /\ [][Next]_vars

\* A caller's thread is scheduled and its slices pass; nobody has to set an event, to
\* wait, or to call.
FairSpec == Spec /\ \A t \in Callers : WF_vars(CallerStep(t))

-----------------------------------------------------------------------------
(* Properties *)

\* Types; a caller is in the wait of an event only where event_multi_wait waits for
\* its return.
TypeOK ==
    /\ EventTypeOK
    /\ mpc \in [Callers -> {"out", "scan", "wait", "waited", "collect"}]
    /\ trigger \in [Callers -> {"and", "or"}] /\ limited \in [Callers -> BOOLEAN]
    /\ index \in [Callers -> 1..Len(Order)] /\ hits \in [Callers -> SUBSET Listed]
    /\ outcome \in [Callers -> {"none", "met", "timeout"}]
    /\ result \in [Callers -> SUBSET Listed] /\ ever \in [Callers -> SUBSET Listed]
    /\ \A t \in Callers : pc[t] # "idle" => mpc[t] = "waited"

\* A call that returns for its trigger found it met by one scan: every event the
\* decision counts was signalled at some moment of that last scan, none of them is
\* a memory of an earlier one.  The list of a call with trigger "or", which may lack
\* events the decision counted, holds only events signalled since that scan began.
MetInOneScan ==
    \A t \in Callers :
        outcome[t] = "met" => hits[t] \cup result[t] \subseteq ever[t] /\ Met(t, hits[t])

\* Events that become signalled and stay so end every call: all of them a call with
\* trigger "and", any one of them a call with trigger "or", although the call spends
\* its time waiting on the events in turn, the wrong ones included.
SignalledEndsCalls ==
    \A t \in Callers :
        /\ <>[](HitNow = Listed) => [](mpc[t] # "out" => <>(mpc[t] = "out"))
        /\ \A e \in Listed :
             <>[](e \in HitNow) =>
                 [](mpc[t] # "out" /\ trigger[t] = "or" => <>(mpc[t] = "out"))

=============================================================================
