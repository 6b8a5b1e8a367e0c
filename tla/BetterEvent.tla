---------------------------- MODULE BetterEvent -----------------------------
(***************************************************************************)
(* BetterEvent (thread.py): a threading.Event that can also be waited on   *)
(* until it is clear, or until it changes.  set, clear and the three waits *)
(* run under the lock of the event's Condition, so each is one action up   *)
(* to the point where Condition.wait lets the lock go.                     *)
(*                                                                         *)
(* Condition.wait parks the caller in the list of waiters.  notify_all     *)
(* empties the list; a caller that was notified takes the lock again later *)
(* and returns True without a second look at the flag.  A caller whose     *)
(* timeout passed stays in the list until it has the lock again, and       *)
(* returns False even when it is notified in between.                      *)
(***************************************************************************)
EXTENDS Naturals, FiniteSets, Sequences

CONSTANTS
    Threads,       \* the threads that set, clear and wait
    Events,        \* the events
    WaitOn,        \* wait_on of each event: "set", "clear" or "both"
    NotifySet,     \* the events with notify_set
    NotifyClear,   \* the events with notify_clear
    None

ASSUME BetterEventAssumption ==
    /\ WaitOn \in [Events -> {"set", "clear", "both"}]
    /\ NotifySet \subseteq Events /\ NotifyClear \subseteq Events
    /\ None \notin Events

VARIABLES
    flag,      \* _flag of each event
    waiters,   \* the list of waiters of each event's Condition
    pc,        \* idle, waiting, woken (notified), expired (timed out)
    on,        \* the event a thread waits for
    want,      \* what it waits for: "set", "clear" or "both"
    patient,   \* whether it waits without a timeout
    signal     \* what its last wait returned

\* History variable: since a thread's wait began, the flag has been in the state it
\* waits for (for "both": has changed).
VARIABLE seen

evars == <<flag, waiters, pc, on, want, patient, signal, seen>>

EventInit ==
    /\ flag \in [Events -> BOOLEAN]   \* the constructor's default
    /\ waiters = [e \in Events |-> {}]
    /\ pc = [t \in Threads |-> "idle"] /\ on = [t \in Threads |-> None]
    /\ want = [t \in Threads |-> "set"] /\ patient = [t \in Threads |-> FALSE]
    /\ signal = [t \in Threads |-> TRUE] /\ seen = [t \in Threads |-> FALSE]

-----------------------------------------------------------------------------
(* set and clear *)

Notified(e) == [t \in Threads |->
                  IF t \in waiters[e] /\ pc[t] = "waiting" THEN "woken" ELSE pc[t]]

\* The flag of e becomes b: what the waiters in e's list have now seen.
Saw(e, b) == [t \in Threads |->
                seen[t] \/ (on[t] = e /\ want[t] \in {"both", IF b THEN "set" ELSE "clear"})]

\* Mutant of NotifyAll: only one waiter is notified.
NotifyOne(e, enabled) ==
    IF enabled /\ waiters[e] # {}
      THEN \E t \in waiters[e] :
             /\ pc' = [pc EXCEPT ![t] = IF @ = "waiting" THEN "woken" ELSE @]
             /\ waiters' = [waiters EXCEPT ![e] = @ \ {t}]
      ELSE UNCHANGED <<pc, waiters>>

NotifyAll(e, enabled) ==
    IF enabled
      THEN pc' = Notified(e) /\ waiters' = [waiters EXCEPT ![e] = {}]
      ELSE UNCHANGED <<pc, waiters>>

\* Mutant of Set: an event that is set notifies once more.
SetAgain(e) ==
    /\ flag' = [flag EXCEPT ![e] = TRUE]
    /\ seen' = IF flag[e] THEN seen ELSE Saw(e, TRUE)
    /\ NotifyAll(e, e \in NotifySet)
    /\ UNCHANGED <<on, want, patient, signal>>

\* Setting an event that is set returns False at once, and likewise for clear.
Set(e) ==
    /\ ~flag[e]
    /\ flag' = [flag EXCEPT ![e] = TRUE] /\ seen' = Saw(e, TRUE)
    /\ NotifyAll(e, e \in NotifySet)
    /\ UNCHANGED <<on, want, patient, signal>>

Clear(e) ==
    /\ flag[e]
    /\ flag' = [flag EXCEPT ![e] = FALSE] /\ seen' = Saw(e, FALSE)
    /\ NotifyAll(e, e \in NotifyClear)
    /\ UNCHANGED <<on, want, patient, signal>>

-----------------------------------------------------------------------------
(* wait_set, wait_clear and wait *)

\* The wait returns s, or raises EventWaitTimeout for FALSE when fail is given.
Return(t, s) ==
    /\ pc' = [pc EXCEPT ![t] = "idle"]
    /\ on' = [on EXCEPT ![t] = None] /\ patient' = [patient EXCEPT ![t] = FALSE]
    /\ want' = [want EXCEPT ![t] = "set"] /\ signal' = [signal EXCEPT ![t] = s]
    /\ seen' = [seen EXCEPT ![t] = FALSE]

\* A wait for w on e begins: it returns at once or parks the caller.
Wait(t, e, w, forever) ==
    /\ pc[t] = "idle"
    /\ IF (w = "set" /\ flag[e]) \/ (w = "clear" /\ ~flag[e])
         THEN Return(t, TRUE) /\ UNCHANGED waiters
         ELSE /\ waiters' = [waiters EXCEPT ![e] = @ \cup {t}]
              /\ pc' = [pc EXCEPT ![t] = "waiting"]
              /\ on' = [on EXCEPT ![t] = e] /\ want' = [want EXCEPT ![t] = w]
              /\ patient' = [patient EXCEPT ![t] = forever]
              /\ UNCHANGED <<signal, seen>>
    /\ UNCHANGED flag

WaitSet(t, e, forever)   == Wait(t, e, "set", forever)
WaitClear(t, e, forever) == Wait(t, e, "clear", forever)
WaitAny(t, e, forever)   == Wait(t, e, WaitOn[e], forever)   \* the method wait

\* The lock is taken again after a notification.
Resume(t) ==
    /\ pc[t] = "woken"
    /\ Return(t, TRUE)
    /\ UNCHANGED <<flag, waiters>>

Expire(t) ==
    /\ pc[t] = "waiting" /\ ~patient[t]
    /\ pc' = [pc EXCEPT ![t] = "expired"]
    /\ UNCHANGED <<flag, waiters, on, want, patient, signal, seen>>

\* The lock is taken again after the timeout, and the caller leaves the list.
GiveUp(t) ==
    /\ pc[t] = "expired"
    /\ waiters' = [waiters EXCEPT ![on[t]] = @ \ {t}]
    /\ Return(t, FALSE)
    /\ UNCHANGED flag

WaitStep(t) == Resume(t) \/ Expire(t) \/ GiveUp(t)

-----------------------------------------------------------------------------
(* Properties of a single event *)

EventTypeOK ==
    /\ flag \in [Events -> BOOLEAN] /\ waiters \in [Events -> SUBSET Threads]
    /\ pc \in [Threads -> {"idle", "waiting", "woken", "expired"}]
    /\ on \in [Threads -> Events \cup {None}]
    /\ want \in [Threads -> {"set", "clear", "both"}]
    /\ patient \in [Threads -> BOOLEAN] /\ signal \in [Threads -> BOOLEAN]
    /\ seen \in [Threads -> BOOLEAN]
    /\ \A t \in Threads : pc[t] # "idle" <=> on[t] # None

\* A wait that was notified returns True although it does not look at the flag
\* again: the flag was in the state waited for at some moment of the wait, even when
\* the notification is about a change in the other direction.
WokenHasSeen == \A t \in Threads : pc[t] = "woken" => seen[t]

\* No wake-up is lost: nobody is parked for something that has happened, as long as
\* the event notifies of the changes the wait is for.
NoLostWakeup ==
    \A t \in Threads :
        pc[t] = "waiting" /\ seen[t] =>
            \/ want[t] # "set" /\ on[t] \notin NotifyClear
            \/ want[t] # "clear" /\ on[t] \notin NotifySet

=============================================================================
