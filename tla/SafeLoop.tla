------------------------------ MODULE SafeLoop ------------------------------
(***************************************************************************)
(* A SafeLoopThread (thread.py): the thread that calls loop() again and    *)
(* again until one of its stop events is set, and holds while one of its   *)
(* pause events is.  The events are BetterEvents that other threads set    *)
(* and clear at any time (emit_stop, emit_start, emit_pause, emit_unpause, *)
(* and the extra events handed to the constructor).                        *)
(*                                                                         *)
(* should_stop and should_pause read the flags one after the other and     *)
(* without a lock, so that each read is an action.                         *)
(***************************************************************************)
EXTENDS Naturals, Sequences

CONSTANTS
    StopEvents,    \* stop_events, the thread's own event first
    PauseEvents    \* pause_events, the thread's own event first

EventsOf(s) == {s[i] : i \in 1..Len(s)}
Events == EventsOf(StopEvents) \cup EventsOf(PauseEvents)

ASSUME SafeLoopAssumption ==
    /\ StopEvents \in Seq(EventsOf(StopEvents)) /\ StopEvents # <<>>
    /\ PauseEvents \in Seq(EventsOf(PauseEvents)) /\ PauseEvents # <<>>
    /\ EventsOf(StopEvents) \cap EventsOf(PauseEvents) = {}

VARIABLES
    flag,      \* is_set() of each event
    pc,        \* new, stop, pause, held, nap, loop, rest, dead
    index,     \* the flag should_stop or should_pause reads next
    found,     \* whether one of those it has read was set
    refused    \* a start() of the finished thread raised, no stop event being set

\* History variables.
VARIABLES
    late,      \* calls of loop() since the event was set (capped at 2)
    allowed    \* how many of those could not be helped

vars == <<flag, pc, index, found, refused, late, allowed>>

Reading == {"stop", "pause", "held"}

Init ==
    /\ flag \in [Events -> BOOLEAN]     \* default_stop, default_pause
    /\ pc = "new" /\ index = 1 /\ found = FALSE /\ refused = FALSE
    /\ late = [e \in Events |-> 0] /\ allowed = [e \in Events |-> 0]

-----------------------------------------------------------------------------
(* The other threads *)

SetEvent(e) ==
    /\ ~flag[e] /\ flag' = [flag EXCEPT ![e] = TRUE]
    /\ late' = [late EXCEPT ![e] = 0]
    /\ allowed' = [allowed EXCEPT ![e] = IF pc = "new" THEN 0 ELSE 1]
    /\ UNCHANGED <<pc, index, found, refused>>

ClearEvent(e) ==
    /\ flag[e] /\ flag' = [flag EXCEPT ![e] = FALSE]
    /\ late' = [late EXCEPT ![e] = 0] /\ allowed' = [allowed EXCEPT ![e] = 0]
    /\ UNCHANGED <<pc, index, found, refused>>

\* Begin reading the flags of should_stop or should_pause.
Read(label) == pc' = label /\ index' = 1 /\ found' = FALSE

Start ==
    /\ pc = "new"
    /\ Read("stop")
    /\ UNCHANGED <<flag, refused, late, allowed>>

\* threading.Thread.start raises RuntimeError on a thread that was started before.
StartAgain ==
    /\ pc = "dead" /\ ~refused
    /\ \A i \in 1..Len(StopEvents) : ~flag[StopEvents[i]]
    /\ refused' = TRUE
    /\ UNCHANGED <<flag, pc, index, found, late, allowed>>

-----------------------------------------------------------------------------
(* run *)

\* What run does with the answer of should_stop or should_pause.
Decide(answer) ==
    CASE pc = "stop"  -> IF answer THEN pc' = "dead" /\ index' = 1 /\ found' = FALSE
                                   ELSE Read("pause")
      [] pc = "pause" -> IF answer THEN Read("held")
                                   ELSE pc' = "loop" /\ index' = 1 /\ found' = FALSE
      [] pc = "held"  -> /\ pc' = (IF answer THEN "nap" ELSE "loop")
                         /\ index' = 1 /\ found' = FALSE

\* Mutant of Flags: only the thread's own event is consulted.
OwnFlag(label) == IF label = "stop" THEN SubSeq(StopEvents, 1, 1) ELSE SubSeq(PauseEvents, 1, 1)

Flags(label) == IF label = "stop" THEN StopEvents ELSE PauseEvents

\* Mutant of ReadFlag: one event too many.
ReadPastEnd ==
    /\ pc \in Reading
    /\ LET answer == found \/ (index <= Len(Flags(pc)) /\ flag[Flags(pc)[index]]) IN
       IF index > Len(Flags(pc))
         THEN Decide(answer)
         ELSE index' = index + 1 /\ found' = answer /\ UNCHANGED pc
    /\ UNCHANGED <<flag, refused, late, allowed>>

\* any([ev.is_set() for ev in ...]): every flag is read, then the answer is used.
ReadFlag ==
    /\ pc \in Reading
    /\ LET answer == found \/ flag[Flags(pc)[index]] IN
       IF index = Len(Flags(pc))
         THEN Decide(answer)
         ELSE index' = index + 1 /\ found' = answer /\ UNCHANGED pc
    /\ UNCHANGED <<flag, refused, late, allowed>>

\* Mutant of Nap: the pause found once is never looked at again.
NapForever ==
    /\ pc = "nap"
    /\ UNCHANGED <<flag, pc, index, found, refused, late, allowed>>

\* time.sleep(pause_sleep), then should_pause again: the stop events are not read.
Nap ==
    /\ pc = "nap"
    /\ Read("held")
    /\ UNCHANGED <<flag, refused, late, allowed>>

Loop ==
    /\ pc = "loop"
    /\ pc' = "rest"
    /\ late' = [e \in Events |-> IF flag[e] /\ late[e] < 2 THEN late[e] + 1 ELSE late[e]]
    /\ UNCHANGED <<flag, index, found, refused, allowed>>

\* Mutant of Rest: the stop events are read before the first loop() only.
RestUnstoppable ==
    /\ pc = "rest"
    /\ Read("pause")
    /\ UNCHANGED <<flag, refused, late, allowed>>

\* time.sleep(loop_sleep), and back to the head of the loop.
Rest ==
    /\ pc = "rest"
    /\ Read("stop")
    /\ UNCHANGED <<flag, refused, late, allowed>>

Run == ReadFlag \/ Nap \/ Loop \/ Rest

Next == Run \/ Start \/ StartAgain \/ \E e \in Events : SetEvent(e) \/ ClearEvent(e)

Spec == Init /\ [][Next]_vars

\* The thread is scheduled and loop() returns; nobody has to set or clear an event.
FairSpec == Spec /\ WF_vars(Run)

-----------------------------------------------------------------------------
(* Properties *)

\* Types; a flag is read only within the list the reader is going through.
TypeOK ==
    /\ flag \in [Events -> BOOLEAN]
    /\ pc \in Reading \cup {"new", "nap", "loop", "rest", "dead"}
    /\ index \in Nat /\ found \in BOOLEAN /\ refused \in BOOLEAN
    /\ pc \in Reading => index \in 1..Len(Flags(pc))
    /\ late \in [Events -> 0..2] /\ allowed \in [Events -> 0..1]

\* An event that is set and stays set lets at most one more loop() begin, the one
\* whose checks were under way, and none at all when it was set before start(): for
\* each stop and pause event, the extra ones too, whatever the others do meanwhile.
LateLoops == \A e \in Events : flag[e] => late[e] <= allowed[e]

Running == pc \notin {"new", "dead"}

\* A stop event that stays set ends the thread, as long as it is not kept paused; how
\* often the pause events came and went before does not matter.
StopEnds ==
    \A i \in 1..Len(StopEvents) :
        /\ <>[]flag[StopEvents[i]]
        /\ \A j \in 1..Len(PauseEvents) : <>[]~flag[PauseEvents[j]]
        => <>[]~Running

\* A started thread whose events are all clear from some moment on keeps looping,
\* however long it was paused before, unless a stop had ended it.
FreeLoops ==
    <>[](\A e \in Events : ~flag[e]) => <>[]~Running \/ []<>(pc = "loop")

=============================================================================
