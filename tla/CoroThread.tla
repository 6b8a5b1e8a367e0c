----------------------------- MODULE CoroThread -----------------------------
(***************************************************************************)
(* Running a coroutine in a thread with an event loop of its own           *)
(* (asyncx.py): run_coro_thread, which joins the thread and then takes one *)
(* item from the module's queue _coro_thread_queue, and                    *)
(* run_coro_thread_async, which polls a queue of its own between sleeps.   *)
(*                                                                         *)
(* Each member of Calls is one call, made at most once, by any thread at   *)
(* any time.  The asynchronous calls are tasks of one event loop: only the *)
(* sleep between two polls lets another task run, and the final join       *)
(* blocks all of them.                                                     *)
(***************************************************************************)
EXTENDS Naturals, Sequences, FiniteSets

CONSTANTS
    Calls,         \* the calls made
    Polls,         \* how many sleeps make up _queue_timeout
    MaxInterrupts, \* bound: synchronous calls a KeyboardInterrupt may end
    None           \* no answer yet

ASSUME CoroThreadAssumption == Polls \in Nat /\ MaxInterrupts \in Nat

(* How a coroutine ends: it returns a value; raises an Exception; raises
   queue.Empty, which is an Exception that run_coro_thread_async handles itself; or
   raises some other BaseException (SystemExit, CancelledError), which
   coro_thread_func does not catch.  It may also never end. *)
Outcomes == {"value", "error", "empty", "base"}

(* What a caller is told when it is not some coroutine's outcome. *)
Failures == {"Empty", "TimeoutError", "KeyboardInterrupt"}

Messages == [call : Calls, what : Outcomes]
Told(f)  == [call |-> None, what |-> f]

VARIABLES
    shared,     \* _coro_thread_queue
    private,    \* the queue each asynchronous call creates
    kind,       \* "sync" (run_coro_thread) or "async" (run_coro_thread_async)
    out,        \* how the call's coroutine ended
    pc,         \* where the caller is
    thread,     \* the call's thread: none yet, running, dead
    waited,     \* thread_waited, counted in sleeps
    answer,     \* what the call returned or raised
    interrupts

\* History variable: two synchronous calls were in progress at the same time.
VARIABLE overlapped

vars == <<shared, private, kind, out, pc, thread, waited, answer, interrupts, overlapped>>

SyncBusy == {c \in Calls : kind[c] = "sync" /\ pc[c] \in {"join", "get"}}

Init ==
    /\ shared = <<>> /\ private = [c \in Calls |-> <<>>]
    /\ kind = [c \in Calls |-> None] /\ out = [c \in Calls |-> None]
    /\ pc = [c \in Calls |-> "idle"] /\ thread = [c \in Calls |-> "none"]
    /\ waited = [c \in Calls |-> 0] /\ answer = [c \in Calls |-> None]
    /\ interrupts = 0 /\ overlapped = FALSE

\* The call returns or raises a.
Answer(c, a) == pc' = [pc EXCEPT ![c] = "done"] /\ answer' = [answer EXCEPT ![c] = a]

\* The call is made: run_coro_thread_base creates the thread and starts it.
StartThread(c, k, label) ==
    /\ pc[c] = "idle" /\ pc' = [pc EXCEPT ![c] = label]
    /\ kind' = [kind EXCEPT ![c] = k]
    /\ thread' = [thread EXCEPT ![c] = "running"]

-----------------------------------------------------------------------------
(* coro_thread_func, the thread's target *)

\* Mutant of Output: the asynchronous calls share one queue, so that an item may go
\* to any of them.
OutputAnywhere(c, m) ==
    IF kind[c] = "sync"
      THEN shared' = Append(shared, m) /\ UNCHANGED private
      ELSE /\ \E d \in Calls : private' = [private EXCEPT ![d] = Append(@, m)]
           /\ UNCHANGED shared

\* _output_queue.put
Output(c, m) ==
    IF kind[c] = "sync"
      THEN shared' = Append(shared, m) /\ UNCHANGED private
      ELSE private' = [private EXCEPT ![c] = Append(@, m)] /\ UNCHANGED shared

\* The coroutine ended, its outcome is put on the queue, and the thread closes its
\* loop and ends, which concerns nobody but a join.
Finish(c) ==
    /\ thread[c] = "running"
    /\ \E o \in Outcomes \ {"base"} : /\ out' = [out EXCEPT ![c] = o]
                                     /\ Output(c, [call |-> c, what |-> o])
    /\ thread' = [thread EXCEPT ![c] = "dead"]
    /\ UNCHANGED <<kind, pc, waited, answer, interrupts, overlapped>>

\* A BaseException escapes: nothing is put and the loop is not closed.
Escape(c) ==
    /\ thread[c] = "running"
    /\ out' = [out EXCEPT ![c] = "base"]
    /\ thread' = [thread EXCEPT ![c] = "dead"]
    /\ UNCHANGED <<shared, private, kind, pc, waited, answer, interrupts, overlapped>>

-----------------------------------------------------------------------------
(* run_coro_thread *)

StartSync(c) ==
    /\ StartThread(c, "sync", "join")
    /\ overlapped' = (overlapped \/ SyncBusy # {})
    /\ UNCHANGED <<shared, private, out, waited, answer, interrupts>>

\* Mutant of Join: the caller does not wait for its thread.
JoinNothing(c) ==
    /\ pc[c] = "join"
    /\ pc' = [pc EXCEPT ![c] = "get"]
    /\ UNCHANGED <<shared, private, kind, out, thread, waited, answer, interrupts, overlapped>>

Join(c) ==
    /\ pc[c] = "join" /\ thread[c] = "dead"
    /\ pc' = [pc EXCEPT ![c] = "get"]
    /\ UNCHANGED <<shared, private, kind, out, thread, waited, answer, interrupts, overlapped>>

\* Mutant of Get: the item is read and left in the queue.
GetWithoutTaking(c) ==
    /\ pc[c] = "get" /\ shared # <<>>
    /\ Answer(c, Head(shared))
    /\ UNCHANGED <<shared, private, kind, out, thread, waited, interrupts, overlapped>>

\* The oldest item in the module's queue, whichever call it came from.
Get(c) ==
    /\ pc[c] = "get" /\ shared # <<>>
    /\ Answer(c, Head(shared)) /\ shared' = Tail(shared)
    /\ UNCHANGED <<private, kind, out, thread, waited, interrupts, overlapped>>

\* Nothing came in 10 seconds: queue.Empty is raised.
GetTimeout(c) ==
    /\ pc[c] = "get" /\ shared = <<>>
    /\ Answer(c, Told("Empty"))
    /\ UNCHANGED <<shared, private, kind, out, thread, waited, interrupts, overlapped>>

\* A KeyboardInterrupt ends the caller's join or get; its thread goes on.
Interrupt(c) ==
    /\ c \in SyncBusy
    /\ interrupts < MaxInterrupts /\ interrupts' = interrupts + 1
    /\ Answer(c, Told("KeyboardInterrupt"))
    /\ UNCHANGED <<shared, private, kind, out, thread, waited, overlapped>>

-----------------------------------------------------------------------------
(* run_coro_thread_async *)

LoopFree == \A c \in Calls : pc[c] # "joinAsync"

\* get_nowait finds something that leaves the try.  A queue.Empty the coroutine raised
\* does not: raised inside the try, it is taken for an empty queue, and is lost.
HasResult(c) == private[c] # <<>> /\ Head(private[c]).what # "empty"

StartAsync(c) ==
    /\ LoopFree
    /\ StartThread(c, "async", "poll")
    /\ UNCHANGED <<shared, private, out, waited, answer, interrupts, overlapped>>

\* Mutant of PollEmpty: the time slept is not counted.
PollForever(c) ==
    /\ pc[c] = "poll" /\ LoopFree /\ waited[c] < Polls
    /\ ~HasResult(c)
    /\ private' = [private EXCEPT ![c] = <<>>]
    /\ UNCHANGED <<shared, kind, out, pc, thread, waited, answer, interrupts, overlapped>>

\* Nothing to report yet: sleep.
PollEmpty(c) ==
    /\ pc[c] = "poll" /\ LoopFree /\ waited[c] < Polls
    /\ ~HasResult(c)
    /\ private' = [private EXCEPT ![c] = <<>>]
    /\ waited' = [waited EXCEPT ![c] = @ + 1]
    /\ UNCHANGED <<shared, kind, out, pc, thread, answer, interrupts, overlapped>>

\* An exception is raised at once; a value waits for the thread first.
PollResult(c) ==
    /\ pc[c] = "poll" /\ LoopFree /\ waited[c] < Polls
    /\ HasResult(c)
    /\ private' = [private EXCEPT ![c] = Tail(@)]
    /\ IF Head(private[c]).what = "value"
         THEN /\ pc' = [pc EXCEPT ![c] = "joinAsync"]
              /\ answer' = [answer EXCEPT ![c] = Head(private[c])]
         ELSE Answer(c, Head(private[c]))
    /\ UNCHANGED <<shared, kind, out, thread, waited, interrupts, overlapped>>

\* The limit is checked before the queue: what came during the last sleep is lost.
PollTimeout(c) ==
    /\ pc[c] = "poll" /\ LoopFree /\ waited[c] >= Polls
    /\ Answer(c, Told("TimeoutError"))
    /\ UNCHANGED <<shared, private, kind, out, thread, waited, interrupts, overlapped>>

\* t_co.join(5) ended, with or without the thread, and the value is returned.
JoinAsync(c) ==
    /\ pc[c] = "joinAsync"
    /\ pc' = [pc EXCEPT ![c] = "done"]
    /\ UNCHANGED <<shared, private, kind, out, thread, waited, answer, interrupts, overlapped>>

-----------------------------------------------------------------------------

ThreadStep(c) == Finish(c) \/ Escape(c)

CallerStep(c) ==
    \/ Join(c) \/ Get(c) \/ GetTimeout(c)
    \/ PollEmpty(c) \/ PollResult(c) \/ PollTimeout(c) \/ JoinAsync(c)

Next ==
    \E c \in Calls : \/ StartSync(c) \/ StartAsync(c) \/ Interrupt(c)
                     \/ ThreadStep(c) \/ CallerStep(c)

Spec == Init /\ [][Next]_vars

\* A caller is scheduled whenever it can go on: its thread by the interpreter, its
\* task by the event loop, which is blocked only while one of the joins lasts.  No
\* coroutine has to end, no call to be made, no interrupt to come.
FairSpec == Spec /\ \A c \in Calls : WF_vars(CallerStep(c))

-----------------------------------------------------------------------------
(* Properties *)

\* Types; a caller has waited no longer than its limit when it polls again.
TypeOK ==
    /\ shared \in Seq(Messages) /\ private \in [Calls -> Seq(Messages)]
    /\ kind \in [Calls -> {"sync", "async", None}] /\ out \in [Calls -> Outcomes \cup {None}]
    /\ pc \in [Calls -> {"idle", "join", "get", "poll", "joinAsync", "done"}]
    /\ thread \in [Calls -> {"none", "running", "dead"}]
    /\ waited \in [Calls -> 0..Polls] /\ interrupts \in 0..MaxInterrupts
    /\ answer \in [Calls -> {None} \cup Messages \cup {Told(f) : f \in Failures}]
    /\ overlapped \in BOOLEAN

Done(c) == pc[c] = "done"
Own(c)  == [call |-> c, what |-> out[c]]

\* Synchronous calls that were made one after the other, none of them interrupted,
\* each report their own coroutine's outcome; one whose coroutine raised a
\* BaseException raises queue.Empty, and does not disturb the calls after it.
SequentialOwnResult ==
    ~overlapped /\ interrupts = 0 =>
        \A c \in Calls : Done(c) /\ kind[c] = "sync" =>
            answer[c] = IF out[c] = "base" THEN Told("Empty") ELSE Own(c)

\* Mixed-up results do not pile up: however calls overlap, the module's queue never
\* holds more items than there are calls in progress and calls interrupted, so it is
\* empty again when the last call returns.
NoLeftovers == Len(shared) <= Cardinality(SyncBusy) + interrupts

\* A result goes to one caller only: no two calls report the same coroutine, whether
\* they were synchronous or asynchronous, overlapping or not.
DeliveredOnce ==
    \A c, d \in Calls :
        c # d /\ Done(c) /\ Done(d) /\ answer[c] = answer[d] => answer[c].call = None

\* An asynchronous call reports its own coroutine's outcome or a TimeoutError, with
\* any number of other calls of both kinds in progress.
AsyncOwnResult ==
    \A c \in Calls : Done(c) /\ kind[c] = "async" => answer[c] \in {Own(c), Told("TimeoutError")}

\* A synchronous call ends once its thread has, and an asynchronous one in any case:
\* a coroutine that hangs, or whose outcome never reaches a queue, blocks nobody else.
CallsEnd ==
    \A c \in Calls :
        pc[c] = "poll" \/ (pc[c] = "join" /\ thread[c] = "dead") ~> Done(c)

\* What run_coro_thread's documentation says (asyncx.py:136): "return the result /
\* raise any exceptions as if it were ran normally", relayed "safely" through the queue.
ReportsOwnCoroutine ==
    \A c \in Calls : Done(c) /\ kind[c] = "sync" => answer[c].call \in {c, None}

=============================================================================
