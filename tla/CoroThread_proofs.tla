-------------------------- MODULE CoroThread_proofs --------------------------
(***************************************************************************)
(* For any set of calls, infinite ones included, any limit of polls and    *)
(* any number of interrupts: what the callers of run_coro_thread and       *)
(* run_coro_thread_async are told, and what is left in the module's queue. *)
(***************************************************************************)
EXTENDS CoroThread, FiniteSetTheorems, SequenceTheorems, TLAPS

Answered(c) == pc[c] \in {"joinAsync", "done"}
Started     == {c \in Calls : pc[c] # "idle"}

\* The synchronous calls that may still put something on the queue, and those an
\* interrupt has ended.
Running     == {c \in Calls : kind[c] = "sync" /\ thread[c] = "running"}
Interrupted == {c \in Calls : pc[c] = "done" /\ answer[c] = Told("KeyboardInterrupt")}

\* Where a call is, by its kind.
CallInv(c) ==
    /\ pc[c] = "idle" <=> thread[c] = "none"
    /\ thread[c] = "dead" => out[c] \in Outcomes
    /\ pc[c] \in {"join", "get"} => kind[c] = "sync"
    /\ pc[c] \in {"poll", "joinAsync"} => kind[c] = "async"
    /\ pc[c] # "idle" => kind[c] \in {"sync", "async"}
    /\ pc[c] = "get" => thread[c] = "dead"
    /\ pc[c] = "done" /\ kind[c] = "sync" /\ thread[c] = "running" => c \in Interrupted

\* Every item in a queue, and every answer that is some coroutine's outcome, is the
\* outcome of a thread that has ended.
OutcomeOf(m) == m.call \in Calls /\ thread[m.call] = "dead" /\ m = Own(m.call)

SharedInv == \A i \in 1..Len(shared) : OutcomeOf(shared[i]) /\ kind[shared[i].call] = "sync"

PrivateInv ==
    \A c \in Calls : /\ private[c] \in {<<>>, <<Own(c)>>}
                     /\ private[c] # <<>> => kind[c] = "async" /\ thread[c] = "dead"

AnswerInv ==
    \A c \in Calls : Answered(c) => \/ answer[c] \in {Told(f) : f \in Failures}
                                    \/ answer[c] \in Messages /\ OutcomeOf(answer[c])

QueueInv == SharedInv /\ PrivateInv /\ AnswerInv

\* An outcome is in one place: in a queue, once, or with one caller.
SharedOnce  == \A i, j \in 1..Len(shared) : i # j => shared[i] # shared[j]
AnswersOnce == \A c, d \in Calls : c # d /\ Answered(c) /\ Answered(d) /\ answer[c] \in Messages
                                      => answer[c] # answer[d]
NotInShared == \A c \in Calls, i \in 1..Len(shared) : Answered(c) => answer[c] # shared[i]
NotPrivate  == \A c, d \in Calls : Answered(c) /\ private[d] # <<>> => answer[c] # Own(d)
OnePlace    == SharedOnce /\ AnswersOnce /\ NotInShared /\ NotPrivate

\* Asynchronous calls have a queue to themselves.
AsyncInv ==
    \A c \in Calls : Answered(c) /\ kind[c] = "async" =>
        \/ answer[c] = Told("TimeoutError")
        \/ answer[c] = Own(c) /\ thread[c] = "dead"

\* Of each synchronous call that was begun either the result is still to come, or it is in
\* the queue, or somebody has taken one; an interrupt takes none.
CountInv ==
    /\ IsFiniteSet(Started)
    /\ Len(shared) + Cardinality(Running) <= Cardinality(SyncBusy) + Cardinality(Interrupted)
    /\ Cardinality(Interrupted) <= interrupts

\* Calls one after the other: the queue holds at most the result of the one in progress.
SequentialInv ==
    ~overlapped /\ interrupts = 0 =>
        /\ \A c, d \in SyncBusy : c = d
        /\ SyncBusy = {} => shared = <<>>
        /\ \A c \in SyncBusy :
              shared = IF thread[c] = "dead" /\ out[c] # "base" THEN <<Own(c)>> ELSE <<>>
        /\ \A c \in Calls : Done(c) /\ kind[c] = "sync" =>
              /\ thread[c] = "dead"
              /\ answer[c] = IF out[c] = "base" THEN Told("Empty") ELSE Own(c)

IInv == /\ TypeOK /\ QueueInv /\ OnePlace /\ AsyncInv /\ CountInv /\ SequentialInv
        /\ \A c \in Calls : CallInv(c)

-----------------------------------------------------------------------------
(* Queues *)

\* put and get of a queue.
LEMMA Put ==
    ASSUME NEW S, NEW s \in Seq(S), NEW m \in S
    PROVE  /\ Append(s, m) \in Seq(S) /\ Len(Append(s, m)) = Len(s) + 1
           /\ Append(s, m)[Len(s) + 1] = m
           /\ \A i \in 1..Len(s) : Append(s, m)[i] = s[i]
OBVIOUS

LEMMA Take ==
    ASSUME NEW S, NEW s \in Seq(S), s # <<>>
    PROVE  /\ Head(s) = s[1] /\ Head(s) \in S /\ Len(s) \in Nat /\ 1 \in 1..Len(s)
           /\ Tail(s) \in Seq(S) /\ Len(Tail(s)) = Len(s) - 1
           /\ \A i \in 1..Len(Tail(s)) : Tail(s)[i] = s[i + 1] /\ i + 1 \in 1..Len(s)
OBVIOUS

-----------------------------------------------------------------------------

LEMMA InitInv == Init => IInv
<1> SUFFICES ASSUME Init PROVE IInv
  OBVIOUS
<1>1. TypeOK
  <2>1. <<>> \in Seq(Messages)
    OBVIOUS
  <2>2. shared \in Seq(Messages) /\ private \in [Calls -> Seq(Messages)]
    BY <2>1 DEF Init
  <2>3. waited \in [Calls -> 0..Polls] /\ interrupts \in 0..MaxInterrupts
    BY CoroThreadAssumption DEF Init
  <2>4. answer \in [Calls -> {None} \cup Messages \cup {Told(f) : f \in Failures}]
    BY DEF Init
  <2> QED
    BY <2>2, <2>3, <2>4 DEF Init, TypeOK
<1>6. \A c \in Calls : CallInv(c)
  BY DEF Init, CallInv
<1>2. QueueInv /\ OnePlace /\ AsyncInv
  BY DEF Init, QueueInv, SharedInv, PrivateInv, AnswerInv, OnePlace, SharedOnce,
         AnswersOnce, NotInShared, NotPrivate, AsyncInv, Answered
<1>3. Started = {} /\ Running = {} /\ Interrupted = {} /\ SyncBusy = {}
  BY DEF Init, Started, Running, Interrupted, SyncBusy
<1>4. CountInv
  BY <1>3, FS_EmptySet DEF Init, CountInv
<1>5. SequentialInv
  BY <1>3 DEF Init, SequentialInv, Done
<1> QED
  BY <1>1, <1>2, <1>4, <1>5, <1>6 DEF IInv

LEMMA TypeKeeps == TypeOK /\ [Next]_vars => TypeOK'
<1> SUFFICES ASSUME TypeOK, [Next]_vars PROVE TypeOK'
  OBVIOUS
<1> USE DEF TypeOK
<1>1. CASE UNCHANGED vars
  BY <1>1 DEF vars
<1>2. ASSUME NEW c \in Calls, StartSync(c) \/ StartAsync(c) PROVE TypeOK'
  BY <1>2 DEF StartSync, StartAsync, StartThread
<1>3. ASSUME NEW c \in Calls, Interrupt(c) PROVE TypeOK'
  BY <1>3, CoroThreadAssumption DEF Interrupt, Answer, Failures
<1>4. ASSUME NEW c \in Calls, Finish(c) PROVE TypeOK'
  <2>1. PICK o \in Outcomes \ {"base"} : out' = [out EXCEPT ![c] = o] /\ Output(c, [call |-> c, what |-> o])
    BY <1>4 DEF Finish
  <2>2. [call |-> c, what |-> o] \in Messages
    BY DEF Messages
  <2>3. shared' \in Seq(Messages) /\ private' \in [Calls -> Seq(Messages)]
    <3>1. CASE kind[c] = "sync"
      <4>1. Append(shared, [call |-> c, what |-> o]) \in Seq(Messages)
        BY <2>2, Put
      <4> QED
        BY <2>1, <3>1, <4>1 DEF Output
    <3>2. CASE kind[c] # "sync"
      <4>1. Append(private[c], [call |-> c, what |-> o]) \in Seq(Messages)
        BY <2>2, Put
      <4> QED
        BY <2>1, <3>2, <4>1 DEF Output
    <3> QED
      BY <3>1, <3>2
  <2> QED
    BY <1>4, <2>1, <2>3 DEF Finish
<1>5. ASSUME NEW c \in Calls, Escape(c) PROVE TypeOK'
  BY <1>5 DEF Escape, Outcomes
<1>6. ASSUME NEW c \in Calls, Join(c) PROVE TypeOK'
  BY <1>6 DEF Join
<1>7. ASSUME NEW c \in Calls, Get(c) PROVE TypeOK'
  <2>1. Head(shared) \in Messages /\ Tail(shared) \in Seq(Messages)
    BY <1>7, Take DEF Get
  <2> QED
    BY <1>7, <2>1 DEF Get, Answer
<1>8. ASSUME NEW c \in Calls, GetTimeout(c) PROVE TypeOK'
  BY <1>8 DEF GetTimeout, Answer, Failures
<1>9. ASSUME NEW c \in Calls, PollEmpty(c) PROVE TypeOK'
  BY <1>9, CoroThreadAssumption DEF PollEmpty
<1>10. ASSUME NEW c \in Calls, PollResult(c) PROVE TypeOK'
  <2>1. Head(private[c]) \in Messages /\ Tail(private[c]) \in Seq(Messages)
    BY <1>10, Take DEF PollResult, HasResult
  <2> QED
    BY <1>10, <2>1 DEF PollResult, Answer
<1>11. ASSUME NEW c \in Calls, PollTimeout(c) PROVE TypeOK'
  BY <1>11 DEF PollTimeout, Answer, Failures
<1>12. ASSUME NEW c \in Calls, JoinAsync(c) PROVE TypeOK'
  BY <1>12 DEF JoinAsync
<1> QED
  BY <1>1, <1>2, <1>3, <1>4, <1>5, <1>6, <1>7, <1>8, <1>9, <1>10, <1>11, <1>12
  DEF Next, ThreadStep, CallerStep

-----------------------------------------------------------------------------
(* Where each call is *)

\* A call keeps its place when a step changes nothing of it.
LEMMA OthersKeep ==
    ASSUME NEW d \in Calls, CallInv(d), pc'[d] = pc[d], thread'[d] = thread[d], out'[d] = out[d],
           kind'[d] = kind[d], answer'[d] = answer[d]
    PROVE  CallInv(d)'
BY DEF CallInv, Interrupted

LEMMA CallsKeep ==
    ASSUME TypeOK, \A c \in Calls : CallInv(c), [Next]_vars
    PROVE  \A c \in Calls : CallInv(c)'
<1> USE DEF TypeOK
<1>1. CASE UNCHANGED vars
  BY <1>1, OthersKeep DEF vars
<1>2. ASSUME NEW c \in Calls, StartSync(c) \/ StartAsync(c) PROVE \A d \in Calls : CallInv(d)'
  <2>1. CallInv(c)'
    BY <1>2 DEF CallInv, Interrupted, StartSync, StartAsync, StartThread
  <2>2. \A d \in Calls \ {c} : CallInv(d)'
    BY <1>2, OthersKeep DEF StartSync, StartAsync, StartThread
  <2> QED
    BY <2>1, <2>2
<1>3. ASSUME NEW c \in Calls, Interrupt(c) PROVE \A d \in Calls : CallInv(d)'
  <2>1. CallInv(c)'
    BY <1>3 DEF CallInv, Interrupted, Interrupt, Answer, SyncBusy
  <2>2. \A d \in Calls \ {c} : CallInv(d)'
    BY <1>3, OthersKeep DEF Interrupt, Answer, SyncBusy
  <2> QED
    BY <2>1, <2>2
<1>4. ASSUME NEW c \in Calls, Finish(c) PROVE \A d \in Calls : CallInv(d)'
  <2>1. CallInv(c)'
    BY <1>4 DEF CallInv, Interrupted, Finish
  <2>2. \A d \in Calls \ {c} : CallInv(d)'
    BY <1>4, OthersKeep DEF Finish
  <2> QED
    BY <2>1, <2>2
<1>5. ASSUME NEW c \in Calls, Escape(c) PROVE \A d \in Calls : CallInv(d)'
  <2>1. CallInv(c)'
    BY <1>5 DEF CallInv, Interrupted, Escape, Outcomes
  <2>2. \A d \in Calls \ {c} : CallInv(d)'
    BY <1>5, OthersKeep DEF Escape, Outcomes
  <2> QED
    BY <2>1, <2>2
<1>6. ASSUME NEW c \in Calls, Join(c) PROVE \A d \in Calls : CallInv(d)'
  <2>1. CallInv(c)'
    BY <1>6 DEF CallInv, Interrupted, Join
  <2>2. \A d \in Calls \ {c} : CallInv(d)'
    BY <1>6, OthersKeep DEF Join
  <2> QED
    BY <2>1, <2>2
<1>7. ASSUME NEW c \in Calls, Get(c) \/ GetTimeout(c) PROVE \A d \in Calls : CallInv(d)'
  <2>1. CallInv(c)'
    BY <1>7 DEF CallInv, Interrupted, Get, GetTimeout, Answer
  <2>2. \A d \in Calls \ {c} : CallInv(d)'
    BY <1>7, OthersKeep DEF Get, GetTimeout, Answer
  <2> QED
    BY <2>1, <2>2
<1>8. ASSUME NEW c \in Calls, PollEmpty(c) PROVE \A d \in Calls : CallInv(d)'
  BY <1>8, OthersKeep DEF PollEmpty
<1>9. ASSUME NEW c \in Calls, PollResult(c) PROVE \A d \in Calls : CallInv(d)'
  <2>1. CallInv(c)'
    BY <1>9 DEF CallInv, Interrupted, PollResult, Answer
  <2>2. \A d \in Calls \ {c} : CallInv(d)'
    BY <1>9, OthersKeep DEF PollResult, Answer
  <2> QED
    BY <2>1, <2>2
<1>10. ASSUME NEW c \in Calls, PollTimeout(c) PROVE \A d \in Calls : CallInv(d)'
  <2>1. CallInv(c)'
    BY <1>10 DEF CallInv, Interrupted, PollTimeout, Answer
  <2>2. \A d \in Calls \ {c} : CallInv(d)'
    BY <1>10, OthersKeep DEF PollTimeout, Answer
  <2> QED
    BY <2>1, <2>2
<1>11. ASSUME NEW c \in Calls, JoinAsync(c) PROVE \A d \in Calls : CallInv(d)'
  <2>1. CallInv(c)'
    BY <1>11 DEF CallInv, Interrupted, JoinAsync
  <2>2. \A d \in Calls \ {c} : CallInv(d)'
    BY <1>11, OthersKeep DEF JoinAsync
  <2> QED
    BY <2>1, <2>2
<1> QED
  BY <1>1, <1>2, <1>3, <1>4, <1>5, <1>6, <1>7, <1>8, <1>9, <1>10, <1>11
  DEF Next, ThreadStep, CallerStep

-----------------------------------------------------------------------------
(* How many results are to come *)

\* The three counted sets are made of calls that have begun.
LEMMA Counted ==
    ASSUME TypeOK, CountInv, \A c \in Calls : CallInv(c)
    PROVE  /\ IsFiniteSet(Running) /\ IsFiniteSet(SyncBusy) /\ IsFiniteSet(Interrupted)
           /\ Cardinality(Running) \in Nat /\ Cardinality(SyncBusy) \in Nat
           /\ Cardinality(Interrupted) \in Nat
           /\ Len(shared) \in Nat /\ interrupts \in Nat
<1>1. Running \subseteq Started /\ SyncBusy \subseteq Started /\ Interrupted \subseteq Started
  BY DEF TypeOK, CallInv, Running, SyncBusy, Interrupted, Started
<1>2. IsFiniteSet(Running) /\ IsFiniteSet(SyncBusy) /\ IsFiniteSet(Interrupted)
  BY <1>1, FS_Subset DEF CountInv
<1>3. Len(shared) \in Nat /\ interrupts \in Nat
  BY CoroThreadAssumption DEF TypeOK
<1> QED
  BY <1>2, <1>3, FS_CardinalityType

\* When the queue is empty and c gives up, its own thread has ended, so that each of
\* the threads still running has a caller that waits or was interrupted.
LEMMA NobodyForgotten ==
    ASSUME TypeOK, CountInv, \A c \in Calls : CallInv(c), NEW c \in Calls, pc[c] = "get"
    PROVE  Cardinality(Running) <= Cardinality(SyncBusy \ {c}) + Cardinality(Interrupted)
<1>1. Running \subseteq (SyncBusy \ {c}) \cup Interrupted
  BY DEF TypeOK, CallInv, Running, SyncBusy
<1>2. IsFiniteSet(SyncBusy \ {c}) /\ IsFiniteSet(Interrupted)
  BY Counted, FS_Difference
<1>3. Cardinality((SyncBusy \ {c}) \cup Interrupted)
        = Cardinality(SyncBusy \ {c}) + Cardinality(Interrupted)
            - Cardinality((SyncBusy \ {c}) \cap Interrupted)
  BY <1>2, FS_Union
<1>4. Cardinality(Running) <= Cardinality((SyncBusy \ {c}) \cup Interrupted)
  BY <1>1, <1>2, FS_Union, FS_Subset
<1>5. IsFiniteSet((SyncBusy \ {c}) \cap Interrupted) /\ IsFiniteSet((SyncBusy \ {c}) \cup Interrupted)
  BY <1>2, FS_Intersection, FS_Union
<1>6. /\ Cardinality((SyncBusy \ {c}) \cap Interrupted) \in Nat
      /\ Cardinality(SyncBusy \ {c}) \in Nat /\ Cardinality(Interrupted) \in Nat
      /\ Cardinality(Running) \in Nat /\ Cardinality((SyncBusy \ {c}) \cup Interrupted) \in Nat
  BY <1>2, <1>5, Counted, FS_CardinalityType
<1> QED
  BY <1>3, <1>4, <1>6

\* A coroutine's outcome is not an interrupt.
LEMMA NotInterrupted == \A m \in Messages : m # Told("KeyboardInterrupt")
BY DEF Messages, Outcomes, Told

LEMMA CountsKeep ==
    ASSUME TypeOK, QueueInv, AsyncInv, CountInv, \A c \in Calls : CallInv(c), [Next]_vars
    PROVE  CountInv'
<1> USE DEF TypeOK
<1>1. CASE UNCHANGED vars
  BY <1>1 DEF vars, CountInv, Started, Running, SyncBusy, Interrupted
<1>2. ASSUME NEW c \in Calls, StartSync(c) PROVE CountInv'
  <2>1. /\ c \notin Running /\ Running' = Running \cup {c}
        /\ c \notin SyncBusy /\ SyncBusy' = SyncBusy \cup {c}
        /\ Started' = Started \cup {c} /\ Interrupted' = Interrupted
    BY <1>2 DEF StartSync, StartThread, CallInv, Running, SyncBusy, Started, Interrupted
  <2>2. /\ Cardinality(Running') = Cardinality(Running) + 1
        /\ Cardinality(SyncBusy') = Cardinality(SyncBusy) + 1
        /\ IsFiniteSet(Started')
    BY <2>1, Counted, FS_AddElement DEF CountInv
  <2> QED
    BY <1>2, <2>1, <2>2, Counted DEF CountInv, StartSync
<1>3. ASSUME NEW c \in Calls, StartAsync(c) PROVE CountInv'
  <2>1. /\ Running' = Running /\ SyncBusy' = SyncBusy
        /\ Started' = Started \cup {c} /\ Interrupted' = Interrupted
    BY <1>3 DEF StartAsync, StartThread, CallInv, Running, SyncBusy, Started, Interrupted
  <2> QED
    BY <1>3, <2>1, FS_AddElement DEF CountInv, StartAsync
<1>4. ASSUME NEW c \in Calls, Interrupt(c) PROVE CountInv'
  <2>1. /\ Running' = Running
        /\ c \in SyncBusy /\ SyncBusy' = SyncBusy \ {c}
        /\ Started' = Started
        /\ c \notin Interrupted /\ Interrupted' = Interrupted \cup {c}
    BY <1>4 DEF Interrupt, Answer, Running, SyncBusy, Started, Interrupted
  <2>2. /\ Cardinality(Interrupted') = Cardinality(Interrupted) + 1
        /\ Cardinality(SyncBusy') = Cardinality(SyncBusy) - 1
    BY <2>1, Counted, FS_AddElement, FS_RemoveElement
  <2> QED
    BY <1>4, <2>1, <2>2, Counted DEF CountInv, Interrupt
<1>5. ASSUME NEW c \in Calls, Finish(c) PROVE CountInv'
  <2>1. /\ SyncBusy' = SyncBusy /\ Started' = Started /\ Interrupted' = Interrupted
        /\ Running' = Running \ {c}
    BY <1>5 DEF Finish, Running, SyncBusy, Started, Interrupted
  <2>2. PICK o \in Outcomes : Output(c, [call |-> c, what |-> o])
    BY <1>5 DEF Finish
  <2>3. CASE kind[c] = "sync"
    <3>1. c \in Running
      BY <1>5, <2>3 DEF Finish, Running
    <3>2. Cardinality(Running') = Cardinality(Running) - 1
      BY <2>1, <3>1, Counted, FS_RemoveElement
    <3>3. Len(shared') = Len(shared) + 1
      BY <2>2, <2>3 DEF Output
    <3> QED
      BY <1>5, <2>1, <3>2, <3>3, Counted DEF CountInv, Finish
  <2>4. CASE kind[c] # "sync"
    <3>1. Running' = Running /\ shared' = shared
      BY <2>1, <2>2, <2>4 DEF Running, Output
    <3> QED
      BY <1>5, <2>1, <3>1 DEF CountInv, Finish
  <2> QED
    BY <2>3, <2>4
<1>6. ASSUME NEW c \in Calls, Escape(c) PROVE CountInv'
  <2>1. /\ SyncBusy' = SyncBusy /\ Started' = Started /\ Interrupted' = Interrupted
        /\ Running' \subseteq Running
    BY <1>6 DEF Escape, Running, SyncBusy, Started, Interrupted
  <2>2. Cardinality(Running') <= Cardinality(Running) /\ Cardinality(Running') \in Nat
    BY <2>1, Counted, FS_Subset, FS_CardinalityType
  <2> QED
    BY <1>6, <2>1, <2>2, Counted DEF CountInv, Escape
<1>7. ASSUME NEW c \in Calls, Join(c) PROVE CountInv'
  <2>1. /\ SyncBusy' = SyncBusy /\ Started' = Started /\ Interrupted' = Interrupted
        /\ Running' = Running
    BY <1>7 DEF Join, CallInv, Running, SyncBusy, Started, Interrupted
  <2> QED
    BY <1>7, <2>1 DEF CountInv, Join
<1>8. ASSUME NEW c \in Calls, Get(c) PROVE CountInv'
  <2>1. Head(shared) # Told("KeyboardInterrupt") /\ Len(shared') = Len(shared) - 1
    BY <1>8, Take, NotInterrupted DEF Get
  <2>2. /\ c \in SyncBusy /\ SyncBusy' = SyncBusy \ {c}
        /\ Started' = Started /\ Interrupted' = Interrupted /\ Running' = Running
    BY <1>8, <2>1 DEF Get, Answer, CallInv, Running, SyncBusy, Started, Interrupted
  <2>3. Cardinality(SyncBusy') = Cardinality(SyncBusy) - 1
    BY <2>2, Counted, FS_RemoveElement
  <2> QED
    BY <1>8, <2>1, <2>2, <2>3, Counted DEF CountInv, Get
<1>9. ASSUME NEW c \in Calls, GetTimeout(c) PROVE CountInv'
  <2>1. /\ SyncBusy' = SyncBusy \ {c}
        /\ Started' = Started /\ Interrupted' = Interrupted /\ Running' = Running
    BY <1>9 DEF GetTimeout, Answer, Told, CallInv, Running, SyncBusy, Started, Interrupted
  <2>2. Cardinality(Running) <= Cardinality(SyncBusy \ {c}) + Cardinality(Interrupted)
    BY <1>9, NobodyForgotten DEF GetTimeout
  <2>3. shared' = <<>> /\ Len(shared') = 0
    BY <1>9 DEF GetTimeout
  <2> QED
    BY <1>9, <2>1, <2>2, <2>3, Counted DEF CountInv, GetTimeout
<1>10. ASSUME NEW c \in Calls, PollEmpty(c) \/ PollResult(c) \/ PollTimeout(c) PROVE CountInv'
  <2>1. PollResult(c) => Head(private[c]) # Told("KeyboardInterrupt")
    BY Take, NotInterrupted DEF PollResult, HasResult
  <2>2. /\ SyncBusy' = SyncBusy /\ Started' = Started /\ Interrupted' = Interrupted
        /\ Running' = Running
    BY <1>10, <2>1 DEF PollEmpty, PollResult, PollTimeout, Answer, Told, CallInv, Running,
                       SyncBusy, Started, Interrupted
  <2> QED
    BY <1>10, <2>2 DEF CountInv, PollEmpty, PollResult, PollTimeout
<1>11. ASSUME NEW c \in Calls, JoinAsync(c) PROVE CountInv'
  <2>1. answer[c] # Told("KeyboardInterrupt")
    <3>1. answer[c] = Told("TimeoutError") \/ (answer[c] = Own(c) /\ out[c] \in Outcomes)
      <4>1. Answered(c) /\ kind[c] = "async" /\ (thread[c] = "dead" => out[c] \in Outcomes)
        BY <1>11 DEF JoinAsync, CallInv, Answered
      <4> QED
        BY <4>1 DEF AsyncInv
    <3> QED
      BY <3>1, NotInterrupted DEF Told, Own, Messages
  <2>2. /\ SyncBusy' = SyncBusy /\ Started' = Started /\ Interrupted' = Interrupted
        /\ Running' = Running
    BY <1>11, <2>1 DEF JoinAsync, CallInv, Running, SyncBusy, Started, Interrupted
  <2> QED
    BY <1>11, <2>2 DEF CountInv, JoinAsync
<1> QED
  BY <1>1, <1>2, <1>3, <1>4, <1>5, <1>6, <1>7, <1>8, <1>9, <1>10, <1>11
  DEF Next, ThreadStep, CallerStep

-----------------------------------------------------------------------------
(* What the queues hold *)

\* The outcome of a thread that has ended does not change any more.
LEMMA DeadStay ==
    ASSUME TypeOK, \A c \in Calls : CallInv(c), [Next]_vars, NEW d \in Calls, thread[d] = "dead"
    PROVE  thread'[d] = "dead" /\ out'[d] = out[d] /\ kind'[d] = kind[d] /\ Own(d)' = Own(d)
<1> USE DEF TypeOK, Own
<1>1. CASE UNCHANGED vars
  BY <1>1 DEF vars
<1>2. ASSUME NEW c \in Calls, StartSync(c) \/ StartAsync(c)
      PROVE thread'[d] = "dead" /\ out'[d] = out[d] /\ kind'[d] = kind[d]
  BY <1>2 DEF CallInv, StartSync, StartAsync, StartThread
<1>3. ASSUME NEW c \in Calls, Interrupt(c) \/ ThreadStep(c) \/ CallerStep(c)
      PROVE thread'[d] = "dead" /\ out'[d] = out[d] /\ kind'[d] = kind[d]
  BY <1>3 DEF Interrupt, ThreadStep, Finish, Escape, CallerStep, Join, Get, GetTimeout, PollEmpty,
     PollResult, PollTimeout, JoinAsync
<1> QED
  BY <1>1, <1>2, <1>3 DEF Next

\* The only item of a queue.
LEMMA Single == \A x : Head(<<x>>) = x /\ Tail(<<x>>) = <<>> /\ <<x>> # <<>>
OBVIOUS

LEMMA OutcomesStay ==
    ASSUME TypeOK, \A c \in Calls : CallInv(c), [Next]_vars, NEW m, OutcomeOf(m)
    PROVE  OutcomeOf(m)' /\ kind'[m.call] = kind[m.call]
BY DeadStay DEF OutcomeOf

\* What a thread puts on a queue when it ends: an outcome nobody has seen.
LEMMA NewOutcome ==
    ASSUME TypeOK, \A c \in Calls : CallInv(c), NEW c \in Calls, Finish(c)
    PROVE  \E m \in Messages : /\ Output(c, m) /\ m.call = c /\ m = Own(c)' /\ OutcomeOf(m)'
                               /\ ~OutcomeOf(m) /\ kind' = kind /\ pc' = pc /\ answer' = answer
<1>1. PICK o \in Outcomes \ {"base"} : out' = [out EXCEPT ![c] = o] /\ Output(c, [call |-> c, what |-> o])
  BY DEF Finish
<1>2. [call |-> c, what |-> o] \in Messages
  BY DEF Messages
<1>3. Own(c)' = [call |-> c, what |-> o] /\ thread[c] = "running" /\ thread'[c] = "dead"
  BY <1>1 DEF Finish, TypeOK, Own
<1> QED
  BY <1>1, <1>2, <1>3 DEF Finish, OutcomeOf

LEMMA SharedKeeps ==
    ASSUME TypeOK, QueueInv, \A c \in Calls : CallInv(c), [Next]_vars
    PROVE  SharedInv'
<1>1. CASE UNCHANGED shared
  BY <1>1, OutcomesStay DEF QueueInv, SharedInv, OutcomeOf
<1>2. ASSUME NEW c \in Calls, Finish(c) PROVE SharedInv'
  <2>1. PICK m \in Messages : Output(c, m) /\ m.call = c /\ OutcomeOf(m)' /\ kind' = kind
    BY <1>2, NewOutcome
  <2>2. CASE kind[c] = "sync"
    <3>1. shared' = Append(shared, m)
      BY <2>1, <2>2 DEF Output
    <3>2. ASSUME NEW i \in 1..Len(shared') PROVE (OutcomeOf(shared[i]) /\ kind[shared[i].call] = "sync")'
      <4>1. i \in 1..Len(shared) \/ i = Len(shared) + 1
        BY <3>1 DEF TypeOK
      <4>2. CASE i \in 1..Len(shared)
        <5>1. shared'[i] = shared[i]
          BY <3>1, <4>2, Put DEF TypeOK
        <5> QED
          BY <4>2, <5>1, OutcomesStay DEF QueueInv, SharedInv, OutcomeOf
      <4>3. CASE i = Len(shared) + 1
        <5>1. shared'[i] = m
          BY <3>1, <4>3, Put DEF TypeOK
        <5> QED
          BY <2>1, <2>2, <5>1 DEF OutcomeOf
      <4> QED
        BY <4>1, <4>2, <4>3
    <3> QED
      BY <3>2 DEF SharedInv
  <2>3. CASE kind[c] # "sync"
    BY <1>1, <2>1, <2>3 DEF Output
  <2> QED
    BY <2>2, <2>3
<1>3. ASSUME NEW c \in Calls, Get(c) PROVE SharedInv'
  <2>1. shared # <<>> /\ shared' = Tail(shared)
    BY <1>3 DEF Get
  <2>2. \A i \in 1..Len(shared') : i + 1 \in 1..Len(shared) /\ shared'[i] = shared[i + 1]
    BY <2>1, Take DEF TypeOK
  <2> QED
    BY <2>2, OutcomesStay DEF QueueInv, SharedInv, OutcomeOf
<1> QED
  BY <1>1, <1>2, <1>3
  DEF Next, vars, StartSync, StartAsync, Interrupt, ThreadStep, Escape, CallerStep, Join, GetTimeout,
      PollEmpty, PollResult, PollTimeout, JoinAsync

LEMMA PrivateKeeps ==
    ASSUME TypeOK, QueueInv, \A c \in Calls : CallInv(c), [Next]_vars
    PROVE  PrivateInv'
<1>1. \A d \in Calls : private'[d] \in {private[d], <<>>} =>
          /\ private'[d] \in {<<>>, <<Own(d)'>>}
          /\ private'[d] # <<>> => kind'[d] = "async" /\ thread'[d] = "dead"
  BY DeadStay DEF QueueInv, PrivateInv
<1>2. CASE UNCHANGED private
  BY <1>1, <1>2 DEF PrivateInv
<1>3. ASSUME NEW c \in Calls, Finish(c) PROVE PrivateInv'
  <2>1. PICK m \in Messages : Output(c, m) /\ m = Own(c)' /\ kind' = kind
    BY <1>3, NewOutcome
  <2>2. CASE kind[c] = "sync"
    BY <1>2, <2>1, <2>2 DEF Output
  <2>3. CASE kind[c] # "sync"
    <3>1. private[c] = <<>>
      BY <1>3 DEF QueueInv, PrivateInv, Finish
    <3>2. private' = [private EXCEPT ![c] = <<Own(c)'>>]
      BY <2>1, <2>3, <3>1 DEF Output
    <3>3. thread'[c] = "dead" /\ kind'[c] = "async"
      BY <1>3, <2>1, <2>3 DEF Finish, TypeOK, CallInv
    <3> QED
      BY <1>1, <3>2, <3>3 DEF PrivateInv, TypeOK
  <2> QED
    BY <2>2, <2>3
<1>4. ASSUME NEW c \in Calls, PollEmpty(c) \/ PollResult(c) PROVE PrivateInv'
  <2>1. PollResult(c) => Tail(private[c]) = <<>>
    BY Single DEF PollResult, HasResult, QueueInv, PrivateInv
  <2>2. \A d \in Calls : private'[d] \in {private[d], <<>>}
    BY <1>4, <2>1 DEF PollEmpty, PollResult, TypeOK
  <2> QED
    BY <1>1, <2>2 DEF PrivateInv
<1> QED
  BY <1>2, <1>3, <1>4
  DEF Next, vars, StartSync, StartAsync, Interrupt, ThreadStep, Escape, CallerStep, Join, Get,
      GetTimeout, PollTimeout, JoinAsync

\* What a caller takes from a queue.
LEMMA Taken ==
    ASSUME TypeOK, QueueInv, NEW c \in Calls
    PROVE  /\ Get(c) => /\ Head(shared) \in Messages /\ OutcomeOf(Head(shared))
                        /\ kind[Head(shared).call] = "sync"
           /\ PollResult(c) => /\ Head(private[c]) = Own(c) /\ Own(c) \in Messages
                               /\ OutcomeOf(Own(c)) /\ kind[c] = "async" /\ private[c] # <<>>
<1>1. ASSUME Get(c)
      PROVE  /\ Head(shared) \in Messages /\ OutcomeOf(Head(shared))
             /\ kind[Head(shared).call] = "sync"
  <2>1. Head(shared) \in Messages /\ Head(shared) = shared[1] /\ 1 \in 1..Len(shared)
    BY <1>1, Take DEF Get, TypeOK
  <2> QED
    BY <2>1 DEF QueueInv, SharedInv
<1>2. ASSUME PollResult(c)
      PROVE  /\ Head(private[c]) = Own(c) /\ Own(c) \in Messages
             /\ OutcomeOf(Own(c)) /\ kind[c] = "async" /\ private[c] # <<>>
  <2>1. private[c] # <<>> /\ private[c] = <<Own(c)>> /\ kind[c] = "async" /\ thread[c] = "dead"
    BY <1>2 DEF PollResult, HasResult, QueueInv, PrivateInv
  <2>2. Head(private[c]) = Own(c) /\ Head(private[c]) \in Messages
    BY <2>1, Single, Take DEF TypeOK
  <2> QED
    BY <2>1, <2>2 DEF OutcomeOf, Own
<1> QED
  BY <1>1, <1>2

\* Which calls are answered, and with what, after a step.
LEMMA AnswersChange ==
    ASSUME TypeOK, \A c \in Calls : CallInv(c), [Next]_vars, NEW d \in Calls, Answered(d)'
    PROVE  \/ Answered(d) /\ answer'[d] = answer[d]
           \/ /\ answer'[d] \in {Told(f) : f \in Failures}
              /\ kind[d] = "async" => answer'[d] = Told("TimeoutError")
           \/ Get(d) /\ answer'[d] = Head(shared)
           \/ PollResult(d) /\ answer'[d] = Head(private[d])
<1> USE DEF TypeOK, Answered
<1>1. CASE UNCHANGED vars
  BY <1>1 DEF vars
<1>2. ASSUME NEW c \in Calls, StartSync(c) \/ StartAsync(c)
      PROVE Answered(d) /\ answer'[d] = answer[d]
  BY <1>2 DEF StartSync, StartAsync, StartThread
<1>3. ASSUME NEW c \in Calls, Interrupt(c) \/ GetTimeout(c) \/ PollTimeout(c)
      PROVE \/ Answered(d) /\ answer'[d] = answer[d]
            \/ /\ answer'[d] \in {Told(f) : f \in Failures}
               /\ kind[d] = "async" => answer'[d] = Told("TimeoutError")
  BY <1>3 DEF Interrupt, SyncBusy, GetTimeout, CallInv, PollTimeout, Answer, Failures
<1>4. ASSUME NEW c \in Calls, ThreadStep(c) \/ Join(c) \/ PollEmpty(c) \/ JoinAsync(c)
      PROVE Answered(d) /\ answer'[d] = answer[d]
  BY <1>4 DEF ThreadStep, Finish, Escape, Join, PollEmpty, JoinAsync
<1>5. ASSUME NEW c \in Calls, Get(c)
      PROVE (Answered(d) /\ answer'[d] = answer[d]) \/ (Get(d) /\ answer'[d] = Head(shared))
  <2>1. CASE c = d
    BY <1>5, <2>1 DEF Get, Answer
  <2>2. CASE c # d
    BY <1>5, <2>2 DEF Get, Answer
  <2> QED
    BY <2>1, <2>2
<1>6. ASSUME NEW c \in Calls, PollResult(c)
      PROVE (Answered(d) /\ answer'[d] = answer[d]) \/ (PollResult(d) /\ answer'[d] = Head(private[d]))
  <2>1. CASE c = d
    BY <1>6, <2>1 DEF PollResult, Answer
  <2>2. CASE c # d
    BY <1>6, <2>2 DEF PollResult, Answer
  <2> QED
    BY <2>1, <2>2
<1> QED
  BY <1>1, <1>2, <1>3, <1>4, <1>5, <1>6 DEF Next, CallerStep

LEMMA AnswersKeep ==
    ASSUME TypeOK, QueueInv, \A c \in Calls : CallInv(c), [Next]_vars
    PROVE  AnswerInv'
<1> SUFFICES ASSUME NEW d \in Calls, Answered(d)'
             PROVE  \/ answer'[d] \in {Told(f) : f \in Failures}
                    \/ (answer'[d] \in Messages /\ OutcomeOf(answer[d])')
  BY DEF AnswerInv, Told, Failures
<1>1. CASE Answered(d) /\ answer'[d] = answer[d]
  BY <1>1, OutcomesStay DEF QueueInv, AnswerInv, OutcomeOf
<1>2. CASE Get(d) /\ answer'[d] = Head(shared)
  BY <1>2, Taken, OutcomesStay DEF OutcomeOf
<1>3. CASE PollResult(d) /\ answer'[d] = Head(private[d])
  BY <1>3, Taken, OutcomesStay DEF OutcomeOf
<1> QED
  BY AnswersChange, <1>1, <1>2, <1>3

-----------------------------------------------------------------------------
(* Where an outcome is *)

LEMMA FailuresApart == \A m \in Messages : m \notin {Told(f) : f \in Failures}
BY DEF Messages, Outcomes, Failures, Told

\* Only one call takes something in a step.
LEMMA OneTaker ==
    ASSUME TypeOK, NEW c \in Calls, Get(c) \/ PollResult(c), NEW d \in Calls, d # c, Answered(d)'
    PROVE  Answered(d) /\ answer'[d] = answer[d]
BY DEF TypeOK, Answered, Get, PollResult, Answer

LEMMA SharedOnceKeeps ==
    ASSUME TypeOK, QueueInv, OnePlace, \A c \in Calls : CallInv(c), [Next]_vars
    PROVE  SharedOnce'
<1>1. CASE UNCHANGED shared
  BY <1>1 DEF OnePlace, SharedOnce
<1>2. ASSUME NEW c \in Calls, Finish(c) PROVE SharedOnce'
  <2>1. PICK m \in Messages : Output(c, m) /\ ~OutcomeOf(m)
    BY <1>2, NewOutcome
  <2>2. CASE shared' = Append(shared, m)
    <3>1. \A i \in 1..Len(shared') : \/ i \in 1..Len(shared) /\ shared'[i] = shared[i] /\ shared[i] # m
                                     \/ i = Len(shared) + 1 /\ shared'[i] = m
      BY <2>1, <2>2, Put DEF TypeOK, QueueInv, SharedInv
    <3> QED
      BY <3>1 DEF OnePlace, SharedOnce
  <2> QED
    BY <1>1, <2>1, <2>2 DEF Output
<1>3. ASSUME NEW c \in Calls, Get(c) PROVE SharedOnce'
  <2>1. shared # <<>> /\ shared' = Tail(shared)
    BY <1>3 DEF Get
  <2>2. \A i \in 1..Len(shared') : i + 1 \in 1..Len(shared) /\ shared'[i] = shared[i + 1]
    BY <2>1, Take DEF TypeOK
  <2>3. \A i, j \in 1..Len(shared') : i # j => i + 1 # j + 1
    BY <2>1, Take DEF TypeOK
  <2> QED
    BY <2>2, <2>3 DEF OnePlace, SharedOnce
<1> QED
  BY <1>1, <1>2, <1>3
  DEF Next, vars, StartSync, StartAsync, Interrupt, ThreadStep, Escape, CallerStep, Join, GetTimeout,
      PollEmpty, PollResult, PollTimeout, JoinAsync

LEMMA AnswersOnceKeeps ==
    ASSUME TypeOK, QueueInv, OnePlace, \A c \in Calls : CallInv(c), [Next]_vars
    PROVE  AnswersOnce'
<1>1. ASSUME NEW c \in Calls, NEW d \in Calls, c # d, Answered(c)', Answered(d)', Get(c)
      PROVE  answer'[c] # answer'[d]
  <2>1. answer'[d] = answer[d] /\ Answered(d)
    BY <1>1, OneTaker
  <2>2. answer'[c] = shared[1] /\ 1 \in 1..Len(shared)
    BY <1>1, Take DEF Get, Answer, TypeOK
  <2> QED
    BY <2>1, <2>2 DEF OnePlace, NotInShared
<1>2. ASSUME NEW c \in Calls, NEW d \in Calls, c # d, Answered(c)', Answered(d)', PollResult(c)
      PROVE  answer'[c] # answer'[d]
  <2>1. answer'[d] = answer[d] /\ Answered(d)
    BY <1>2, OneTaker
  <2>2. answer'[c] = Own(c) /\ private[c] # <<>>
    BY <1>2, Taken DEF PollResult, Answer, TypeOK
  <2> QED
    BY <2>1, <2>2 DEF OnePlace, NotPrivate
<1>3. ASSUME NEW c \in Calls, NEW d \in Calls, c # d, Answered(c)', Answered(d)',
             answer'[c] \in Messages
      PROVE  answer'[c] # answer'[d]
  <2>1. CASE Get(c) \/ PollResult(c) \/ Get(d) \/ PollResult(d)
    BY <1>1, <1>2, <1>3, <2>1
  <2>2. CASE ~(Get(c) \/ PollResult(c) \/ Get(d) \/ PollResult(d))
    <3>1. Answered(c) /\ answer'[c] = answer[c]
      BY <1>3, <2>2, AnswersChange, FailuresApart
    <3>2. (Answered(d) /\ answer'[d] = answer[d]) \/ answer'[d] \in {Told(f) : f \in Failures}
      BY <1>3, <2>2, AnswersChange
    <3> QED
      BY <1>3, <3>1, <3>2, FailuresApart DEF OnePlace, AnswersOnce
  <2> QED
    BY <2>1, <2>2
<1> QED
  BY <1>3 DEF AnswersOnce, Messages, Outcomes

LEMMA NotInSharedKeeps ==
    ASSUME TypeOK, QueueInv, OnePlace, \A c \in Calls : CallInv(c), [Next]_vars
    PROVE  NotInShared'
<1> SUFFICES ASSUME NEW d \in Calls, Answered(d)', NEW i \in 1..Len(shared')
             PROVE  answer'[d] # shared'[i]
  BY DEF NotInShared
<1>1. CASE UNCHANGED shared /\ ~Get(d)
  <2>1. shared[i] \in Messages /\ OutcomeOf(shared[i]) /\ kind[shared[i].call] = "sync"
    BY <1>1 DEF TypeOK, QueueInv, SharedInv
  <2>2. CASE PollResult(d)
    <3>1. Head(private[d]) = Own(d) /\ kind[d] = "async"
      BY <2>2, Taken
    <3>2. answer'[d] = Head(private[d])
      BY <2>2 DEF PollResult, Answer, TypeOK
    <3>3. Own(d).call = d
      BY DEF Own
    <3> QED
      BY <1>1, <2>1, <3>1, <3>2, <3>3
  <2>3. CASE ~PollResult(d)
    BY <1>1, <2>1, <2>3, AnswersChange, FailuresApart DEF OnePlace, NotInShared
  <2> QED
    BY <2>2, <2>3
<1>2. ASSUME NEW c \in Calls, Finish(c) PROVE answer'[d] # shared'[i]
  <2>1. PICK m \in Messages : Output(c, m) /\ ~OutcomeOf(m) /\ pc' = pc /\ answer' = answer
    BY <1>2, NewOutcome
  <2>2. Answered(d)
    BY <2>1 DEF Answered
  <2>3. CASE shared' = Append(shared, m)
    <3>1. (i \in 1..Len(shared) /\ shared'[i] = shared[i]) \/ shared'[i] = m
      BY <2>1, <2>3, Put DEF TypeOK
    <3> QED
      BY <2>1, <2>2, <3>1, FailuresApart DEF QueueInv, AnswerInv, OnePlace, NotInShared
  <2>4. CASE UNCHANGED shared
    BY <2>1, <2>2, <2>4 DEF OnePlace, NotInShared
  <2> QED
    BY <2>1, <2>3, <2>4 DEF Output
<1>3. ASSUME NEW c \in Calls, Get(c) PROVE answer'[d] # shared'[i]
  <2>1. shared # <<>> /\ shared' = Tail(shared)
    BY <1>3 DEF Get
  <2>2. i + 1 \in 1..Len(shared) /\ 1 \in 1..Len(shared) /\ i + 1 # 1 /\ shared'[i] = shared[i + 1]
    BY <2>1, Take DEF TypeOK
  <2>3. CASE c = d
    <3>1. answer'[d] = shared[1]
      BY <1>3, <2>3, Take DEF Get, Answer, TypeOK
    <3> QED
      BY <2>2, <3>1 DEF OnePlace, SharedOnce
  <2>4. CASE c # d
    BY <1>3, <2>2, <2>4, OneTaker DEF OnePlace, NotInShared
  <2> QED
    BY <2>3, <2>4
<1> QED
  BY <1>1, <1>2, <1>3
  DEF Next, vars, StartSync, StartAsync, Interrupt, ThreadStep, Escape, CallerStep, Join, GetTimeout,
      PollEmpty, PollResult, PollTimeout, JoinAsync

LEMMA NotPrivateKeeps ==
    ASSUME TypeOK, QueueInv, OnePlace, \A c \in Calls : CallInv(c), [Next]_vars
    PROVE  NotPrivate'
<1> SUFFICES ASSUME NEW c \in Calls, NEW d \in Calls, Answered(c)', private'[d] # <<>>
             PROVE  answer'[c] # Own(d)'
  BY DEF NotPrivate
<1>1. ASSUME NEW e \in Calls, Finish(e), e = d PROVE answer'[c] # Own(d)'
  <2>1. PICK m \in Messages : m = Own(d)' /\ ~OutcomeOf(m) /\ pc' = pc /\ answer' = answer
    BY <1>1, NewOutcome
  <2> QED
    BY <2>1, FailuresApart DEF Answered, QueueInv, AnswerInv
<1>2. CASE private'[d] = private[d] /\ private[d] # <<>>
  <2>1. /\ private[d] = <<Own(d)>> /\ kind[d] = "async" /\ thread[d] = "dead"
        /\ Own(d) \in Messages /\ Own(d)' = Own(d) /\ Own(d).call = d
    <3>1. private[d] = <<Own(d)>> /\ kind[d] = "async" /\ thread[d] = "dead"
      BY <1>2 DEF QueueInv, PrivateInv
    <3>2. Head(private[d]) = Own(d) /\ Head(private[d]) \in Messages
      BY <3>1, Single, Take DEF TypeOK
    <3> QED
      BY <3>1, <3>2, DeadStay DEF Own
  <2>2. CASE Answered(c) /\ answer'[c] = answer[c]
    BY <1>2, <2>1, <2>2 DEF OnePlace, NotPrivate
  <2>3. CASE answer'[c] \in {Told(f) : f \in Failures}
    BY <2>1, <2>3, FailuresApart
  <2>4. CASE Get(c) /\ answer'[c] = Head(shared)
    BY <2>1, <2>4, Taken
  <2>5. CASE PollResult(c) /\ answer'[c] = Head(private[c])
    <3>1. c # d
      BY <1>2, <2>1, <2>5, Single DEF PollResult, TypeOK
    <3>2. answer'[c] = Own(c) /\ Own(c).call = c
      BY <2>5, Taken DEF Own
    <3> QED
      BY <2>1, <3>1, <3>2
  <2> QED
    BY <2>2, <2>3, <2>4, <2>5, AnswersChange
<1>3. CASE \A e \in Calls : Finish(e) => e # d
  <2>1. private'[d] = private[d] \/ private'[d] = <<>>
    <3>1. CASE UNCHANGED private
      BY <3>1
    <3>2. ASSUME NEW e \in Calls, Finish(e) PROVE private'[d] = private[d]
      BY <1>3, <3>2 DEF Finish, Output, TypeOK
    <3>3. ASSUME NEW e \in Calls, PollEmpty(e) PROVE private'[d] = private[d] \/ private'[d] = <<>>
      BY <3>3 DEF PollEmpty, TypeOK
    <3>4. ASSUME NEW e \in Calls, PollResult(e) PROVE private'[d] = private[d] \/ private'[d] = <<>>
      BY <3>4, Single DEF PollResult, HasResult, TypeOK, QueueInv, PrivateInv
    <3> QED
      BY <3>1, <3>2, <3>3, <3>4
      DEF Next, vars, StartSync, StartAsync, Interrupt, ThreadStep, Escape, CallerStep, Join, Get,
          GetTimeout, PollTimeout, JoinAsync
  <2> QED
    BY <1>2, <2>1
<1> QED
  BY <1>1, <1>3

LEMMA AsyncKeeps ==
    ASSUME TypeOK, QueueInv, AsyncInv, \A c \in Calls : CallInv(c), [Next]_vars
    PROVE  AsyncInv'
<1> SUFFICES ASSUME NEW c \in Calls, Answered(c)', kind'[c] = "async"
             PROVE  \/ answer'[c] = Told("TimeoutError")
                    \/ (answer'[c] = Own(c)' /\ thread'[c] = "dead")
  BY DEF AsyncInv, Told
<1>1. kind[c] = "async"
  BY DEF TypeOK, Answered, Next, vars, StartSync, StartAsync, StartThread, Interrupt, ThreadStep,
         Finish, Escape, CallerStep, Join, Get, GetTimeout, PollEmpty, PollResult, PollTimeout, JoinAsync
<1>2. CASE Answered(c) /\ answer'[c] = answer[c]
  BY <1>1, <1>2, DeadStay DEF AsyncInv
<1>3. ~Get(c)
  BY <1>1 DEF Get, CallInv
<1>4. CASE PollResult(c) /\ answer'[c] = Head(private[c])
  <2>1. Head(private[c]) = Own(c) /\ thread[c] = "dead"
    BY <1>4, Taken DEF OutcomeOf, Own
  <2> QED
    BY <1>4, <2>1, DeadStay
<1> QED
  BY <1>1, <1>2, <1>3, <1>4, AnswersChange

-----------------------------------------------------------------------------
(* Synchronous calls one after the other *)

\* A step that changes nothing a synchronous call depends on.
LEMMA SequentialFrame ==
    ASSUME SequentialInv, UNCHANGED <<shared, overlapped, interrupts>>, SyncBusy' = SyncBusy,
           \A d \in Calls : d \in SyncBusy \/ (Done(d)' /\ kind'[d] = "sync") =>
               /\ kind'[d] = kind[d] /\ thread'[d] = thread[d] /\ out'[d] = out[d]
               /\ Done(d)' = Done(d) /\ answer'[d] = answer[d]
    PROVE  SequentialInv'
<1>1. \A d \in SyncBusy : d \in Calls /\ kind[d] = "sync"
  BY DEF SyncBusy
<1>2. \A d \in SyncBusy : Own(d)' = Own(d) /\ thread'[d] = thread[d] /\ out'[d] = out[d]
  BY <1>1 DEF Own
<1>3. ASSUME NEW d \in Calls, Done(d)', kind'[d] = "sync"
      PROVE /\ Done(d) /\ kind[d] = "sync" /\ answer'[d] = answer[d] /\ Own(d)' = Own(d)
            /\ thread'[d] = thread[d] /\ out'[d] = out[d]
  BY <1>3 DEF Own
<1> QED
  BY <1>2, <1>3 DEF SequentialInv, Told

LEMMA SequentialKeeps ==
    ASSUME TypeOK, SequentialInv, \A c \in Calls : CallInv(c), [Next]_vars
    PROVE  SequentialInv'
<1> USE DEF TypeOK
<1>1. CASE UNCHANGED vars
  BY <1>1, SequentialFrame DEF vars, SyncBusy, Done
<1>2. ASSUME NEW c \in Calls, StartSync(c) PROVE SequentialInv'
  <2> SUFFICES ASSUME ~overlapped', interrupts' = 0 PROVE SequentialInv'
    BY DEF SequentialInv
  <2>1. ~overlapped /\ interrupts = 0 /\ SyncBusy = {} /\ shared = <<>> /\ shared' = <<>>
    BY <1>2 DEF StartSync, SequentialInv
  <2>2. SyncBusy' = {c} /\ thread'[c] = "running"
    BY <1>2, <2>1 DEF StartSync, StartThread, SyncBusy
  <2>3. ASSUME NEW d \in Calls, Done(d)', kind'[d] = "sync"
        PROVE (thread[d] = "dead" /\ answer[d] = IF out[d] = "base" THEN Told("Empty") ELSE Own(d))'
    <3>1. d # c /\ Done(d) /\ kind[d] = "sync"
      BY <1>2, <2>3 DEF StartSync, StartThread, Done
    <3>2. thread'[d] = thread[d] /\ answer'[d] = answer[d] /\ out'[d] = out[d] /\ Own(d)' = Own(d)
      BY <1>2, <3>1 DEF StartSync, StartThread, Own
    <3> QED
      BY <2>1, <3>1, <3>2 DEF SequentialInv, Told
  <2> QED
    BY <2>1, <2>2, <2>3 DEF SequentialInv
<1>3. ASSUME NEW c \in Calls, StartAsync(c) PROVE SequentialInv'
  <2>1. SyncBusy' = SyncBusy
    BY <1>3 DEF StartAsync, StartThread, SyncBusy, CallInv
  <2>2. ASSUME NEW d \in Calls, d \in SyncBusy \/ (Done(d)' /\ kind'[d] = "sync") PROVE d # c
    BY <1>3, <2>2 DEF StartAsync, StartThread, SyncBusy, Done
  <2>3. \A d \in Calls \ {c} : /\ kind'[d] = kind[d] /\ thread'[d] = thread[d] /\ out'[d] = out[d]
                              /\ Done(d)' = Done(d) /\ answer'[d] = answer[d]
    BY <1>3 DEF StartAsync, StartThread, Done
  <2> QED
    BY <1>3, <2>1, <2>2, <2>3, SequentialFrame DEF StartAsync
<1>4. ASSUME NEW c \in Calls, Interrupt(c) PROVE SequentialInv'
  BY <1>4 DEF Interrupt, SequentialInv
<1>5. ASSUME NEW c \in Calls, ThreadStep(c), kind[c] # "sync" PROVE SequentialInv'
  BY <1>5, SequentialFrame DEF ThreadStep, Finish, Escape, Output, SyncBusy, Done
<1>6. ASSUME NEW c \in Calls, ThreadStep(c), kind[c] = "sync" PROVE SequentialInv'
  <2> SUFFICES ASSUME ~overlapped', interrupts' = 0 PROVE SequentialInv'
    BY DEF SequentialInv
  <2>1. ~overlapped /\ interrupts = 0 /\ thread[c] = "running" /\ thread'[c] = "dead"
    BY <1>6 DEF ThreadStep, Finish, Escape
  <2>2. c \in SyncBusy /\ shared = <<>>
    <3>1. c \in SyncBusy
      BY <1>6, <2>1 DEF SequentialInv, SyncBusy, Done, CallInv
    <3> QED
      BY <2>1, <3>1 DEF SequentialInv
  <2>3. SyncBusy' = SyncBusy /\ \A d \in SyncBusy : d = c
    BY <1>6, <2>1, <2>2 DEF ThreadStep, Finish, Escape, SyncBusy, SequentialInv
  <2>4. shared' = IF out'[c] # "base" THEN <<Own(c)'>> ELSE <<>>
    <3>1. CASE Finish(c)
      <4>1. PICK o \in Outcomes \ {"base"} :
                out' = [out EXCEPT ![c] = o] /\ Output(c, [call |-> c, what |-> o])
        BY <3>1 DEF Finish
      <4>2. out'[c] = o /\ Own(c)' = [call |-> c, what |-> o]
        BY <4>1 DEF Own
      <4>3. shared' = <<[call |-> c, what |-> o]>>
        BY <1>6, <2>2, <4>1 DEF Output
      <4> QED
        BY <4>1, <4>2, <4>3
    <3>2. CASE Escape(c)
      BY <2>2, <3>2 DEF Escape
    <3> QED
      BY <1>6, <3>1, <3>2 DEF ThreadStep
  <2>5. ASSUME NEW d \in Calls, Done(d)', kind'[d] = "sync"
        PROVE (thread[d] = "dead" /\ answer[d] = IF out[d] = "base" THEN Told("Empty") ELSE Own(d))'
    <3>1. d # c /\ Done(d) /\ kind[d] = "sync"
      BY <1>6, <2>2, <2>5 DEF ThreadStep, Finish, Escape, Done, SyncBusy
    <3>2. thread'[d] = thread[d] /\ answer'[d] = answer[d] /\ out'[d] = out[d] /\ Own(d)' = Own(d)
      BY <1>6, <3>1 DEF ThreadStep, Finish, Escape, Own
    <3> QED
      BY <2>1, <3>1, <3>2 DEF SequentialInv, Told
  <2> QED
    BY <2>1, <2>2, <2>3, <2>4, <2>5 DEF SequentialInv
<1>7. ASSUME NEW c \in Calls, Join(c) PROVE SequentialInv'
  <2>1. SyncBusy' = SyncBusy
    BY <1>7 DEF Join, SyncBusy, CallInv
  <2> QED
    BY <1>7, <2>1, SequentialFrame DEF Join, Done
<1>8. ASSUME NEW c \in Calls, Get(c) \/ GetTimeout(c) PROVE SequentialInv'
  <2> SUFFICES ASSUME ~overlapped', interrupts' = 0 PROVE SequentialInv'
    BY DEF SequentialInv
  <2>1. ~overlapped /\ interrupts = 0 /\ c \in SyncBusy /\ thread[c] = "dead"
    BY <1>8 DEF Get, GetTimeout, SyncBusy, CallInv
  <2>2. SyncBusy' = {}
    BY <1>8, <2>1 DEF Get, GetTimeout, Answer, SyncBusy, SequentialInv
  <2>3. shared = IF out[c] # "base" THEN <<Own(c)>> ELSE <<>>
    BY <2>1 DEF SequentialInv
  <2>4. shared' = <<>> /\ answer'[c] = IF out[c] = "base" THEN Told("Empty") ELSE Own(c)
    BY <1>8, <2>3, Single DEF Get, GetTimeout, Answer
  <2>5. UNCHANGED <<thread, out, kind>> /\ \A d \in Calls : Own(d)' = Own(d)
    BY <1>8 DEF Get, GetTimeout, Own
  <2>6. \A d \in Calls \ {c} : Done(d)' = Done(d) /\ answer'[d] = answer[d]
    BY <1>8 DEF Get, GetTimeout, Answer, Done
  <2> QED
    BY <2>1, <2>2, <2>4, <2>5, <2>6 DEF SequentialInv, Told
<1>9. ASSUME NEW c \in Calls, PollEmpty(c) \/ PollResult(c) \/ PollTimeout(c) \/ JoinAsync(c)
      PROVE SequentialInv'
  <2>1. kind[c] = "async" /\ SyncBusy' = SyncBusy
    BY <1>9 DEF PollEmpty, PollResult, PollTimeout, JoinAsync, Answer, SyncBusy, CallInv
  <2>2. ASSUME NEW d \in Calls, d \in SyncBusy \/ (Done(d)' /\ kind'[d] = "sync") PROVE d # c
    BY <1>9, <2>1, <2>2 DEF PollEmpty, PollResult, PollTimeout, JoinAsync, SyncBusy
  <2>3. \A d \in Calls \ {c} : /\ kind'[d] = kind[d] /\ thread'[d] = thread[d] /\ out'[d] = out[d]
                              /\ Done(d)' = Done(d) /\ answer'[d] = answer[d]
    BY <1>9 DEF PollEmpty, PollResult, PollTimeout, JoinAsync, Answer, Done
  <2> QED
    BY <1>9, <2>1, <2>2, <2>3, SequentialFrame DEF PollEmpty, PollResult, PollTimeout, JoinAsync
<1> QED
  BY <1>1, <1>2, <1>3, <1>4, <1>5, <1>6, <1>7, <1>8, <1>9 DEF Next, ThreadStep, CallerStep

-----------------------------------------------------------------------------

LEMMA Invariant == Spec => []IInv
<1>1. Init => IInv
  BY InitInv
<1>2. IInv /\ [Next]_vars => IInv'
  BY TypeKeeps, CallsKeep, SharedKeeps, PrivateKeeps, AnswersKeep, SharedOnceKeeps,
     AnswersOnceKeeps, NotInSharedKeeps, NotPrivateKeeps, AsyncKeeps, CountsKeep, SequentialKeeps
  DEF IInv, QueueInv, OnePlace
<1> QED
  BY <1>1, <1>2, PTL DEF Spec

-----------------------------------------------------------------------------
(* What the callers of asyncx.py rely on *)

\* Whatever calls overlap and are interrupted, the module's queue never holds more than
\* there are synchronous calls in progress and interrupted: asyncx.py's
\* _coro_thread_queue is empty again after the last call.
THEOREM NothingPilesUp == Spec => []NoLeftovers
<1>1. IInv => NoLeftovers
  <2> SUFFICES ASSUME IInv PROVE NoLeftovers
    OBVIOUS
  <2>1. TypeOK /\ CountInv /\ \A c \in Calls : CallInv(c)
    BY DEF IInv
  <2> QED
    BY <2>1, Counted DEF CountInv, NoLeftovers
<1> QED
  BY <1>1, Invariant, PTL

\* No two calls of run_coro_thread and run_coro_thread_async report the same coroutine's
\* outcome, though the synchronous ones share a queue and take whatever is in it.
THEOREM EachResultOnce == Spec => []DeliveredOnce
<1>1. IInv => DeliveredOnce
  <2> SUFFICES ASSUME IInv, NEW c \in Calls, NEW d \in Calls, c # d, Done(c), Done(d),
                      answer[c] = answer[d]
               PROVE  answer[c].call = None
    BY DEF DeliveredOnce
  <2>1. Answered(c) /\ Answered(d)
    BY DEF Done, Answered
  <2>2. answer[c] \notin Messages
    BY <2>1 DEF IInv, OnePlace, AnswersOnce
  <2>3. answer[c] \in {Told(f) : f \in Failures}
    BY <2>1, <2>2 DEF IInv, QueueInv, AnswerInv
  <2> QED
    BY <2>3 DEF Told
<1> QED
  BY <1>1, Invariant, PTL

\* run_coro_thread_async returns or raises its own coroutine's outcome, or raises a
\* TimeoutError, whatever other calls of both kinds go on.
THEOREM AsyncReportsItsOwn == Spec => []AsyncOwnResult
<1>1. IInv => AsyncOwnResult
  BY DEF IInv, AsyncInv, AsyncOwnResult, Answered, Done
<1> QED
  BY <1>1, Invariant, PTL

\* run_coro_thread reports its own coroutine as long as no two of its calls overlapped
\* and none was interrupted: also after a coroutine whose BaseException left nothing in
\* the queue, and with any asynchronous calls in between.
THEOREM SequentialReportsItsOwn == Spec => []SequentialOwnResult
<1>1. IInv => SequentialOwnResult
  BY DEF IInv, SequentialInv, SequentialOwnResult
<1> QED
  BY <1>1, Invariant, PTL
=============================================================================
