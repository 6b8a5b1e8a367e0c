-------------------------------- MODULE Retry --------------------------------
(***************************************************************************)
(* retry_on_err and async_retry (decorators.py), which differ only in the  *)
(* awaits: a function is called again after an exception, until it returns *)
(* or one of the limits is reached.  The two counters travel in the        *)
(* keyword arguments of the wrapper's call of itself, so that each call of *)
(* the decorated function has its own, and callers do not share anything.  *)
(***************************************************************************)
EXTENDS Integers

CONSTANTS
    Retriers,     \* calls of the decorated function, one after another by each
    MaxRetries,   \* max_retries
    MaxIgnore,    \* max_ignore
    Unlimited     \* max_ignore=False

ASSUME RetryAssumption ==
    MaxRetries \in Nat /\ (MaxIgnore = Unlimited \/ MaxIgnore \in Nat) /\ Unlimited \notin Nat

(* What one call of the function does, by how the decorator sorts it: it returns;
   raises something listed in fail_on (listed in ignore or not), something listed in
   ignore, or some other Exception; or raises a BaseException, which is not caught. *)
Outcomes == {"value", "fail", "ignored", "error", "base"}

VARIABLES
    stage,     \* idle, call, except, done
    outcome,   \* how the function's last call ended
    retries,   \* retry_attempts
    ignored    \* ignore_count

\* History variables.
VARIABLES
    callsMade,   \* how often the function was called (capped at CallCap)
    failures     \* how often it raised something that is not in ignore (capped)

retryVars == <<stage, outcome, retries, ignored, callsMade, failures>>

\* The bound on both counters, past what any property allows.
CallCap == MaxRetries + 2 + (IF MaxIgnore = Unlimited THEN 0 ELSE MaxIgnore)
CountUp(n, yes) == IF yes /\ n < CallCap THEN n + 1 ELSE n

RetryInit ==
    /\ stage = [c \in Retriers |-> "idle"] /\ outcome = [c \in Retriers |-> "value"]
    /\ retries = [c \in Retriers |-> 0] /\ ignored = [c \in Retriers |-> 0]
    /\ callsMade = [c \in Retriers |-> 0] /\ failures = [c \in Retriers |-> 0]

Goto(c, label) == stage' = [stage EXCEPT ![c] = label]

Begin(c) ==
    /\ stage[c] \in {"idle", "done"}
    /\ Goto(c, "call")
    /\ retries' = [retries EXCEPT ![c] = 0] /\ ignored' = [ignored EXCEPT ![c] = 0]
    /\ callsMade' = [callsMade EXCEPT ![c] = 0] /\ failures' = [failures EXCEPT ![c] = 0]
    /\ UNCHANGED outcome

\* The function is called, and ends somehow.
CallFunction(c) ==
    /\ stage[c] = "call"
    /\ \E o \in Outcomes : /\ outcome' = [outcome EXCEPT ![c] = o]
                           /\ Goto(c, IF o \in {"value", "base"} THEN "done" ELSE "except")
                           /\ failures' = [failures EXCEPT ![c] = CountUp(@, o \in {"fail", "error"})]
    /\ callsMade' = [callsMade EXCEPT ![c] = CountUp(@, TRUE)]
    /\ UNCHANGED <<retries, ignored>>

\* Mutant of Retried: the counters belong to the decorated function, not to the call.
RetriedTogether(c, ignore) ==
    /\ retries' = IF ignore THEN retries ELSE [x \in Retriers |-> retries[c] + 1]
    /\ ignored' = IF ignore THEN [x \in Retriers |-> ignored[c] + 1] ELSE ignored

\* Mutant of Retried: ignored exceptions are not counted at all.
RetriedUncounted(c, ignore) ==
    /\ retries' = IF ignore THEN retries ELSE [retries EXCEPT ![c] = @ + 1]
    /\ UNCHANGED ignored

\* The counters handed to the next call of the wrapper.
Retried(c, ignore) ==
    /\ retries' = IF ignore THEN retries ELSE [retries EXCEPT ![c] = @ + 1]
    /\ ignored' = IF ignore THEN [ignored EXCEPT ![c] = @ + 1] ELSE ignored

TooManyIgnored(c) == MaxIgnore # Unlimited /\ ignored[c] > MaxIgnore

\* Mutant of Again: one retry too many.
AgainOnceMore(c) ==
    /\ outcome[c] # "fail" /\ ~TooManyIgnored(c)
    /\ retries[c] <= MaxRetries

\* Mutant of Again: ignored exceptions are not held to the limit on retries.
AgainWhenIgnored(c) ==
    /\ outcome[c] # "fail" /\ ~TooManyIgnored(c)
    /\ retries[c] < MaxRetries \/ outcome[c] = "ignored"

\* Whether the exception is retried: the limit on ignored exceptions ends the calls for
\* every exception, and the limit on retries for the ignored ones, too.
Again(c) ==
    /\ outcome[c] # "fail" /\ ~TooManyIgnored(c)
    /\ retries[c] < MaxRetries

\* Sleep, and call the function again.
RunAgain(c) ==
    /\ stage[c] = "except" /\ Again(c)
    /\ Goto(c, "call")
    /\ Retried(c, outcome[c] = "ignored")
    /\ UNCHANGED <<outcome, callsMade, failures>>

GiveUp(c) ==
    /\ stage[c] = "except" /\ ~Again(c)
    /\ Goto(c, "done")
    /\ UNCHANGED <<outcome, retries, ignored, callsMade, failures>>

\* The sleep is ended by an interrupt, or by the cancellation of the caller's task, which
\* leaves the except clause that the sleep is part of.
Interrupt(c) ==
    /\ stage[c] = "except" /\ Again(c)
    /\ Goto(c, "done")
    /\ outcome' = [outcome EXCEPT ![c] = "base"]
    /\ UNCHANGED <<retries, ignored, callsMade, failures>>

Step(c) == CallFunction(c) \/ RunAgain(c) \/ GiveUp(c)

RetryNext == \E c \in Retriers : Begin(c) \/ Step(c) \/ Interrupt(c)

RetrySpec == RetryInit /\ [][RetryNext]_retryVars

\* The function ends each time it is called, and the sleeps between the calls pass.
FairRetrySpec == RetrySpec /\ \A c \in Retriers : WF_retryVars(Step(c))

-----------------------------------------------------------------------------
(* Properties *)

\* Types; the counters stay within one of their limits.
RetryTypeOK ==
    /\ stage \in [Retriers -> {"idle", "call", "except", "done"}]
    /\ outcome \in [Retriers -> Outcomes]
    /\ retries \in [Retriers -> 0..MaxRetries]
    /\ ignored \in [Retriers -> IF MaxIgnore = Unlimited THEN Nat ELSE 0..(MaxIgnore + 1)]
    /\ callsMade \in [Retriers -> 0..CallCap] /\ failures \in [Retriers -> 0..CallCap]

\* One call of the decorated function calls it at most 1 + max_retries + max_ignore
\* times, in whatever order ignored and other exceptions come: max_ignore lets one more
\* exception through than its value, but not beyond the retries that are left.
CallBound ==
    MaxIgnore # Unlimited =>
        \A c \in Retriers : callsMade[c] <= MaxRetries + MaxIgnore + 1

\* An exception that is neither in fail_on nor in ignore, and is raised although the
\* limit on ignored exceptions was not passed, is the one after max_retries others:
\* the ignored ones in between took none of its retries, and neither did other callers.
ExactRetries ==
    \A c \in Retriers :
        stage[c] = "done" /\ outcome[c] = "error" /\ ~TooManyIgnored(c) =>
            failures[c] = MaxRetries + 1

\* Unless max_ignore is switched off, a function that always ends lets its decorated
\* form end, whatever it raises.
CallsEnd == MaxIgnore # Unlimited => \A c \in Retriers : stage[c] = "call" ~> stage[c] = "done"

=============================================================================
