-------------------------------- MODULE Retry --------------------------------
(***************************************************************************)
(* app/retry.py: one call under a RetryPolicy.  The function called either *)
(* returns or raises, at once; what it raises is transient, a reject, or   *)
(* foreign: any other class, the TransientBrokerError of brokers/base.py   *)
(* among them.  Both twins take these steps; time.sleep of call_with_retry *)
(* blocks the thread, asyncio.sleep lets other tasks run.                  *)
(***************************************************************************)
EXTENDS Integers, Sequences, Quantities

CONSTANTS
  AttemptSettings,  \* values of max_attempts
  BaseDelay,        \* base_delay and
  MaxDelay,         \* max_delay, in one unit of time
  Jitter            \* jitter, in percent

ASSUME RetryAssumption ==
  /\ AttemptSettings \subseteq Nat
  /\ BaseDelay \in Nat /\ MaxDelay \in Nat /\ Jitter \in 0 .. 100

VARIABLES
  maxAttempts,  \* max_attempts
  blocking,     \* whether it is the twin that blocks
  stage,        \* idle, calling the function, sleeping, ended
  sleep,        \* what is left of the sleep
  outcomes,     \* history: how the function ended, attempt by attempt
  slept,        \* history: the time spent sleeping
  result        \* how the call as a whole ended

retryVars == <<maxAttempts, blocking, stage, sleep, outcomes, slept, result>>

Outcomes == {"value", "transient", "reject", "foreign"}

attempt == Len(outcomes) + 1

\* Mutant of Raw: the delay has no cap.
RawUncapped(n) == BaseDelay * 2 ^ (n - 1)

\* delay_for: the capped delay of the n-th attempt, and what jitter makes of it.
Raw(n) == Smaller(BaseDelay * 2 ^ (n - 1), MaxDelay)

Spread(delay) == (delay * Jitter) \div 100

DelayFor(n) == (Raw(n) - Spread(Raw(n))) .. (Raw(n) + Spread(Raw(n)))

RetryTypeOK ==
  /\ maxAttempts \in AttemptSettings /\ blocking \in BOOLEAN
  /\ stage \in {"idle", "calling", "sleeping", "ended"}
  /\ sleep \in Nat
  /\ outcomes \in Seq(Outcomes)
  /\ slept \in Nat
  /\ result \in Outcomes \cup {"none", "unbound"}

RetryInit ==
  /\ maxAttempts \in AttemptSettings /\ blocking \in BOOLEAN
  /\ stage = "idle" /\ sleep = 0 /\ outcomes = <<>> /\ slept = 0 /\ result = "none"

-----------------------------------------------------------------------------
\* The loop over range(1, max_attempts + 1) is entered, ...
Enter ==
  /\ stage = "idle" /\ maxAttempts > 0
  /\ stage' = "calling"
  /\ UNCHANGED <<maxAttempts, blocking, sleep, outcomes, slept, result>>

\* ... or empty: raise last raises UnboundLocalError.
NothingToRaise ==
  /\ stage = "idle" /\ maxAttempts = 0
  /\ stage' = "ended" /\ result' = "unbound"
  /\ UNCHANGED <<maxAttempts, blocking, sleep, outcomes, slept>>

\* The function's value or exception is passed on.
PassOn(outcome) ==
  /\ stage = "calling"
  /\ outcomes' = Append(outcomes, outcome)
  /\ \/ outcome # "transient"
     \/ attempt = maxAttempts
  /\ stage' = "ended" /\ result' = outcome
  /\ UNCHANGED <<maxAttempts, blocking, sleep, slept>>

\* Mutant of BackOff: every BrokerError is retried.
BackOffOnReject ==
  /\ stage = "calling" /\ attempt < maxAttempts
  /\ \E outcome \in {"transient", "reject"} : outcomes' = Append(outcomes, outcome)
  /\ sleep' \in DelayFor(attempt)
  /\ stage' = "sleeping"
  /\ UNCHANGED <<maxAttempts, blocking, slept, result>>

\* A transient failure that is not the last attempt's.
BackOff ==
  /\ stage = "calling" /\ attempt < maxAttempts
  /\ outcomes' = Append(outcomes, "transient")
  /\ sleep' \in DelayFor(attempt)
  /\ stage' = "sleeping"
  /\ UNCHANGED <<maxAttempts, blocking, slept, result>>

\* The sleep is over: the next attempt.
Again ==
  /\ stage = "sleeping" /\ sleep = 0
  /\ stage' = "calling"
  /\ UNCHANGED <<maxAttempts, blocking, sleep, outcomes, slept, result>>

RetryStep == BackOff \/ Again \/ \E outcome \in Outcomes : PassOn(outcome)

\* Time does not pass during an attempt, nor beyond the end of a sleep.
MayWait == stage \in {"idle", "ended"} \/ (stage = "sleeping" /\ sleep > 0)

\* A unit of time passes.
SleepOn ==
  /\ sleep' = IF sleep > 0 THEN sleep - 1 ELSE 0
  /\ slept' = IF sleep > 0 THEN slept + 1 ELSE slept
  /\ UNCHANGED <<maxAttempts, blocking, stage, outcomes, result>>

-----------------------------------------------------------------------------
\* Only what is declared transient is tried again, and a transient failure is
\* reported when, and only when, every attempt has been spent on one; an error of
\* a class that retry.py does not know, as the adapters' own, ends the call at
\* its first attempt.  The sleeps between the attempts are no longer than the cap
\* with its jitter, which the code adds to the capped delay (retry.py:46-76).
GivesUpWhenSpent ==
  /\ \A i \in 1 .. Len(outcomes) - 1 : outcomes[i] = "transient"
  /\ result = "transient" => Len(outcomes) = maxAttempts
  /\ result = "unbound" => maxAttempts = 0
  /\ stage = "ended" /\ outcomes # <<>> => result = outcomes[Len(outcomes)]
  /\ maxAttempts > 0 => slept + sleep <= (maxAttempts - 1) * (MaxDelay + Spread(MaxDelay))
=============================================================================
