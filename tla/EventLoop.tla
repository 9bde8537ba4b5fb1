------------------------------ MODULE EventLoop ------------------------------
(***************************************************************************)
(* The feed's task and one call under the retry policy, on the one event   *)
(* loop and the one clock of the service.  A step that is due runs before  *)
(* time goes on, unless the loop is blocked: retry.py's synchronous twin   *)
(* sleeps without giving it back.  Nothing in src calls the helpers yet;   *)
(* the call stands for the one that max_retries and retry_base_delay of    *)
(* config.py are meant for.                                                *)
(***************************************************************************)
EXTENDS Feed, Retry

vars == <<feedVars, retryVars>>

\* The types of both parts; the backoff and the sleeps stay between their bounds.
TypeOK == FeedTypeOK /\ RetryTypeOK

Init == FeedInit /\ RetryInit

Blocked == blocking /\ stage \in {"calling", "sleeping"}

FeedRuns ==
  /\ ~Blocked
  /\ FeedStep \/ \E s \in Symbols : Subscribe(s)
  /\ UNCHANGED retryVars

CallRuns == (Enter \/ NothingToRaise \/ RetryStep) /\ UNCHANGED feedVars

Tick == (Blocked \/ wait > 0) /\ MayWait /\ AgeOn /\ SleepOn

Next == FeedRuns \/ CallRuns \/ Tick

\* The loop runs what is due and time goes on.
Spec ==
  /\ Init /\ [][Next]_vars
  /\ WF_vars(~Blocked /\ FeedStep /\ UNCHANGED retryVars)
  /\ WF_vars(RetryStep /\ UNCHANGED feedVars)
  /\ WF_vars(Tick)

-----------------------------------------------------------------------------
\* As long as the socket outlives a batch, no mark is older than one interval and
\* one reconnect at the base delay, however many drops came before; a retry that
\* blocks the loop adds its sleeps to that (feeds/mock.py:88-105, base.py
\* contract 4: never block the event loop).
FreshWhileOutlived ==
  OutlivesBatch =>
    \A s \in DOMAIN marks :
      marks[s] <= Interval + BackoffBase + (IF blocking THEN slept ELSE 0)
=============================================================================
