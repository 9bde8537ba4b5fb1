--------------------------- MODULE EventLoopProofs ---------------------------
(***************************************************************************)
(* The feed and the retried call on their common loop: the types, what a   *)
(* call under the policy does with its attempts and its time, what a batch *)
(* tells of an outage, and how old a mark gets, for every set of symbols,  *)
(* every cap, interval and drop rate, and every policy.                    *)
(***************************************************************************)
EXTENDS EventLoop, FiniteSetTheorems, SequenceTheorems, WellFoundedInduction, NaturalsInduction, TLAPS

\* The library's powers of two are numbers: there are so many subsets.
LEMMA PowerOfTwo ==
  ASSUME NEW n \in Nat
  PROVE  2 ^ n \in Nat
  <1>1. IsFiniteSet(1 .. n) /\ Cardinality(1 .. n) = n
    BY FS_Interval
  <1>2. IsFiniteSet(SUBSET (1 .. n)) /\ Cardinality(SUBSET (1 .. n)) = 2 ^ n
    BY <1>1, FS_SUBSET
  <1> QED
    BY <1>2, FS_CardinalityType

\* Jitter takes off no more than there is, and adds no more to a smaller delay.
LEMMA SpreadBounds ==
  ASSUME NEW d \in Nat, NEW e \in Nat, d <= e
  PROVE  Spread(d) \in 0 .. d /\ Spread(d) <= Spread(e)
  <1>1. Jitter \in 0 .. 100
    BY RetryAssumption
  <1>2. d * Jitter \in Nat /\ e * Jitter \in Nat /\ d * Jitter <= e * Jitter /\ d * Jitter <= d * 100
    BY <1>1
  <1> QED
    BY <1>2 DEF Spread

\* A sleep is a length of time, no longer than the cap with its jitter.
LEMMA DelayBounds ==
  ASSUME NEW n \in Nat \ {0}, NEW d \in DelayFor(n)
  PROVE  d \in Nat /\ d <= MaxDelay + Spread(MaxDelay)
  <1>1. 2 ^ (n - 1) \in Nat
    BY PowerOfTwo
  <1>2. BaseDelay * 2 ^ (n - 1) \in Nat /\ MaxDelay \in Nat
    BY <1>1, RetryAssumption
  <1>3. Raw(n) \in Nat /\ Raw(n) <= MaxDelay
    BY <1>2 DEF Raw, Smaller
  <1>4. Spread(Raw(n)) \in 0 .. Raw(n) /\ Spread(Raw(n)) <= Spread(MaxDelay)
    BY <1>2, <1>3, SpreadBounds
  <1>5. Spread(MaxDelay) \in 0 .. MaxDelay
    BY <1>2, SpreadBounds
  <1> QED
    BY <1>2, <1>3, <1>4, <1>5 DEF DelayFor

-----------------------------------------------------------------------------
Longest == MaxDelay + Spread(MaxDelay)

\* Until the call ends every attempt was a transient failure, there is one left,
\* and each has cost at most one sleep.
Going ==
  /\ result = "none"
  /\ \A i \in 1 .. Len(outcomes) : outcomes[i] = "transient"
  /\ Len(outcomes) <= maxAttempts /\ (maxAttempts > 0 => Len(outcomes) < maxAttempts)
  /\ stage # "sleeping" => sleep = 0
  /\ stage = "idle" => outcomes = <<>>
  /\ stage # "idle" => maxAttempts > 0
  /\ slept + sleep <= Len(outcomes) * Longest

RetryInv == RetryTypeOK /\ GivesUpWhenSpent /\ (stage # "ended" => Going)

LEMMA RetryTypes ==
  ASSUME RetryInv
  PROVE  /\ outcomes \in Seq(Outcomes) /\ Len(outcomes) \in Nat /\ maxAttempts \in Nat
         /\ slept \in Nat /\ sleep \in Nat /\ Longest \in Nat
         /\ Len(outcomes) * Longest \in Nat /\ (Len(outcomes) = 0 => outcomes = <<>>)
  <1>1. /\ outcomes \in Seq(Outcomes) /\ Len(outcomes) \in Nat /\ maxAttempts \in Nat
        /\ slept \in Nat /\ sleep \in Nat
    BY RetryAssumption DEF RetryInv, RetryTypeOK
  <1>2. Longest \in Nat
    BY RetryAssumption, SpreadBounds DEF Longest
  <1> QED
    BY <1>1, <1>2, EmptySeq

LEMMA EndOfAttempt ==
  ASSUME RetryInv, NEW outcome \in Outcomes, outcomes' = Append(outcomes, outcome)
  PROVE  /\ outcomes' \in Seq(Outcomes) /\ Len(outcomes') = Len(outcomes) + 1
         /\ \A i \in 1 .. Len(outcomes) : outcomes'[i] = outcomes[i]
         /\ outcomes'[Len(outcomes')] = outcome
BY RetryTypes, AppendProperties

LEMMA RetryInitial == RetryInit => RetryInv
  <1> SUFFICES ASSUME RetryInit PROVE RetryInv
    OBVIOUS
  <1>1. RetryTypeOK
    BY DEF RetryInit, RetryTypeOK
  <1>2. Longest \in Nat /\ maxAttempts \in Nat /\ Len(outcomes) = 0
    BY RetryAssumption, SpreadBounds DEF Longest, RetryInit
  <1>3. (maxAttempts - 1) * Longest >= 0 \/ maxAttempts = 0
    BY <1>2
  <1> QED
    BY <1>1, <1>2, <1>3 DEF RetryInit, RetryInv, GivesUpWhenSpent, Going, Longest

LEMMA RetrySteps ==
  ASSUME RetryInv, Enter \/ NothingToRaise \/ RetryStep
  PROVE  RetryInv'
  <1>1. /\ outcomes \in Seq(Outcomes) /\ Len(outcomes) \in Nat /\ maxAttempts \in Nat
        /\ slept \in Nat /\ sleep \in Nat /\ Longest \in Nat
        /\ Len(outcomes) * Longest \in Nat /\ (Len(outcomes) = 0 => outcomes = <<>>)
    BY RetryTypes
  <1>2. CASE Enter \/ NothingToRaise
    BY <1>1, <1>2 DEF Enter, NothingToRaise, RetryInv, RetryTypeOK, GivesUpWhenSpent, Going
  <1>3. CASE BackOff
    <2>1. /\ outcomes' = Append(outcomes, "transient") /\ Len(outcomes) + 1 < maxAttempts
          /\ sleep' \in DelayFor(Len(outcomes) + 1) /\ stage = "calling" /\ stage' = "sleeping"
          /\ UNCHANGED <<maxAttempts, blocking, slept, result>>
      BY <1>3 DEF BackOff, attempt
    <2>2. /\ outcomes' \in Seq(Outcomes) /\ Len(outcomes') = Len(outcomes) + 1
          /\ \A i \in 1 .. Len(outcomes) : outcomes'[i] = outcomes[i]
          /\ outcomes'[Len(outcomes')] = "transient"
      BY <2>1, EndOfAttempt DEF Outcomes
    <2>3. sleep' \in Nat /\ sleep' <= Longest
      BY <1>1, <2>1, DelayBounds DEF Longest
    <2>4. Going
      BY <2>1 DEF RetryInv
    <2>5. \A i \in 1 .. Len(outcomes') : outcomes'[i] = "transient"
      BY <1>1, <2>2, <2>4 DEF Going
    <2>6. slept' + sleep' <= Len(outcomes') * Longest
      <3>1. slept <= Len(outcomes) * Longest
        BY <1>1, <2>1, <2>4 DEF Going
      <3>2. Len(outcomes') * Longest = Len(outcomes) * Longest + Longest
        BY <1>1, <2>2
      <3> QED
        BY <1>1, <2>1, <2>3, <3>1, <3>2
    <2>7. /\ Len(outcomes') * Longest <= (maxAttempts - 1) * Longest
          /\ Len(outcomes') * Longest \in Int /\ (maxAttempts - 1) * Longest \in Int
      BY <1>1, <2>1, <2>2
    <2>8. RetryTypeOK'
      BY <2>1, <2>2, <2>3 DEF RetryInv, RetryTypeOK
    <2>9. Going'
      BY <1>1, <2>1, <2>2, <2>4, <2>5, <2>6 DEF Going, Longest
    <2>10. GivesUpWhenSpent'
      <3>1. slept' + sleep' <= (maxAttempts - 1) * Longest
        <4>1. PICK m \in Int, n \in Int : /\ m = Len(outcomes') * Longest
                                          /\ n = (maxAttempts - 1) * Longest
          BY <2>7
        <4>2. m <= n /\ slept' + sleep' <= m /\ slept' + sleep' \in Int
          BY <1>1, <2>1, <2>3, <2>6, <2>7, <4>1
        <4>3. slept' + sleep' <= n
          BY <4>2
        <4> QED
          BY <4>1, <4>3
      <3> QED
        BY <1>1, <2>1, <2>2, <2>4, <2>5, <3>1 DEF GivesUpWhenSpent, Going, Longest
    <2> QED
      BY <2>8, <2>9, <2>10 DEF RetryInv
  <1>4. CASE Again
    BY <1>1, <1>4 DEF Again, RetryInv, RetryTypeOK, GivesUpWhenSpent, Going
  <1>5. ASSUME NEW outcome \in Outcomes, PassOn(outcome)
        PROVE  RetryInv'
    <2>1. /\ outcomes' = Append(outcomes, outcome) /\ stage = "calling" /\ stage' = "ended"
          /\ result' = outcome /\ (outcome # "transient" \/ Len(outcomes) + 1 = maxAttempts)
          /\ UNCHANGED <<maxAttempts, blocking, sleep, slept>>
      BY <1>5 DEF PassOn, attempt
    <2>2. /\ outcomes' \in Seq(Outcomes) /\ Len(outcomes') = Len(outcomes) + 1
          /\ \A i \in 1 .. Len(outcomes) : outcomes'[i] = outcomes[i]
          /\ outcomes'[Len(outcomes')] = outcome
      BY <2>1, EndOfAttempt
    <2>3. Going /\ GivesUpWhenSpent
      BY <2>1 DEF RetryInv
    <2>4. RetryTypeOK'
      BY <2>1, <2>2 DEF RetryInv, RetryTypeOK
    <2>5. GivesUpWhenSpent'
      <3>1. \A i \in 1 .. Len(outcomes') - 1 : outcomes'[i] = "transient"
        BY <1>1, <2>2, <2>3 DEF Going
      <3>2. outcome # "unbound"
        BY DEF Outcomes
      <3> QED
        BY <2>1, <2>2, <2>3, <3>1, <3>2 DEF GivesUpWhenSpent
    <2> QED
      BY <2>1, <2>4, <2>5 DEF RetryInv
  <1> QED
    BY <1>2, <1>3, <1>4, <1>5 DEF RetryStep

LEMMA SleepsOn ==
  ASSUME RetryInv, MayWait, SleepOn
  PROVE  RetryInv'
  <1>1. /\ slept \in Nat /\ sleep \in Nat /\ Len(outcomes) * Longest \in Nat
        /\ slept' \in Nat /\ sleep' \in Nat /\ slept' + sleep' = slept + sleep
        /\ (sleep = 0 => sleep' = 0)
        /\ UNCHANGED <<maxAttempts, blocking, stage, outcomes, result>>
    BY RetryTypes DEF SleepOn
  <1>2. RetryTypeOK'
    BY <1>1 DEF RetryInv, RetryTypeOK
  <1>3. GivesUpWhenSpent'
    BY <1>1 DEF RetryInv, GivesUpWhenSpent
  <1>4. stage # "ended" => Going'
    BY <1>1 DEF RetryInv, Going, Longest
  <1> QED
    BY <1>1, <1>2, <1>3, <1>4 DEF RetryInv

-----------------------------------------------------------------------------
\* A set of numbers that is not empty has a least member.
LEMMA LeastOf ==
  ASSUME NEW S \in SUBSET Nat, S # {}
  PROVE  \E m \in S : \A n \in S : m <= n
  <1>1. IsWellFoundedOn(OpToRel(<, Nat), Nat)
    BY NatLessThanWellFounded
  <1>2. PICK m \in S : \A n \in S : ~(<<n, m>> \in OpToRel(<, Nat))
    BY <1>1, WFMin
  <1>3. \A n \in S : ~(n < m)
    BY <1>2 DEF OpToRel
  <1> QED
    BY <1>3

\* The socket outlives a batch: how old a mark is, and what is left of the sleep.
Delay == IF blocking THEN slept ELSE 0

Fresh ==
  OutlivesBatch =>
    /\ gapNext => phase = 0
    /\ ~gapNext => backoff = BackoffBase
    /\ \A s \in DOMAIN marks :
         marks[s] + wait <= Interval + (IF gapNext THEN BackoffBase ELSE 0) + Delay

FeedInv ==
  /\ FeedTypeOK
  /\ gapNext <=> outage # {}
  /\ DOMAIN marks \subseteq subs

LoopInv == RetryInv /\ FeedInv /\ Fresh

LEMMA FeedConstants ==
  /\ Symbols \in SUBSET Nat /\ IsFiniteSet(Symbols) /\ DropSettings \in SUBSET Nat
  /\ Interval \in Nat \ {0} /\ BackoffCap \in Nat /\ BackoffBase \in Nat
  /\ BackoffBase <= BackoffCap /\ BackoffBase > 0 /\ MaxAge \in Nat
  BY FeedAssumption, MarksAssumption

LEMMA FeedNumbers ==
  ASSUME FeedInv
  PROVE  /\ dropEvery \in Nat /\ phase \in Nat /\ backoff \in Nat /\ wait \in Nat
         /\ \A s \in DOMAIN marks : s \in Symbols /\ marks[s] \in Nat
         /\ IsFiniteSet(subs) /\ Cardinality(subs) \in Nat
         /\ Cardinality(Symbols) \in Nat /\ Cardinality(subs) <= Cardinality(Symbols)
  <1>1. subs \in SUBSET Symbols
    BY DEF FeedInv, FeedTypeOK
  <1>2. /\ IsFiniteSet(subs) /\ Cardinality(subs) \in Nat
        /\ Cardinality(Symbols) \in Nat /\ Cardinality(subs) <= Cardinality(Symbols)
    BY <1>1, FeedConstants, FS_Subset, FS_CardinalityType
  <1>3. dropEvery \in Nat /\ phase \in Nat /\ backoff \in Nat /\ wait \in Nat
    BY FeedConstants DEF FeedInv, FeedTypeOK
  <1>4. \A s \in DOMAIN marks : s \in Symbols /\ marks[s] \in Nat
    BY FeedConstants DEF FeedInv, FeedTypeOK
  <1> QED
    BY <1>2, <1>3, <1>4

\* The first symbol's mark, and no other, carries the flag.
LEMMA OneMarkTells ==
  ASSUME FeedInv, subs # {}
  PROVE  /\ Batch \in SUBSET Mark
         /\ Cardinality({m \in Batch : m.gap}) = IF gapNext THEN 1 ELSE 0
  <1>1. subs \in SUBSET Nat /\ subs \in SUBSET Symbols /\ gapNext \in BOOLEAN
    BY FeedConstants DEF FeedInv, FeedTypeOK
  <1>2. PICK s \in subs : First(s)
    BY <1>1, LeastOf DEF First
  <1>3. \A t \in subs : First(t) <=> t = s
    BY <1>1, <1>2 DEF First
  <1>4. Batch \in SUBSET Mark
    <2>1. \A t \in subs : First(t) \in BOOLEAN
      BY DEF First
    <2> QED
      BY <1>1, <2>1 DEF Batch, Mark
  <1>5. CASE gapNext
    <2>1. PICK r : r = [symbol |-> s, gap |-> gapNext /\ First(s)]
      OBVIOUS
    <2>2. r \in Batch
      BY <1>2, <2>1 DEF Batch
    <2>3. r.gap
      <3>1. r.gap = (gapNext /\ First(s))
        BY <2>1
      <3> QED
        BY <1>2, <1>5, <3>1
    <2>4. ASSUME NEW m \in Batch, m.gap
          PROVE  m = r
      <3>1. PICK t \in subs : m = [symbol |-> t, gap |-> gapNext /\ First(t)]
        BY DEF Batch
      <3>2. m.gap = (gapNext /\ First(t))
        BY <3>1
      <3>3. t = s
        BY <1>3, <2>4, <3>2
      <3> QED
        BY <2>1, <3>1, <3>3
    <2>5. {m \in Batch : m.gap} = {r}
      BY <2>2, <2>3, <2>4
    <2> QED
      BY <1>4, <1>5, <2>5, FS_Singleton
  <1>6. CASE ~gapNext
    <2>1. ASSUME NEW m \in Batch
          PROVE  ~m.gap
      <3>1. PICK t \in subs : m = [symbol |-> t, gap |-> gapNext /\ First(t)]
        BY DEF Batch
      <3>2. m.gap = (gapNext /\ First(t))
        BY <3>1
      <3> QED
        BY <1>6, <3>2
    <2>2. {m \in Batch : m.gap} = {}
      BY <2>1
    <2> QED
      BY <1>4, <1>6, <2>2, FS_EmptySet
  <1> QED
    BY <1>4, <1>5, <1>6

LEMMA LoopInitial == Init => LoopInv
  <1> SUFFICES ASSUME Init PROVE LoopInv
    OBVIOUS
  <1>1. RetryInv
    BY RetryInitial DEF Init
  <1>2. FeedInv
    <2>1. DOMAIN marks = {}
      BY DEF Init, FeedInit, NoMarks
    <2>2. wait = 0 /\ wait \in 0 .. Interval + BackoffCap /\ backoff \in BackoffBase .. BackoffCap
      BY FeedConstants DEF Init, FeedInit
    <2>3. phase = 0 /\ dropEvery \in DropSettings /\ phase \in 0 .. dropEvery
      BY FeedConstants DEF Init, FeedInit
    <2>4. FeedTypeOK
      BY <2>1, <2>2, <2>3 DEF Init, FeedInit, FeedTypeOK
    <2> QED
      BY <2>1, <2>4 DEF Init, FeedInit, FeedInv
  <1>3. Fresh
    BY <1>2 DEF Init, FeedInit, FeedInv, NoMarks, Fresh
  <1> QED
    BY <1>1, <1>2, <1>3 DEF LoopInv

LEMMA Delivers ==
  ASSUME FeedInv, Fresh, Deliver, UNCHANGED retryVars, slept \in Nat
  PROVE  FeedInv' /\ Fresh'
  <1>1. /\ dropEvery \in Nat /\ phase \in Nat /\ Cardinality(subs) \in Nat
        /\ subs \in SUBSET Symbols /\ DOMAIN marks \in SUBSET subs
    BY FeedNumbers DEF FeedInv, FeedTypeOK
  <1>2. DOMAIN marks' = subs /\ \A s \in subs : marks'[s] = 0
    BY <1>1 DEF Deliver, Update
  <1>3. phase' \in 0 .. dropEvery
    BY <1>1 DEF Deliver, DropsWithin
  <1>4. FeedTypeOK'
    <2>1. printed' \in SUBSET Mark
      BY OneMarkTells DEF Deliver
    <2>2. \A s \in DOMAIN marks' : s \in Symbols /\ marks'[s] \in 0 .. MaxAge + 1
      <3>1. 0 \in 0 .. MaxAge + 1
        BY FeedConstants
      <3> QED
        BY <1>1, <1>2, <3>1
    <2>3. wait' \in 0 .. Interval + BackoffCap /\ backoff' \in BackoffBase .. BackoffCap
      BY FeedConstants DEF Deliver
    <2> QED
      BY <1>3, <2>1, <2>2, <2>3 DEF Deliver, FeedInv, FeedTypeOK
  <1>5. FeedInv'
    BY <1>2, <1>4 DEF Deliver, FeedInv
  <1>6. Delay' = Delay /\ Delay \in Nat
    BY DEF Delay, retryVars
  <1>7. Fresh'
    BY <1>2, <1>6, FeedConstants DEF Deliver, Fresh, OutlivesBatch
  <1> QED
    BY <1>5, <1>7

LEMMA Drops ==
  ASSUME FeedInv, Fresh, Drop, UNCHANGED retryVars, slept \in Nat
  PROVE  FeedInv' /\ Fresh'
  <1>1. /\ dropEvery \in Nat /\ phase \in Nat /\ Cardinality(subs) \in Nat
        /\ Cardinality(Symbols) \in Nat /\ Cardinality(subs) <= Cardinality(Symbols)
        /\ backoff \in BackoffBase .. BackoffCap
        /\ \A s \in DOMAIN marks : marks[s] \in Nat
    BY FeedNumbers DEF FeedInv, FeedTypeOK
  <1>2. /\ wait' \in Nat /\ wait' <= BackoffCap /\ (backoff = BackoffBase => wait' = BackoffBase)
        /\ backoff' \in BackoffBase .. BackoffCap
    BY <1>1, FeedConstants DEF Drop, Smaller
  <1>3. FeedTypeOK'
    BY <1>1, <1>2, FeedConstants DEF Drop, FeedInv, FeedTypeOK
  <1>4. FeedInv'
    BY <1>3 DEF Drop, FeedInv
  <1>5. Delay' = Delay /\ Delay \in Nat
    BY DEF Delay, retryVars
  <1>6. ASSUME OutlivesBatch
        PROVE  ~gapNext
    BY <1>1, <1>6 DEF OutlivesBatch, Fresh, Drop, DropsWithin
  <1>7. Fresh'
    <2>1. SUFFICES ASSUME OutlivesBatch
                   PROVE  \A s \in DOMAIN marks : marks[s] + wait' <= Interval + BackoffBase + Delay
      BY <1>5 DEF Drop, Fresh, OutlivesBatch
    <2>2. wait' = BackoffBase /\ wait = 0
      BY <1>2, <1>6, <2>1 DEF Fresh, Drop
    <2>3. \A s \in DOMAIN marks : marks[s] <= Interval + Delay
      BY <1>1, <1>5, <1>6, <2>1, <2>2, FeedConstants DEF Fresh
    <2> QED
      BY <1>1, <1>5, <2>2, <2>3, FeedConstants
  <1> QED
    BY <1>4, <1>7

\* A unit of time passes; what is due may be late only while the loop is blocked.
LEMMA Ticks ==
  ASSUME LoopInv, Tick
  PROVE  LoopInv'
  <1>1. RetryInv' /\ slept \in Nat /\ slept' \in Nat /\ sleep \in Nat
    BY SleepsOn, RetryTypes DEF LoopInv, Tick, RetryInv, RetryTypeOK
  <1>2. /\ wait \in Nat /\ DOMAIN marks' = DOMAIN marks
        /\ wait' = IF wait > 0 THEN wait - 1 ELSE 0
        /\ \A s \in DOMAIN marks : /\ marks[s] \in Nat
                                   /\ marks'[s] = Smaller(marks[s] + 1, MaxAge + 1)
        /\ UNCHANGED <<dropEvery, subs, phase, gapNext, backoff, printed, outage>>
    BY FeedNumbers DEF LoopInv, Tick, AgeOn, Aged
  <1>3. \A s \in DOMAIN marks : marks'[s] \in 0 .. MaxAge + 1 /\ marks'[s] <= marks[s] + 1
    BY <1>2, FeedConstants DEF Smaller
  <1>4. FeedInv'
    <2>1. FeedTypeOK /\ (gapNext <=> outage # {}) /\ DOMAIN marks \subseteq subs
      BY DEF LoopInv, FeedInv
    <2>2. wait' \in 0 .. Interval + BackoffCap
      BY <1>2, <2>1, FeedConstants DEF FeedTypeOK
    <2>3. FeedTypeOK'
      BY <1>2, <1>3, <2>1, <2>2 DEF FeedTypeOK
    <2> QED
      BY <1>2, <2>1, <2>3 DEF FeedInv
  <1>5. /\ Delay \in Nat /\ Delay' \in Nat /\ Delay <= Delay'
        /\ wait = 0 => Delay' = Delay + 1
    BY <1>1, <1>2 DEF Tick, Blocked, MayWait, SleepOn, Delay
  <1>6. Fresh'
    <2> SUFFICES ASSUME OutlivesBatch
                 PROVE  /\ gapNext => phase = 0
                        /\ ~gapNext => backoff = BackoffBase
                        /\ \A s \in DOMAIN marks :
                             marks'[s] + wait' <= Interval + (IF gapNext THEN BackoffBase ELSE 0) + Delay'
      BY <1>2 DEF Fresh, OutlivesBatch
    <2>1. Fresh
      BY DEF LoopInv
    <2> SUFFICES ASSUME NEW s \in DOMAIN marks
                 PROVE  marks'[s] + wait' <= Interval + (IF gapNext THEN BackoffBase ELSE 0) + Delay'
      BY <2>1 DEF Fresh
    <2>2. marks[s] + wait <= Interval + (IF gapNext THEN BackoffBase ELSE 0) + Delay
      BY <2>1 DEF Fresh
    <2> QED
      BY <1>2, <1>3, <1>5, <2>2, FeedConstants
  <1> QED
    BY <1>1, <1>4, <1>6 DEF LoopInv

LEMMA LoopStep ==
  ASSUME LoopInv, [Next]_vars
  PROVE  LoopInv'
  <1>1. RetryInv /\ FeedInv /\ Fresh /\ slept \in Nat
    BY RetryTypes DEF LoopInv
  <1>2. ASSUME UNCHANGED retryVars
        PROVE  RetryInv'
    BY <1>1, <1>2 DEF retryVars, RetryInv, RetryTypeOK, GivesUpWhenSpent, Going
  <1>3. CASE FeedRuns
    <2>1. UNCHANGED retryVars
      BY <1>3 DEF FeedRuns
    <2>2. CASE Deliver \/ Drop
      BY <1>1, <1>2, <2>1, <2>2, Delivers, Drops DEF LoopInv
    <2>3. CASE NoSubs
      <3>1. /\ DOMAIN marks = {} /\ wait' = Interval /\ marks' = marks
            /\ UNCHANGED <<dropEvery, subs, phase, gapNext, backoff, printed, outage>>
        BY <1>1, <2>3 DEF NoSubs, FeedInv
      <3>2. wait' \in 0 .. Interval + BackoffCap
        BY <3>1, FeedConstants
      <3>3. FeedInv'
        BY <1>1, <3>1, <3>2 DEF FeedInv, FeedTypeOK
      <3>4. Fresh'
        BY <1>1, <3>1 DEF Fresh, OutlivesBatch
      <3> QED
        BY <1>2, <2>1, <3>3, <3>4 DEF LoopInv
    <2>4. ASSUME NEW s \in Symbols, Subscribe(s)
          PROVE  LoopInv'
      <3>1. /\ subs' = subs \cup {s}
            /\ UNCHANGED <<dropEvery, phase, gapNext, backoff, wait, marks, printed, outage>>
        BY <2>4 DEF Subscribe
      <3>2. FeedInv'
        BY <1>1, <3>1 DEF FeedInv, FeedTypeOK
      <3>3. Fresh'
        BY <1>1, <2>1, <3>1 DEF Fresh, OutlivesBatch, Delay, retryVars
      <3> QED
        BY <1>2, <2>1, <3>2, <3>3 DEF LoopInv
    <2> QED
      BY <1>3, <2>2, <2>3, <2>4 DEF FeedRuns, FeedStep
  <1>4. CASE CallRuns
    <2>1. RetryInv' /\ UNCHANGED feedVars
      BY <1>1, <1>4, RetrySteps DEF CallRuns
    <2>2. UNCHANGED <<blocking, slept>>
      BY <1>4 DEF CallRuns, Enter, NothingToRaise, RetryStep, BackOff, Again, PassOn
    <2>3. FeedInv'
      BY <1>1, <2>1 DEF feedVars, FeedInv, FeedTypeOK
    <2>4. Fresh'
      BY <1>1, <2>1, <2>2 DEF feedVars, Fresh, OutlivesBatch, Delay
    <2> QED
      BY <2>1, <2>3, <2>4 DEF LoopInv
  <1>5. CASE Tick
    BY <1>5, Ticks
  <1>6. CASE UNCHANGED vars
    <2>1. UNCHANGED feedVars /\ UNCHANGED retryVars
      BY <1>6 DEF vars
    <2>2. FeedInv'
      BY <1>1, <2>1 DEF feedVars, FeedInv, FeedTypeOK
    <2>3. Fresh'
      BY <1>1, <2>1 DEF feedVars, Fresh, OutlivesBatch, Delay, retryVars
    <2> QED
      BY <1>2, <2>1, <2>2, <2>3 DEF LoopInv
  <1> QED
    BY <1>3, <1>4, <1>5, <1>6 DEF Next

\* The invariant of the loop holds throughout, whatever the timing.
THEOREM LoopInductive == Spec => []LoopInv
  <1>1. LoopInv /\ [Next]_vars => LoopInv'
    BY LoopStep
  <1> QED
    BY <1>1, LoopInitial, PTL DEF Spec

\* The state of the feed and of the call keeps its type; in particular the delay
\* before a reconnect stays between its base and its cap over any number of drops.
THEOREM LoopTypeCorrect == Spec => []TypeOK
  <1>1. LoopInv => TypeOK
    BY DEF LoopInv, RetryInv, FeedInv, TypeOK
  <1> QED
    BY <1>1, LoopInductive, PTL

\* A transient failure is reported when every attempt has met one, nothing else is
\* tried again, and the sleeps in between stay within the policy's cap, for every
\* policy: exponential delays and jitter never add up to more.
THEOREM RetryGivesUp == Spec => []GivesUpWhenSpent
  <1>1. LoopInv => GivesUpWhenSpent
    BY DEF LoopInv, RetryInv
  <1> QED
    BY <1>1, LoopInductive, PTL

\* While the socket outlives a batch no mark is older than one interval, one
\* reconnect at the base delay, and what a blocking retry has slept.
THEOREM FeedStaysFresh == Spec => []FreshWhileOutlived
  <1>1. LoopInv => FreshWhileOutlived
    <2> SUFFICES ASSUME LoopInv, OutlivesBatch, NEW s \in DOMAIN marks
                 PROVE  marks[s] <= Interval + BackoffBase + Delay
      BY DEF FreshWhileOutlived, Delay
    <2>1. marks[s] + wait <= Interval + (IF gapNext THEN BackoffBase ELSE 0) + Delay
      BY DEF LoopInv, Fresh
    <2>2. marks[s] \in Nat /\ wait \in Nat /\ Delay \in Nat
      BY FeedNumbers, RetryTypes DEF LoopInv, Delay
    <2> QED
      BY <2>1, <2>2, FeedConstants
  <1> QED
    BY <1>1, LoopInductive, PTL

\* A batch tells of an outage in exactly one mark, and only when one came before it.
THEOREM FeedTellsOutage == Spec => GapTellsOutage
  <1> DEFINE Tells ==
        printed' # {} /\ printed' # printed =>
          Cardinality({m \in printed' : m.gap}) = IF outage # {} THEN 1 ELSE 0
  <1>1. LoopInv /\ [Next]_vars => [Tells]_feedVars
    <2> SUFFICES ASSUME LoopInv, [Next]_vars, printed' # {}, printed' # printed
                 PROVE  Cardinality({m \in printed' : m.gap}) = IF outage # {} THEN 1 ELSE 0
      OBVIOUS
    <2>1. Deliver
      BY DEF vars, feedVars, Next, FeedRuns, FeedStep, NoSubs, Drop, Subscribe, CallRuns, Tick, AgeOn
    <2>2. subs # {} /\ printed' = Batch /\ FeedInv
      BY <2>1 DEF Deliver, LoopInv
    <2>3. gapNext <=> outage # {}
      BY <2>2 DEF FeedInv
    <2> QED
      BY <2>2, <2>3, OneMarkTells
  <1> QED
    BY <1>1, LoopInductive, PTL DEF Spec, GapTellsOutage

=============================================================================
