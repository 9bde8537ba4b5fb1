-------------------------------- MODULE Feed --------------------------------
(***************************************************************************)
(* app/feeds/mock.py and the mark consumer of app/main.py.  A transport    *)
(* cycle prints one mark for every subscribed symbol in sorted order; the  *)
(* simulated socket drops after every drop_every-th print, and the batch   *)
(* it drops in is lost whole.  A cycle does not await anything up to its   *)
(* sleep, nor does the consumer: it is one step, taken when the sleep that *)
(* precedes it is over.  Prices are left out.                              *)
(***************************************************************************)
EXTENDS Integers, FiniteSets, Marks

CONSTANTS
  Symbols,       \* numbers, in the order in which sorted() puts the symbols
  DropSettings,  \* values of drop_every, 0 for never
  Interval,      \* interval,
  BackoffBase,   \* backoff_base and
  BackoffCap     \* backoff_cap, in one unit of time

ASSUME FeedAssumption ==
  /\ Symbols \subseteq Nat /\ IsFiniteSet(Symbols)
  /\ DropSettings \subseteq Nat
  /\ Interval \in Nat \ {0} /\ BackoffCap \in Nat /\ BackoffBase \in 1 .. BackoffCap

VARIABLES
  dropEvery,  \* _drop_every
  subs,       \* _subs
  phase,      \* _emitted modulo dropEvery
  gapNext,    \* gap_next: the next batch follows an outage
  backoff,    \* the delay before the next reconnect
  wait,       \* what is left of the sleep it is in
  marks,      \* the MarkStore of the P&L engine
  printed,    \* history: the marks of the last cycle that reached the consumer
  outage      \* history: the symbols whose marks the last outage cut off

feedVars == <<dropEvery, subs, phase, gapNext, backoff, wait, marks, printed, outage>>

Mark == [symbol : Symbols, gap : BOOLEAN]

\* Every variable has its type, and the backoff stays between its base and cap.
FeedTypeOK ==
  /\ dropEvery \in DropSettings
  /\ subs \subseteq Symbols
  /\ phase \in 0 .. dropEvery
  /\ gapNext \in BOOLEAN
  /\ backoff \in BackoffBase .. BackoffCap
  /\ wait \in 0 .. Interval + BackoffCap
  /\ DOMAIN marks \subseteq Symbols /\ \A s \in DOMAIN marks : marks[s] \in 0 .. MaxAge + 1
  /\ printed \subseteq Mark
  /\ outage \subseteq Symbols

FeedInit ==
  /\ dropEvery \in DropSettings
  /\ subs = {} /\ phase = 0 /\ gapNext = FALSE /\ backoff = BackoffBase
  /\ wait = 0 /\ marks = NoMarks /\ printed = {} /\ outage = {}

Subscribe(symbol) ==
  /\ symbol \notin subs
  /\ subs' = subs \cup {symbol}
  /\ UNCHANGED <<dropEvery, phase, gapNext, backoff, wait, marks, printed, outage>>

\* The socket drops within the next n prints.
DropsWithin(n) == dropEvery > 0 /\ phase + n >= dropEvery

First(symbol) == \A other \in subs : symbol <= other

\* Mutant of Batch: the gap flag is never raised.
BatchUnflagged == [symbol : subs, gap : {FALSE}]

\* The first mark of a batch carries the gap flag.
Batch == {[symbol |-> s, gap |-> gapNext /\ First(s)] : s \in subs}

\* Nothing is subscribed to yet.
NoSubs ==
  /\ wait = 0 /\ subs = {} /\ wait' = Interval
  /\ UNCHANGED <<dropEvery, subs, phase, gapNext, backoff, marks, printed, outage>>

\* Mutant of Deliver: a healthy cycle does not reset the backoff.
DeliverBackedOff ==
  /\ wait = 0 /\ subs # {} /\ ~DropsWithin(Cardinality(subs))
  /\ phase' = IF dropEvery > 0 THEN phase + Cardinality(subs) ELSE 0
  /\ printed' = Batch
  /\ marks' = Update(marks, subs)
  /\ gapNext' = FALSE
  /\ wait' = Interval
  /\ outage' = {}
  /\ UNCHANGED <<dropEvery, subs, backoff>>

\* _emit_once without a drop, the marks yielded and MarkStore.update for each.
Deliver ==
  /\ wait = 0 /\ subs # {} /\ ~DropsWithin(Cardinality(subs))
  /\ phase' = IF dropEvery > 0 THEN phase + Cardinality(subs) ELSE 0
  /\ printed' = Batch
  /\ marks' = Update(marks, subs)
  /\ gapNext' = FALSE /\ backoff' = BackoffBase
  /\ wait' = Interval
  /\ outage' = {}
  /\ UNCHANGED <<dropEvery, subs>>

\* Mutants of Drop: the backoff has no cap; ...
DropUncapped ==
  /\ wait = 0 /\ subs # {} /\ DropsWithin(Cardinality(subs))
  /\ phase' = 0
  /\ gapNext' = TRUE
  /\ wait' = backoff /\ backoff' = 2 * backoff
  /\ printed' = {} /\ outage' = subs
  /\ UNCHANGED <<dropEvery, subs, marks>>

\* ... the prints before the drop are passed on.
DropDelivers ==
  /\ wait = 0 /\ subs # {} /\ DropsWithin(Cardinality(subs))
  /\ phase' = 0
  /\ gapNext' = TRUE
  /\ wait' = Smaller(backoff, BackoffCap) /\ backoff' = Smaller(2 * backoff, BackoffCap)
  /\ printed' = {} /\ outage' = subs
  /\ marks' = Update(marks, {s \in subs : First(s)})
  /\ UNCHANGED <<dropEvery, subs>>

\* _emit_once that raises _SocketDropped: the count goes on, the marks are lost.
Drop ==
  /\ wait = 0 /\ subs # {} /\ DropsWithin(Cardinality(subs))
  /\ phase' = 0
  /\ gapNext' = TRUE
  /\ wait' = Smaller(backoff, BackoffCap) /\ backoff' = Smaller(2 * backoff, BackoffCap)
  /\ printed' = {} /\ outage' = subs
  /\ UNCHANGED <<dropEvery, subs, marks>>

FeedStep == NoSubs \/ Deliver \/ Drop

\* A unit of time passes; a step that is due may be late.
AgeOn ==
  /\ wait' = IF wait > 0 THEN wait - 1 ELSE 0
  /\ marks' = Aged(marks)
  /\ UNCHANGED <<dropEvery, subs, phase, gapNext, backoff, printed, outage>>

-----------------------------------------------------------------------------
\* A batch tells of an outage exactly when one came before it, in one mark:
\* no outage is forgotten over repeated drops and none is reported twice.
GapTellsOutage ==
  [][printed' # {} /\ printed' # printed =>
       Cardinality({m \in printed' : m.gap}) = IF outage # {} THEN 1 ELSE 0]_feedVars

\* feeds/base.py, contract 3: a dropped feed reconnects and resumes, and every
\* symbol subscribed to gets a mark, as long as the socket outlives one batch of
\* all the symbols.  With more drops every batch is lost, and then no mark stays
\* fresh: what a cycle printed before its drop does not count (marks.py:4-7).
OutlivesBatch == dropEvery = 0 \/ dropEvery > Cardinality(Symbols)

FeedResumes ==
  /\ OutlivesBatch /\ gapNext ~> ~gapNext
  /\ \A s \in Symbols : OutlivesBatch /\ s \in subs ~> s \in DOMAIN marks
  /\ \A s \in Symbols :
       dropEvery > 0 /\ Cardinality(subs) >= dropEvery ~> IsStale(marks, s)
=============================================================================
