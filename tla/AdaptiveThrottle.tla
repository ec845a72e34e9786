-------------------------- MODULE AdaptiveThrottle --------------------------
(***************************************************************************)
(* The backoff governor of the active depth suite, class AdaptiveThrottle  *)
(* of d4st/safety.py: one object shared by every stage of the suite, which *)
(* all pace themselves with pace() after each request: record the status,  *)
(* then wait.  Delays are counted in ticks; Base and Cap are chosen so     *)
(* that every halving the runs reach is exact.                             *)
(***************************************************************************)
EXTENDS Integers

CONSTANTS
    Base,          \* base_delay, in ticks
    Cap,           \* the cap of the delay, in ticks
    Quarter,       \* 0.25 s, the first delay of a throttle without a base
    MaxBackoffs    \* bound: the target answers 429 or 503 at most so often

ASSUME ThrottleAssumption ==
    /\ Base \in Nat /\ Cap \in Nat /\ Quarter \in Nat /\ MaxBackoffs \in Nat
    /\ Quarter > 0

VARIABLES
    delay,         \* the inter-request delay
    streak,        \* _healthy_streak, counted up to 5: only >= 5 is asked of it
    backoffs,
    calm           \* history: clean answers since the delay last changed, up to 5

tvars == <<delay, streak, backoffs, calm>>

Larger(a, b) == IF a >= b THEN a ELSE b
Smaller(a, b) == IF a <= b THEN a ELSE b
UpTo5(n) == Smaller(n, 5)

TInit ==
    /\ delay = Base
    /\ streak = 0
    /\ backoffs = 0
    /\ calm = 0

\* Wrong variant, kept for mutation: the delay started over once it would
\* pass the cap.
DoubledWrapped == IF Larger(Base, delay) * 2 > Cap THEN Base ELSE Larger(Base, delay) * 2

\* min(cap, max(base, delay) * 2 or 0.25)
Doubled == Smaller(Cap, IF Larger(Base, delay) = 0 THEN Quarter ELSE Larger(Base, delay) * 2)

\* Wrong variant: the last step to the base not taken.
HalvedAboveBase == IF delay \div 2 >= Base THEN delay \div 2 ELSE delay

Halved == Larger(Base, delay \div 2)

\* record() of a 429 or 503.
RecordBusy ==
    /\ backoffs < MaxBackoffs
    /\ delay' = Doubled
    /\ backoffs' = backoffs + 1
    /\ streak' = 0
    /\ calm' = 0

\* Wrong variant: the streak not reset once it has paid for a relaxation.
StreakKept == UpTo5(streak + 1)

\* What is left of the streak after it has paid for a relaxation.
StreakSpent == 0

\* record() of any other answer, and of none.
RecordClean ==
    /\ UNCHANGED backoffs
    /\ IF UpTo5(streak + 1) >= 5 /\ delay > Base
       THEN delay' = Halved /\ streak' = StreakSpent /\ calm' = 0
       ELSE /\ UNCHANGED delay
            /\ streak' = UpTo5(streak + 1)
            /\ calm' = UpTo5(calm + 1)

TNext == RecordBusy \/ RecordClean

TSpec == TInit /\ [][TNext]_tvars

\* The suite keeps sending requests and records each answer; the bound on
\* backoffs stands for a target that stops straining.
TFairSpec == TSpec /\ WF_tvars(RecordClean)
-----------------------------------------------------------------------------
TTypeOK ==
    /\ delay \in 0..Larger(Base, Cap)
    /\ streak \in 0..5
    /\ backoffs \in 0..MaxBackoffs
    /\ calm \in 0..5

\* "It only ever SLOWS the scan, never speeds it past the base delay", and a
\* straining target never stretches it past the cap.
NeverFasterThanBase == delay >= Base
WithinCap == Base <= Cap => delay <= Cap

\* A 429 or 503 never brings the next request forward.
StressNeverSpeedsUp == [][backoffs' > backoffs => delay' >= delay]_tvars

\* The delay shrinks only on the fifth clean answer in a row since it last
\* changed: every relaxation is paid for separately.
RelaxationIsEarned == [][delay' < delay => calm >= 4 /\ backoffs' = backoffs]_tvars

\* Once the target stops straining, the suite returns to its base pace and
\* stays there.
ReturnsToBase == <>[](delay = Base)
=============================================================================
