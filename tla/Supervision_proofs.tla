-------------------------- MODULE Supervision_proofs --------------------------
(***************************************************************************)
(* What runs beside the engines of a scan, for all values of the           *)
(* constants: the stress monitor, the throttle of the depth suite, the     *)
(* stall watchdog, the live record and the store.  The first four modules  *)
(* put a letter of their own before Init, Next and the invariant (H, T, W, *)
(* L), so that all five can be extended here.                              *)
(***************************************************************************)
EXTENDS TargetHealth, AdaptiveThrottle, StallWatch, LiveFeed, TriageStore,
        FiniteSetTheorems, TLAPS

-----------------------------------------------------------------------------
(***************************************************************************)
(* The stress monitor, for any number of pings and any answers of the      *)
(* target.                                                                 *)
(***************************************************************************)
\* The inductive invariant holds of every reachable state: types, the bands
\* of strikes per stage, and the account of the pings.
THEOREM HealthInvariance == HSpec => []HInv
<1>1. HInit => HInv
  BY DEF HInit, HInv, HTypeOK, StageMatchesStrikes, StressHasCause,
         StrikesAccountForPings, Load, Stages, Pings
<1>2. HInv /\ [HNext]_hvars => HInv'
  <2> SUFFICES ASSUME HInv, [HNext]_hvars PROVE HInv'
    OBVIOUS
  <2>1. CASE UNCHANGED hvars
    BY <2>1 DEF HInv, hvars, HTypeOK, StageMatchesStrikes, StressHasCause,
                StrikesAccountForPings, Load
  <2>2. ASSUME NEW ping \in Pings, Check(ping) PROVE HInv'
    <3> USE DEF Pings, Stages
    <3>1. HTypeOK'
      BY <2>2 DEF HInv, HTypeOK, Check, Charged, Escalated
    <3>2. StrikesAccountForPings'
      BY <2>2 DEF HInv, HTypeOK, Check, Charged, StrikesAccountForPings, Load
    <3>3. StageMatchesStrikes'
      BY <2>2 DEF HInv, HTypeOK, Check, Charged, Escalated, StageMatchesStrikes
    <3>4. Load' >= Load
      BY <2>2 DEF HInv, HTypeOK, Check, Load
    <3>5. StressHasCause'
      <4>1. /\ stage' = 2 => stage = 2 \/ strikes' >= 4
            /\ stage' = 1 => stage = 1 \/ strikes' >= 2
        BY <2>2, <3>1 DEF HInv, HTypeOK, Check, Escalated
      <4>2. /\ Load \in Nat /\ Load' \in Nat
            /\ strikes' \in Nat
            /\ strikes' <= Load'
        BY <3>1, <3>2 DEF HInv, HTypeOK, Load, StrikesAccountForPings
      <4> QED
        BY <4>1, <4>2, <3>4 DEF HInv, StressHasCause
    <3> QED
      BY <3>1, <3>2, <3>3, <3>5 DEF HInv
  <2> QED
    BY <2>1, <2>2 DEF HNext
<1> QED
  BY <1>1, <1>2, PTL DEF HSpec

\* No false alarm and no missed alarm, for every order of the answers: the
\* stage is the one the history of failures and recoveries calls for.
THEOREM AlarmsAreSound == HSpec => []AlarmFitsHistory
<1>1. HInv => StressHasCause
  BY DEF HInv
<1>2. HInv => StressIsNoticed
  <2> SUFFICES ASSUME HInv PROVE StressIsNoticed
    OBVIOUS
  <2>1. /\ Load \in Nat /\ strikes \in Nat /\ seen["ok"] \in Nat
        /\ Load <= strikes + seen["ok"]
        /\ stage \in 0..2
    BY DEF HInv, HTypeOK, Load, Pings, Stages, StrikesAccountForPings
  <2>2. /\ Load >= seen["ok"] + 4 => strikes >= 4
        /\ Load >= seen["ok"] + 2 => strikes >= 2
    BY <2>1
  <2> QED
    BY <2>1, <2>2 DEF HInv, StageMatchesStrikes, StressIsNoticed
<1> QED
  BY <1>1, <1>2, HealthInvariance, PTL DEF AlarmFitsHistory

\* Strikes and counts stay natural numbers, the stage one of the three.
THEOREM HealthTypes == HSpec => []HTypeOK
<1>1. HInv => HTypeOK
  BY DEF HInv
<1> QED
  BY <1>1, HealthInvariance, PTL

\* The stress stage never steps back and the injection depth never goes up
\* again, however long the target answers well.
THEOREM DepthIsMonotone == HSpec => NeverDeeperAgain
<1> DEFINE Deeper == /\ stage' >= stage
                     /\ \A base \in 1..5 : Level(stage', base) <= Level(stage, base)
<1>1. HInv /\ [HNext]_hvars => [Deeper]_hvars
  <2> SUFFICES ASSUME HInv, NEW ping \in Pings, Check(ping) PROVE Deeper
    BY DEF HNext
  <2>1. /\ stage' >= stage
        /\ stage \in 0..2
        /\ stage' \in 0..2
    BY DEF Check, Escalated, HInv, HTypeOK, Stages
  <2>2. \A base \in 1..5 : Level(stage', base) <= Level(stage, base)
    BY <2>1 DEF Level
  <2> QED
    BY <2>1, <2>2
<1> QED
  BY <1>1, HealthInvariance, PTL DEF HSpec, NeverDeeperAgain
-----------------------------------------------------------------------------
(***************************************************************************)
(* The throttle: for every base delay not above the cap, the delay stays   *)
(* between the two, stress never speeds the scan up, and every relaxation  *)
(* is earned.                                                              *)
(***************************************************************************)
\* The history of clean answers agrees with the streak the code keeps, and the
\* delay never leaves the interval from Base to Cap.
TInv ==
    /\ TTypeOK
    /\ NeverFasterThanBase
    /\ delay <= Cap
    /\ calm = streak

\* What the invariant says of the numbers the lemmas below are about.
LEMMA ThrottleNumbers == TInv => delay \in Nat /\ streak \in 0..5 /\ calm \in 0..5 /\ backoffs \in Nat
BY ThrottleAssumption DEF TInv, TTypeOK, Larger

\* A backoff stays between the base and the cap and never shortens the delay.
LEMMA DoubledBounds ==
    ASSUME delay \in Nat, Base <= delay, delay <= Cap
    PROVE  Doubled \in Nat /\ delay <= Doubled /\ Doubled <= Cap
<1>1. Larger(Base, delay) = delay
  BY ThrottleAssumption DEF Larger
<1>2. CASE delay = 0
  BY <1>1, <1>2, ThrottleAssumption DEF Doubled, Smaller
<1>3. CASE delay > 0
  <2>1. Doubled = Smaller(Cap, delay * 2)
    BY <1>1, <1>3 DEF Doubled
  <2> QED
    BY <2>1, <1>3, ThrottleAssumption DEF Smaller
<1> QED
  BY <1>2, <1>3

\* A relaxation stays above the base and never lengthens the delay.
LEMMA HalvedBounds ==
    ASSUME delay \in Nat, Base <= delay
    PROVE  Halved \in Nat /\ Base <= Halved /\ Halved <= delay
<1>1. delay \div 2 \in Nat /\ delay \div 2 <= delay
  OBVIOUS
<1> QED
  BY <1>1, ThrottleAssumption DEF Halved, Larger

\* One request keeps the invariant; both bounds come from the lemmas above.
LEMMA RecordPreserves ==
    ASSUME Base <= Cap, TInv, [TNext]_tvars
    PROVE  TInv'
<1> USE ThrottleNumbers
<1>1. CASE RecordBusy
  <2>1. delay' \in Nat /\ Base <= delay' /\ delay' <= Cap
    BY <1>1, DoubledBounds, ThrottleAssumption
       DEF RecordBusy, TInv, TTypeOK, NeverFasterThanBase
  <2>2. streak' = 0 /\ calm' = 0 /\ backoffs' \in 0..MaxBackoffs
    BY <1>1, ThrottleAssumption DEF RecordBusy, TInv, TTypeOK
  <2> QED
    BY <2>1, <2>2, ThrottleAssumption DEF TInv, TTypeOK, NeverFasterThanBase, Larger
<1>2. CASE RecordClean
  <2>1. CASE UpTo5(streak + 1) >= 5 /\ delay > Base
    <3>1. delay' \in Nat /\ Base <= delay' /\ delay' <= Cap
      BY <1>2, <2>1, HalvedBounds, ThrottleAssumption
         DEF RecordClean, TInv, TTypeOK, NeverFasterThanBase
    <3> QED
      BY <1>2, <2>1, <3>1, ThrottleAssumption
         DEF RecordClean, StreakSpent, TInv, TTypeOK, NeverFasterThanBase, Larger
  <2>2. CASE ~(UpTo5(streak + 1) >= 5 /\ delay > Base)
    BY <1>2, <2>2 DEF RecordClean, UpTo5, Smaller, TInv, TTypeOK, NeverFasterThanBase
  <2> QED
    BY <2>1, <2>2
<1>3. CASE UNCHANGED tvars
  BY <1>3 DEF tvars, TInv, TTypeOK, NeverFasterThanBase
<1> QED
  BY <1>1, <1>2, <1>3 DEF TNext

\* With a base delay not above the cap, every reachable delay lies between
\* the two.
THEOREM ThrottleInvariance == ASSUME Base <= Cap PROVE TSpec => []TInv
<1>1. TInit => TInv
  BY ThrottleAssumption DEF TInit, TInv, TTypeOK, NeverFasterThanBase, Larger
<1>2. TInv /\ [TNext]_tvars => TInv'
  BY RecordPreserves
<1> QED
  BY <1>1, <1>2, PTL DEF TSpec

\* Whatever the base and the cap: the delay stays between zero and the larger
\* of the two, the streak within five.
THEOREM ThrottleTypes == TSpec => []TTypeOK
<1>1. TInit => TTypeOK
  BY ThrottleAssumption DEF TInit, TTypeOK, Larger
<1>2. ASSUME TTypeOK, [TNext]_tvars PROVE TTypeOK'
  <2>1. /\ delay \in Nat /\ delay <= Larger(Base, Cap)
        /\ Base <= Larger(Base, Cap) /\ Cap <= Larger(Base, Cap)
        /\ Larger(Base, Cap) \in Nat
    BY <1>2, ThrottleAssumption DEF TTypeOK, Larger
  <2>2. Doubled \in 0..Larger(Base, Cap)
    <3>1. PICK n \in Nat : Doubled = Smaller(Cap, n)
      <4>1. Larger(Base, delay) \in Nat
        BY <2>1, ThrottleAssumption DEF Larger
      <4> QED BY <4>1, ThrottleAssumption DEF Doubled
    <3>2. Smaller(Cap, n) \in Nat /\ Smaller(Cap, n) <= Cap
      BY <3>1, ThrottleAssumption DEF Smaller
    <3> QED BY <2>1, <3>1, <3>2, ThrottleAssumption
  <2>3. Halved \in 0..Larger(Base, Cap)
    <3>1. delay \div 2 \in Nat /\ delay \div 2 <= delay
      BY <2>1
    <3>2. Halved = Base \/ Halved = delay \div 2
      BY DEF Halved, Larger
    <3> QED BY <2>1, <3>1, <3>2, ThrottleAssumption
  <2>4. CASE RecordBusy
    BY <1>2, <2>2, <2>4, ThrottleAssumption DEF RecordBusy, TTypeOK
  <2>5. CASE RecordClean
    <3>1. delay' \in 0..Larger(Base, Cap)
      BY <1>2, <2>3, <2>5 DEF RecordClean, TTypeOK
    <3>2. /\ UpTo5(streak + 1) \in 0..5 /\ UpTo5(calm + 1) \in 0..5
          /\ backoffs' \in 0..MaxBackoffs
      BY <1>2, <2>5 DEF RecordClean, TTypeOK, UpTo5, Smaller
    <3>3. streak' \in 0..5 /\ calm' \in 0..5
      BY <2>5, <3>2 DEF RecordClean, StreakSpent
    <3> QED BY <3>1, <3>2, <3>3 DEF TTypeOK
  <2>6. CASE UNCHANGED tvars
    BY <1>2, <2>6 DEF TTypeOK, tvars
  <2> QED BY <1>2, <2>4, <2>5, <2>6 DEF TNext
<1> QED
  BY <1>1, <1>2, PTL DEF TSpec

\* The docstring's promise: never faster than the base delay, never slower
\* than the cap.
THEOREM DelayStaysInBounds ==
    ASSUME Base <= Cap PROVE TSpec => [](NeverFasterThanBase /\ WithinCap)
<1>1. TInv => NeverFasterThanBase /\ WithinCap
  BY DEF TInv, WithinCap
<1> QED
  BY <1>1, ThrottleInvariance, PTL

\* A 429 or 503 never brings the next request forward.
THEOREM StressIsProtective == ASSUME Base <= Cap PROVE TSpec => StressNeverSpeedsUp
<1>1. TInv /\ [TNext]_tvars => [backoffs' > backoffs => delay' >= delay]_tvars
  <2> SUFFICES ASSUME TInv, TNext, backoffs' > backoffs PROVE delay' >= delay
    OBVIOUS
  <2>1. RecordBusy
    BY DEF TNext, RecordClean, TInv, TTypeOK
  <2>2. delay <= Doubled
    BY DoubledBounds DEF TInv, TTypeOK, NeverFasterThanBase
  <2>3. Doubled \in Nat
    BY DoubledBounds DEF TInv, TTypeOK, NeverFasterThanBase
  <2> QED
    BY <2>1, <2>2, <2>3 DEF RecordBusy, TInv, TTypeOK
<1> QED
  BY <1>1, ThrottleInvariance, PTL DEF TSpec, StressNeverSpeedsUp

\* The delay shrinks only on the fifth clean answer in a row since it last
\* changed.
THEOREM RelaxationsAreEarned == ASSUME Base <= Cap PROVE TSpec => RelaxationIsEarned
<1> DEFINE Earned == delay' < delay => calm >= 4 /\ backoffs' = backoffs
<1>1. TInv /\ [TNext]_tvars => [Earned]_tvars
  <2> SUFFICES ASSUME TInv, TNext, delay' < delay PROVE calm >= 4 /\ backoffs' = backoffs
    OBVIOUS
  <2>1. ~RecordBusy
    BY DoubledBounds DEF RecordBusy, TInv, TTypeOK, NeverFasterThanBase
  <2>2. RecordClean
    BY <2>1 DEF TNext
  <2>3. UpTo5(streak + 1) >= 5
    BY <2>2 DEF RecordClean, TInv, TTypeOK
  <2> QED
    BY <2>2, <2>3 DEF RecordClean, UpTo5, Smaller, TInv, TTypeOK
<1> QED
  BY <1>1, ThrottleInvariance, PTL DEF TSpec, RelaxationIsEarned
-----------------------------------------------------------------------------
(***************************************************************************)
(* The stall watchdog, for every window, ceiling and behaviour of the      *)
(* process it watches.                                                     *)
(***************************************************************************)
\* The probe tells the truth about a tree that only grows.
Sighted == ~Blind /\ ~Container

\* The work clock is not behind what a sighted probe has seen, and never ahead
\* of the last line and of the period after the last burst of CPU.
ClockInv ==
    /\ burned # "none" => burnAt = now
    /\ Sighted => busyAt <= lastWork
    /\ lastWork <= lastOut \/ lastWork <= burnAt + 1

WInv ==
    /\ WTypeOK
    /\ verdict = "running" => ClockInv /\ now <= Ceiling /\ waited = 0
    /\ open => verdict = "running"
    /\ Sighted => BusyIsSpared
    /\ HungIsNoticed

\* What one turn of the watch loop does to the work clock.
LEMMA PollClock ==
    ASSUME WatchAssumption, WInv, Poll
    PROVE  /\ now' = now + 1 /\ lastOut' = lastOut /\ burnAt' = burnAt
           /\ lastWork' \in 0..now'
           /\ busyAt' \in 0..now'
           /\ Sighted => busyAt' <= lastWork'
           /\ lastWork' <= lastOut' \/ lastWork' <= burnAt' + 1
<1>1. PICK answer \in DidWork : lastWork' = Worked(answer, now')
  BY DEF Poll
<1>2. /\ now' = now + 1 /\ lastOut' = lastOut /\ burnAt' = burnAt
      /\ busyAt' = IF burned = "more" /\ ~left THEN now' ELSE busyAt
      /\ ClockInv
      /\ now \in Nat /\ lastOut \in 0..now /\ lastWork \in 0..now
      /\ busyAt \in 0..now /\ burnAt \in 0..now
      /\ burned \in {"none", "some", "more"}
  BY DEF Poll, WInv, WTypeOK, WatchAssumption
<1>3. CASE answer = "yes"
  <2>1. burned # "none" /\ lastWork' = now + 1
    BY <1>1, <1>2, <1>3 DEF DidWork, Worked
  <2> QED BY <1>2, <2>1 DEF ClockInv
<1>4. CASE answer = "unknown"
  <2>1. lastWork' = lastOut /\ ~Sighted
    BY <1>1, <1>2, <1>4 DEF DidWork, Worked, Sighted
  <2> QED BY <1>2, <2>1 DEF ClockInv
<1>5. CASE answer = "no"
  <2>1. lastWork' = lastWork
    BY <1>1, <1>5 DEF Worked
  <2>2. Sighted => ~(burned = "more" /\ ~left)
    BY <1>1, <1>5 DEF DidWork, Sighted
  <2> QED BY <1>2, <2>1, <2>2 DEF ClockInv
<1>6. answer \in {"yes", "no", "unknown"}
  BY <1>1 DEF DidWork
<1> QED BY <1>3, <1>4, <1>5, <1>6

\* Every step preserves the inductive invariant.
LEMMA WatchPreserves ==
    ASSUME WatchAssumption, WInv, [WNext]_wvars
    PROVE  WInv'
<1> USE DEF WInv, WTypeOK, ClockInv, BusyIsSpared, HungIsNoticed
<1>0. Stall \in Nat /\ Ceiling \in Nat /\ Grace \in Nat /\ (Sighted' <=> Sighted)
  BY DEF WatchAssumption, Sighted
<1>1. CASE Emit
  BY <1>0, <1>1 DEF Emit
<1>2. ASSUME NEW amount \in {"some", "more"}, Burn(amount) PROVE WInv'
  BY <1>0, <1>2 DEF Burn
<1>3. CASE ChildLeaves
  BY <1>0, <1>3 DEF ChildLeaves
<1>4. CASE Exit
  BY <1>0, <1>4 DEF Exit
<1>5. CASE Poll
  <2>1. /\ now' = now + 1 /\ lastOut' = lastOut /\ burnAt' = burnAt
        /\ lastWork' \in 0..now' /\ busyAt' \in 0..now'
        /\ Sighted => busyAt' <= lastWork'
        /\ lastWork' <= lastOut' \/ lastWork' <= burnAt' + 1
    BY <1>5, PollClock
  <2>2. /\ verdict = "running" /\ now <= Ceiling
        /\ burned' = "none" /\ left' = FALSE /\ waited' = waited
        /\ IF verdict' = "running" THEN process' = process /\ open' = open
                                   ELSE process' = "killed" /\ open' = FALSE
        /\ verdict' = IF Stuck(lastOut, lastWork', now') THEN "stuck"
                      ELSE IF Over(now') THEN "ceiling" ELSE "running"
    BY <1>5 DEF Poll
  <2>3. WTypeOK'
    <3>1. /\ now' \in 0..(Ceiling + 1 + waited') /\ waited' \in 0..Grace
          /\ lastOut' \in 0..now' /\ burnAt' \in 0..now'
      BY <1>0, <2>1, <2>2
    <3>2. /\ process' \in {"runs", "ended", "killed"} /\ open' \in BOOLEAN
          /\ left' \in BOOLEAN /\ burned' \in {"none", "some", "more"}
      BY <2>2
    <3>3. verdict' \in {"running", "stuck", "ceiling", "completed"}
      BY <2>2
    <3> QED BY <2>1, <3>1, <3>2, <3>3
  <2>i. now' \in Int /\ lastOut' \in Int /\ lastWork' \in Int /\ burnAt' \in Int /\ busyAt' \in Int
    BY <2>1, <2>3
  <2>4. CASE verdict' = "stuck"
    <3>1. now' - lastOut' > Stall /\ now' - lastWork' > Stall
      BY <2>1, <2>2, <2>4 DEF Stuck
    <3>2. HungIsNoticed'
      BY <2>4, <3>1
    <3>3. Sighted => BusyIsSpared'
      <4>1. Sighted => now' - busyAt' > Stall
        BY ONLY <1>0, <2>1, <2>i, <3>1
      <4> QED BY <4>1
    <3> QED BY <1>0, <2>2, <2>3, <2>4, <3>2, <3>3
  <2>5. CASE verdict' = "ceiling"
    <3>1. now' > Ceiling
      BY <2>2, <2>5 DEF Over
    <3> QED BY <1>0, <2>1, <2>2, <2>3, <2>5, <3>1
  <2>6. CASE verdict' = "running"
    <3>1. ~(now' > Ceiling) /\ ~(now' - lastOut' > Stall /\ now' - lastWork' > Stall)
      BY <2>1, <2>2, <2>6 DEF Over, Stuck
    <3>2. BusyIsSpared'
      BY <2>6
    <3>3. HungIsNoticed'
      <4>1. now' - lastOut' <= Stall \/ now' - burnAt' <= Stall + 1
        BY ONLY <1>0, <2>1, <2>i, <3>1
      <4> QED BY <4>1
    <3>4. ClockInv' /\ now' <= Ceiling /\ waited' = 0 /\ verdict' = "running"
      BY <1>0, <2>1, <2>2, <2>3, <2>6, <3>1
    <3> QED BY <2>3, <3>2, <3>3, <3>4
  <2> QED BY <2>2, <2>4, <2>5, <2>6
<1>6. CASE Complete
  BY <1>0, <1>6 DEF Complete
<1>7. CASE ReaderEnds
  BY <1>0, <1>7 DEF ReaderEnds
<1>8. CASE Wait
  BY <1>0, <1>8 DEF Wait
<1>9. CASE KillAfterwards
  BY <1>0, <1>9 DEF KillAfterwards
<1>10. CASE UNCHANGED wvars
  BY <1>0, <1>10 DEF wvars
<1> QED BY <1>1, <1>2, <1>3, <1>4, <1>5, <1>6, <1>7, <1>8, <1>9, <1>10 DEF WNext

\* The inductive invariant holds throughout.
THEOREM WatchInvariance == ASSUME WatchAssumption PROVE WSpec => []WInv
<1>1. WInit => WInv
  <2> SUFFICES ASSUME WInit PROVE WInv
    OBVIOUS
  <2>1. WTypeOK
    <3>1. now = 0 /\ lastOut = 0 /\ lastWork = 0 /\ busyAt = 0 /\ burnAt = 0
      BY DEF WInit
    <3>2. /\ open \in BOOLEAN /\ left \in BOOLEAN /\ burned = "none" /\ verdict = "running"
          /\ process = "runs" /\ waited = 0
      BY DEF WInit
    <3>3. 0 \in 0..(Ceiling + 1) /\ 0 \in 0..Grace
      BY DEF WatchAssumption
    <3> QED BY <3>1, <3>2, <3>3 DEF WTypeOK
  <2>2. ClockInv /\ now <= Ceiling /\ waited = 0 /\ verdict = "running"
    BY DEF WatchAssumption, WInit, ClockInv
  <2>3. BusyIsSpared /\ HungIsNoticed
    BY DEF WatchAssumption, WInit, BusyIsSpared, HungIsNoticed
  <2> QED BY <2>1, <2>2, <2>3 DEF WInv
<1>2. WInv /\ [WNext]_wvars => WInv'
  BY WatchPreserves
<1> QED BY <1>1, <1>2, PTL DEF WSpec

\* The clocks never run ahead of the time, nor the time past the ceiling by
\* more than the poll that notices it and the last wait.
THEOREM WatchTypes == ASSUME WatchAssumption PROVE WSpec => []WTypeOK
<1>1. WInv => WTypeOK
  BY DEF WInv
<1> QED BY <1>1, WatchInvariance, PTL

\* A process that neither writes nor computes is not waited for beyond the
\* window (_run_stalled).
THEOREM WatchIsPrompt ==
    ASSUME WatchAssumption
    PROVE  WSpec => []HungIsNoticed
<1>1. WInv => HungIsNoticed
  BY DEF WInv
<1> QED BY <1>1, WatchInvariance, PTL

\* With a CPU probe that never fails, a process tree that keeps computing is
\* never dropped as stuck, however little it writes.
THEOREM WatchIsPatient ==
    ASSUME WatchAssumption, Sighted
    PROVE  WSpec => []BusyIsSpared
<1>1. WInv => BusyIsSpared
  BY DEF WInv
<1> QED BY <1>1, WatchInvariance, PTL
-----------------------------------------------------------------------------
(***************************************************************************)
(* The live record of each scan, for any number of scans, killed at any    *)
(* moment, whose process ids differ.                                       *)
(***************************************************************************)
\* What a scan has opened, written and put in place, by where it stands.
LInv ==
    /\ LTypeOK
    /\ RecordIsLatest
    /\ \A s \in Scans :
          /\ at[s] \in {"dumping", "closing"} => tmp[Pid[s]] # Absent
          /\ at[s] \in {"replacing", "ending"} =>
                tmp[Pid[s]] \in {Record(s), FinalRecord(s)}

\* The records a scan writes are records.
LEMMA RecordTypes ==
    ASSUME LTypeOK, NEW s \in Scans
    PROVE  /\ Record(s) \in Records /\ FinalRecord(s) \in Records /\ Torn(s) \in Records
           /\ Pid[s] \in Pids
BY FeedAssumption DEF LTypeOK, Records, Record, FinalRecord, Torn

\* Whatever scans share, the files hold records or nothing.
LEMMA LTypePreserved == ASSUME LTypeOK, [LNext]_lvars PROVE LTypeOK'
<1>1. ASSUME NEW s \in Scans,
             BeginUpdate(s) \/ BeginSummary(s) \/ Dump(s) \/ Replace(s) \/ Ingest(s) \/ Kill(s)
      PROVE  LTypeOK'
  <2> USE FeedAssumption DEF LTypeOK
  <2>1. CASE BeginUpdate(s)
    BY <2>1, RecordTypes DEF BeginUpdate, OpenTmp
  <2>2. CASE BeginSummary(s)
    BY <2>2, RecordTypes DEF BeginSummary, OpenTmp
  <2>3. CASE Dump(s)
    BY <2>3, RecordTypes DEF Dump
  <2>4. CASE Replace(s)
    BY <2>4, RecordTypes DEF Replace
  <2>5. CASE Ingest(s)
    BY <2>5 DEF Ingest
  <2>6. CASE Kill(s)
    BY <2>6 DEF Kill
  <2> QED
    BY <1>1, <2>1, <2>2, <2>3, <2>4, <2>5, <2>6
<1>2. CASE Tick
  BY <1>2, FeedAssumption DEF Tick, LTypeOK
<1>3. CASE UNCHANGED lvars
  BY <1>3 DEF lvars, LTypeOK
<1> QED
  BY <1>1, <1>2, <1>3 DEF LNext

\* Scans with process ids of their own leave each other's files alone, and
\* each moves its own record into place whole.
LEMMA LPreserved ==
    ASSUME \A s, r \in Scans : Pid[s] = Pid[r] => s = r, LInv, [LNext]_lvars
    PROVE  LInv'
<1>1. LTypeOK /\ LTypeOK'
  BY LTypePreserved DEF LInv
<1>2. ASSUME NEW s \in Scans,
             BeginUpdate(s) \/ BeginSummary(s) \/ Dump(s) \/ Replace(s) \/ Ingest(s) \/ Kill(s)
      PROVE  LInv'
  <2>1. CASE BeginUpdate(s)
    BY <1>1, <2>1, RecordTypes, FeedAssumption
       DEF LInv, LTypeOK, RecordIsLatest, BeginUpdate, OpenTmp, Record, FinalRecord
  <2>2. CASE BeginSummary(s)
    BY <1>1, <2>2, RecordTypes, FeedAssumption
       DEF LInv, LTypeOK, RecordIsLatest, BeginSummary, OpenTmp, Record, FinalRecord
  <2>3. CASE Dump(s)
    BY <1>1, <2>3, RecordTypes, FeedAssumption
       DEF LInv, LTypeOK, RecordIsLatest, Dump, Record, FinalRecord
  <2>4. CASE Replace(s)
    <3>1. /\ tmp[Pid[s]] \in {Record(s), FinalRecord(s)} /\ tmp[Pid[s]] # Absent
          /\ Pid[s] \in Pids /\ \A r \in Scans : Pid[r] \in Pids
      BY <2>4, RecordTypes, FeedAssumption DEF Replace, LInv
    <3>2. /\ file' = [file EXCEPT ![Pid[s]] = tmp[Pid[s]]]
          /\ tmp' = [tmp EXCEPT ![Pid[s]] = Absent]
          /\ written' = [written EXCEPT ![s] = step[s]]
          /\ at' = [at EXCEPT ![s] = IF @ = "ending" THEN "ended" ELSE "engine"]
          /\ step' = step
      BY <2>4, <3>1 DEF Replace
    <3>3. /\ file'[Pid[s]] = tmp[Pid[s]] /\ written'[s] = step[s]
          /\ at'[s] \in {"ended", "engine"}
      BY <1>1, <3>1, <3>2 DEF LTypeOK
    <3>4. \A r \in Scans : r # s =>
             /\ file'[Pid[r]] = file[Pid[r]] /\ tmp'[Pid[r]] = tmp[Pid[r]]
             /\ written'[r] = written[r] /\ at'[r] = at[r]
      BY <1>1, <3>1, <3>2 DEF LTypeOK
    <3>5. file'[Pid[s]] # Absent /\ file'[Pid[s]].whole /\ file'[Pid[s]].by = s
          /\ file'[Pid[s]].step = written'[s]
      BY <3>1, <3>3 DEF Record, FinalRecord
    <3> QED
      BY <1>1, <3>2, <3>3, <3>4, <3>5 DEF LInv, RecordIsLatest, Record, FinalRecord
  <2>5. CASE Ingest(s)
    BY <1>1, <2>5 DEF LInv, LTypeOK, RecordIsLatest, Ingest, Record, FinalRecord
  <2>6. CASE Kill(s)
    BY <1>1, <2>6 DEF LInv, LTypeOK, RecordIsLatest, Kill, Record, FinalRecord
  <2> QED
    BY <1>2, <2>1, <2>2, <2>3, <2>4, <2>5, <2>6
<1>3. CASE Tick
  BY <1>1, <1>3 DEF LInv, Tick, RecordIsLatest, Record, FinalRecord
<1>4. CASE UNCHANGED lvars
  BY <1>1, <1>4 DEF LInv, lvars, RecordIsLatest, Record, FinalRecord
<1> QED
  BY <1>2, <1>3, <1>4 DEF LNext

\* The files hold records or nothing, whether or not scans share an id.
THEOREM FeedTypes == LSpec => []LTypeOK
<1>1. LInit => LTypeOK
  BY FeedAssumption DEF LInit, LTypeOK
<1> QED
  BY <1>1, LTypePreserved, PTL DEF LSpec

\* Whatever a scan was doing when it was killed, the record the console reads
\* is whole, its own and its latest, if no two scans have one process id.
THEOREM RecordsAreLatest ==
    ASSUME \A s, r \in Scans : Pid[s] = Pid[r] => s = r
    PROVE  LSpec => []RecordIsLatest
<1>1. LInit => LInv
  BY FeedAssumption DEF LInit, LInv, LTypeOK, RecordIsLatest
<1>2. LInv /\ [LNext]_lvars => LInv'
  BY LPreserved
<1>3. LInv => RecordIsLatest
  BY DEF LInv
<1> QED
  BY <1>1, <1>2, <1>3, PTL DEF LSpec

-----------------------------------------------------------------------------
(***************************************************************************)
(* The store, for any keys, verdicts, analysts and ingesters, any number   *)
(* of ingests and judgements: it implements the registry of ScanRegistry,  *)
(* and a verdict given while no ingest is under way survives.              *)
(***************************************************************************)
\* Rows as the store keeps them: an id of its own for each, and for each key a
\* row with the highest id (what a finite table has; kept as an invariant, an
\* insert at a time).
Sane(R) ==
    /\ R \subseteq Rows
    /\ \A r, s \in R : r.id = s.id => r = s
    /\ \A k \in KeysOf(R) : \E r \in RowsOf(R, k) : \A s \in RowsOf(R, k) : s.id <= r.id

\* The rows an ingest has inserted so far.
Inserted(p) ==
    /\ \A r \in pending : /\ r.id \in 1..(ing[p].next - 1)
                          /\ r.key = ing[p].result[r.id]
                          /\ r.verdict = Carried(p, r.key)
    /\ \A n \in 1..(ing[p].next - 1) : \E r \in pending : r.id = n

IngestState == [at : {"idle", "carried", "writing"}, result : Seq(Keys),
           carry : UNION {[K -> Verdicts] : K \in SUBSET Keys}, next : Nat \ {0}]

IngesterInv(p) ==
    /\ ing[p].at # "idle" => ing[p].result \in Results
    /\ ing[p].at = "idle" => ing[p] = AtRest
    /\ ing[p].at = "carried" => ing[p].next = 1
    /\ ing[p].at = "writing" <=> lock = p
    /\ ing[p].next <= Len(ing[p].result) + 1
    /\ ing[p].at = "writing" => Inserted(p)

IInv ==
    /\ Sane(rows) /\ Sane(pending)
    /\ lock = Nobody => pending = {}
    /\ ing \in [Ingesters -> IngestState]
    /\ \A p \in Ingesters : IngesterInv(p)
    /\ lock \in Ingesters \union {Nobody}
    /\ desk \in [Analysts -> [at : {"away", "looking", "checked"}, id : Nat,
                              finding : Keys \union {"none"}]]
    /\ \A a \in Analysts : desk[a].at # "away" => desk[a].finding \in Keys
    /\ ingests \in Nat /\ judgements \in Nat

\* The last row of a key is a row of that key, and the one with the highest id.
LEMMA LastRowIs ==
    ASSUME NEW R, Sane(R), NEW k \in KeysOf(R)
    PROVE  /\ LastRow(R, k) \in R
           /\ LastRow(R, k).key = k
           /\ \A s \in R : s.key = k => s.id <= LastRow(R, k).id
BY DEF Sane, LastRow, RowsOf

\* ... and it is the only such row.
LEMMA LastRowOnly ==
    ASSUME NEW R, Sane(R), NEW r \in R, \A s \in R : s.key = r.key => s.id <= r.id
    PROVE  LastRow(R, r.key) = r
<1>1. r.key \in KeysOf(R)
  BY DEF KeysOf
<1>2. /\ LastRow(R, r.key) \in R
      /\ LastRow(R, r.key).key = r.key
      /\ r.id <= LastRow(R, r.key).id
  BY <1>1, LastRowIs
<1>3. LastRow(R, r.key).id <= r.id
  BY <1>2
<1>4. r.id \in Nat /\ LastRow(R, r.key).id \in Nat
  BY <1>2 DEF Sane, Rows
<1> QED
  BY <1>2, <1>3, <1>4 DEF Sane

\* The rows after a verdict: the same ids and keys, one verdict changed.
LEMMA JudgedIs ==
    ASSUME NEW R, Sane(R), NEW id, NEW v \in Verdicts
    PROVE  /\ Sane(Judged(R, id, v))
           /\ KeysOf(Judged(R, id, v)) = KeysOf(R)
           /\ \A r \in R : r.id # id => r \in Judged(R, id, v)
           /\ \A r \in R : r.id = id => [r EXCEPT !.verdict = v] \in Judged(R, id, v)
<1> DEFINE new(r) == IF r.id = id THEN [r EXCEPT !.verdict = v] ELSE r
<1>1. \A r \in R : /\ new(r) \in Rows
                   /\ new(r).id = r.id /\ new(r).key = r.key
  BY DEF Sane, Rows
<1>2. Judged(R, id, v) = {new(r) : r \in R}
  BY DEF Judged
<1> HIDE DEF new
<1>3. KeysOf(Judged(R, id, v)) = KeysOf(R)
  BY <1>1, <1>2 DEF KeysOf
<1>4. Judged(R, id, v) \subseteq Rows
  BY <1>1, <1>2
<1>5. ASSUME NEW r \in Judged(R, id, v), NEW s \in Judged(R, id, v), r.id = s.id
      PROVE  r = s
  BY <1>1, <1>2, <1>5 DEF Sane
<1>6. ASSUME NEW k \in KeysOf(R)
      PROVE  \E r \in RowsOf(Judged(R, id, v), k) :
                \A s \in RowsOf(Judged(R, id, v), k) : s.id <= r.id
  <2>1. PICK m \in RowsOf(R, k) : \A s \in RowsOf(R, k) : s.id <= m.id
    BY DEF Sane
  <2>2. new(m) \in RowsOf(Judged(R, id, v), k)
    BY <1>1, <1>2 DEF RowsOf
  <2>3. \A s \in RowsOf(Judged(R, id, v), k) : s.id <= new(m).id
    BY <1>1, <1>2, <2>1 DEF RowsOf
  <2> QED BY <2>2, <2>3
<1>7. Sane(Judged(R, id, v))
  BY <1>3, <1>4, <1>5, <1>6 DEF Sane
<1> QED
  BY <1>2, <1>3, <1>7 DEF new

\* What an ingest saves are verdicts of keys.
LEMMA CarryIs ==
    ASSUME NEW R, Sane(R)
    PROVE  /\ KeysOf(R) \in SUBSET Keys
           /\ Carry(R) \in [KeysOf(R) -> Verdicts]
<1>1. KeysOf(R) \in SUBSET Keys
  BY DEF KeysOf, Sane, Rows
<1>2. \A k \in KeysOf(R) : LastRow(R, k).verdict \in Verdicts
  BY LastRowIs DEF Sane, Rows
<1> QED BY <1>1, <1>2 DEF Carry

\* The next free id of a transaction that has inserted n rows.
LEMMA NextId ==
    ASSUME NEW n \in Nat \ {0}, NEW R,
           \A r \in R : r.id \in 1..(n - 1),
           \A m \in 1..(n - 1) : \E r \in R : r.id = m
    PROVE  Max({r.id : r \in R} \union {0}) = n - 1
<1> DEFINE S == {r.id : r \in R} \union {0}
<1>1. S = 0..(n - 1)
  OBVIOUS
<1> HIDE DEF S
<1>2. n - 1 \in S /\ \A y \in S : n - 1 >= y
  BY <1>1
<1>3. \A x \in S : (\A y \in S : x >= y) => x = n - 1
  BY <1>1, <1>2
<1>4. Max(S) = n - 1
  BY <1>2, <1>3 DEF Max
<1> QED BY <1>4 DEF S

\* One more row, under an id above all others.
LEMMA InsertIs ==
    ASSUME NEW R, Sane(R), NEW r \in Rows, \A s \in R : s.id < r.id
    PROVE  Sane(R \union {r})
<1> DEFINE T == R \union {r}
<1>1. T \subseteq Rows
  BY DEF Sane
<1>2. ASSUME NEW s \in T, NEW t \in T, s.id = t.id PROVE s = t
  BY <1>2 DEF Sane, Rows
<1>3. ASSUME NEW k \in KeysOf(T)
      PROVE  \E m \in RowsOf(T, k) : \A s \in RowsOf(T, k) : s.id <= m.id
  <2>1. CASE k = r.key
    <3>1. r \in RowsOf(T, k)
      BY <2>1 DEF RowsOf
    <3>2. \A s \in RowsOf(T, k) : s.id <= r.id
      BY DEF RowsOf, Sane, Rows
    <3> QED BY <3>1, <3>2
  <2>2. CASE k # r.key
    <3>1. RowsOf(T, k) = RowsOf(R, k)
      BY <2>2 DEF RowsOf
    <3>2. k \in KeysOf(R)
      BY <2>2 DEF KeysOf
    <3> QED BY <3>1, <3>2 DEF Sane
  <2> QED BY <2>1, <2>2
<1> QED BY <1>1, <1>2, <1>3 DEF Sane
-----------------------------------------------------------------------------
LEMMA AtRestTyped == AtRest \in IngestState
<1>1. <<>> \in [{} -> Verdicts]
  OBVIOUS
<1>2. <<>> \in UNION {[K -> Verdicts] : K \in SUBSET Keys}
  BY <1>1
<1>3. <<>> \in Seq(Keys)
  OBVIOUS
<1>4. \A r \in Seq(Keys), c \in UNION {[K -> Verdicts] : K \in SUBSET Keys} :
         [at |-> "idle", result |-> r, carry |-> c, next |-> 1] \in IngestState
  BY DEF IngestState
<1> QED BY <1>2, <1>3, <1>4, Zenon DEF AtRest

LEMMA InitInv == Init => IInv
<1> SUFFICES ASSUME Init PROVE IInv
  OBVIOUS
<1>1. Sane({})
  BY DEF Sane, KeysOf
<1> QED
  BY <1>1, AtRestTyped, StoreAssumption DEF Init, IInv, IngesterInv, AtRest, Away, Nobody

LEMMA ReadCarryPreserves ==
    ASSUME IInv, NEW p \in Ingesters, NEW result \in Results, ReadCarry(p, result)
    PROVE  IInv'
<1>1. result \in Seq(Keys)
  BY StoreAssumption
<1>2. Carry(rows) \in UNION {[K -> Verdicts] : K \in SUBSET Keys}
  BY CarryIs DEF IInv
<1> DEFINE begun == [at |-> "carried", result |-> result, carry |-> Carry(rows), next |-> 1]
<1>3. begun \in IngestState
  BY <1>1, <1>2 DEF IngestState
<1>4. ing' = [ing EXCEPT ![p] = begun] /\ UNCHANGED <<rows, lock, pending, desk, judgements>>
  BY DEF ReadCarry
<1>5. ing' \in [Ingesters -> IngestState]
  BY <1>3, <1>4 DEF IInv
<1>6. ing'[p] = begun /\ \A q \in Ingesters \ {p} : ing'[q] = ing[q]
  BY <1>4 DEF IInv
<1>7. lock # p
  BY DEF IInv, IngesterInv, ReadCarry
<1>8. IngesterInv(p)'
  BY <1>1, <1>4, <1>6, <1>7 DEF IngesterInv
<1>9. ASSUME NEW q \in Ingesters \ {p} PROVE IngesterInv(q)'
  BY <1>4, <1>6 DEF IInv, IngesterInv, Inserted, Carried
<1> QED
  BY <1>4, <1>5, <1>8, <1>9 DEF IInv, ReadCarry, Sane, KeysOf, RowsOf

LEMMA WipePreserves ==
    ASSUME IInv, NEW p \in Ingesters, Wipe(p)
    PROVE  IInv'
<1>1. /\ ing' = [ing EXCEPT ![p].at = "writing"]
      /\ lock = Nobody /\ lock' = p /\ pending' = {}
      /\ UNCHANGED <<rows, desk, ingests, judgements>>
  BY DEF Wipe
<1>2. ing[p] \in IngestState /\ ing[p].at = "carried"
  BY DEF IInv, Wipe
<1>3. [ing[p] EXCEPT !.at = "writing"] \in IngestState
  BY <1>2 DEF IngestState
<1>4. ing' \in [Ingesters -> IngestState]
  BY <1>1, <1>3 DEF IInv
<1>5. /\ ing'[p].at = "writing" /\ ing'[p].next = ing[p].next
      /\ ing'[p].result = ing[p].result
      /\ \A q \in Ingesters \ {p} : ing'[q] = ing[q]
  BY <1>1, <1>2 DEF IInv, IngestState
<1>6. IngesterInv(p)'
  BY <1>1, <1>2, <1>5 DEF IInv, IngesterInv, Inserted
<1>7. ASSUME NEW q \in Ingesters \ {p} PROVE IngesterInv(q)'
  BY <1>1, <1>5, StoreAssumption DEF IInv, IngesterInv
<1>8. Sane(pending')
  BY <1>1 DEF Sane, KeysOf
<1> QED
  BY <1>1, <1>4, <1>6, <1>7, <1>8 DEF IInv, Sane, KeysOf, RowsOf

LEMMA InsertPreserves ==
    ASSUME IInv, NEW p \in Ingesters, InsertFinding(p)
    PROVE  IInv'
<1> DEFINE n == ing[p].next
           k == ing[p].result[n]
           row == [id |-> n, key |-> k, verdict |-> Carried(p, k)]
<1>1. /\ ing[p].at = "writing" /\ n <= Len(ing[p].result)
      /\ ing' = [ing EXCEPT ![p].next = @ + 1]
      /\ UNCHANGED <<rows, lock, desk, ingests, judgements>>
  BY DEF InsertFinding
<1>2. ing[p] \in IngestState /\ Inserted(p) /\ lock = p
  BY <1>1 DEF IInv, IngesterInv
<1>3. n \in Nat \ {0} /\ ing[p].result \in Seq(Keys) /\ k \in Keys
  <2>1. n \in Nat \ {0} /\ ing[p].result \in Seq(Keys)
    BY <1>2 DEF IngestState
  <2> QED BY <1>1, <2>1
<1>4. Carried(p, k) \in Verdicts
  <2>1. ing[p].carry \in UNION {[K -> Verdicts] : K \in SUBSET Keys}
    BY <1>2 DEF IngestState
  <2>2. PICK K \in SUBSET Keys : ing[p].carry \in [K -> Verdicts]
    BY <2>1
  <2> QED BY <2>2, StoreAssumption DEF Carried
<1>5. row \in Rows
  BY <1>3, <1>4 DEF Rows
<1>6. pending' = pending \union {row}
  <2>1. Max({r.id : r \in pending} \union {0}) = n - 1
    BY <1>2, <1>3, NextId DEF Inserted
  <2>2. Max({r.id : r \in pending} \union {0}) + 1 = n
    BY <1>3, <2>1
  <2> QED BY <2>2 DEF InsertFinding
<1>7. Sane(pending')
  <2>1. \A s \in pending : s.id < row.id
    BY <1>2, <1>3 DEF Inserted
  <2> QED BY <1>5, <1>6, <2>1, InsertIs DEF IInv
<1>8. /\ ing'[p] = [ing[p] EXCEPT !.next = n + 1]
      /\ \A q \in Ingesters \ {p} : ing'[q] = ing[q]
  BY <1>1 DEF IInv
<1>9. ing' \in [Ingesters -> IngestState]
  <2>1. [ing[p] EXCEPT !.next = n + 1] \in IngestState
    BY <1>2, <1>3 DEF IngestState
  <2> QED BY <1>1, <2>1 DEF IInv
<1>10. /\ ing'[p].next = n + 1 /\ ing'[p].at = "writing"
       /\ ing'[p].result = ing[p].result /\ ing'[p].carry = ing[p].carry
  BY <1>1, <1>2, <1>8 DEF IngestState
<1>11. Inserted(p)'
  <2>1. \A r \in pending' : /\ r.id \in 1..n
                             /\ r.key = ing[p].result[r.id]
                             /\ r.verdict = Carried(p, r.key)
    BY <1>2, <1>3, <1>6 DEF Inserted
  <2>2. ASSUME NEW m \in 1..n PROVE \E r \in pending' : r.id = m
    <3>1. CASE m = n
      <4>1. row \in pending' /\ row.id = m
        BY <1>6, <3>1
      <4> QED BY <4>1
    <3>2. CASE m # n
      <4>1. m \in 1..(n - 1)
        BY <1>3, <3>2
      <4>2. \E r \in pending : r.id = m
        BY <1>2, <4>1 DEF Inserted
      <4> QED BY <1>6, <4>2
    <3> QED BY <3>1, <3>2
  <2>3. ing'[p].next - 1 = n
    BY <1>3, <1>10
  <2>4. \A j : Carried(p, j)' = Carried(p, j)
    BY <1>10 DEF Carried
  <2> QED
    <3> HIDE DEF n, k, row
    <3> QED BY <1>10, <2>1, <2>2, <2>3, <2>4 DEF Inserted
<1>12. IngesterInv(p)'
  <2>1. n + 1 <= Len(ing[p].result) + 1
    BY <1>1, <1>3
  <2> QED BY <1>1, <1>2, <1>10, <1>11, <2>1 DEF IInv, IngesterInv
<1>13. ASSUME NEW q \in Ingesters \ {p} PROVE IngesterInv(q)'
  BY <1>1, <1>2, <1>8 DEF IInv, IngesterInv
<1>14. lock' # Nobody
  BY <1>1, <1>2, StoreAssumption
<1> QED
  BY <1>1, <1>7, <1>9, <1>12, <1>13, <1>14 DEF IInv, Sane, KeysOf, RowsOf

LEMMA CommitPreserves ==
    ASSUME IInv, NEW p \in Ingesters, Commit(p)
    PROVE  IInv'
<1>1. /\ ing[p].at = "writing" /\ lock' = Nobody /\ pending' = {}
      /\ rows' = pending /\ ing' = [ing EXCEPT ![p] = AtRest]
      /\ UNCHANGED <<desk, ingests, judgements>>
  BY DEF Commit
<1>2. Sane(rows') /\ Sane(pending')
  BY <1>1 DEF IInv, Sane, KeysOf, RowsOf
<1>3. ing' \in [Ingesters -> IngestState]
  BY <1>1, AtRestTyped DEF IInv
<1>4. lock = p
  BY <1>1 DEF IInv, IngesterInv
<1>5. ing'[p] = AtRest /\ \A q \in Ingesters \ {p} : ing'[q] = ing[q]
  BY <1>1 DEF IInv
<1>6. IngesterInv(p)'
  BY <1>1, <1>5, StoreAssumption DEF IngesterInv, AtRest
<1>7. ASSUME NEW q \in Ingesters \ {p} PROVE IngesterInv(q)'
  BY <1>1, <1>4, <1>5, StoreAssumption DEF IInv, IngesterInv
<1> QED
  BY <1>1, <1>2, <1>3, <1>6, <1>7 DEF IInv

LEMMA CrashPreserves ==
    ASSUME IInv, NEW p \in Ingesters, Crash(p)
    PROVE  IInv'
<1>1. /\ ing' = [ing EXCEPT ![p] = AtRest]
      /\ IF lock = p THEN lock' = Nobody /\ pending' = {} ELSE UNCHANGED <<lock, pending>>
      /\ UNCHANGED <<rows, desk, ingests, judgements>>
  BY DEF Crash
<1>2. Sane(rows') /\ Sane(pending')
  BY <1>1 DEF IInv, Sane, KeysOf, RowsOf
<1>3. ing' \in [Ingesters -> IngestState]
  BY <1>1, AtRestTyped DEF IInv
<1>4. ing'[p] = AtRest /\ \A q \in Ingesters \ {p} : ing'[q] = ing[q]
  BY <1>1 DEF IInv
<1>5. IngesterInv(p)'
  BY <1>1, <1>4, StoreAssumption DEF IngesterInv, AtRest
<1>6. ASSUME NEW q \in Ingesters \ {p} PROVE IngesterInv(q)'
  BY <1>1, <1>4, StoreAssumption DEF IInv, IngesterInv, Inserted, Carried
<1>7. (lock = Nobody => pending = {})' /\ lock' \in Ingesters \union {Nobody}
  BY <1>1 DEF IInv
<1> QED
  BY <1>1, <1>2, <1>3, <1>5, <1>6, <1>7 DEF IInv

\* What an analyst does before the verdict touches the desk alone.
LEMMA DeskPreserves ==
    ASSUME IInv, NEW a \in Analysts, Look(a) \/ CheckFinding(a) \/ GiveUp(a)
    PROVE  IInv'
<1>1. /\ UNCHANGED <<rows, lock, pending, ing, ingests, judgements>>
  BY DEF Look, CheckFinding, GiveUp
<1> DEFINE Desk == [at : {"away", "looking", "checked"}, id : Nat,
                    finding : Keys \union {"none"}]
<1>2. Away \in Desk /\ Away.at = "away"
  BY DEF Away
<1>3. \E d \in Desk : /\ desk' = [desk EXCEPT ![a] = d]
                      /\ d.at # "away" => d.finding \in Keys
  <2>1. CASE Look(a)
    <3>1. PICK r \in rows : desk' = [desk EXCEPT ![a] = [at |-> "looking", id |-> r.id,
                                                        finding |-> r.key]]
      BY <2>1 DEF Look
    <3>2. r.id \in Nat /\ r.key \in Keys
      BY DEF IInv, Sane, Rows
    <3> DEFINE asked == [at |-> "looking", id |-> r.id, finding |-> r.key]
    <3>3. asked \in Desk /\ asked.finding \in Keys
      BY <3>2
    <3> HIDE DEF Desk
    <3> QED BY <3>1, <3>3
  <2>2. CASE CheckFinding(a)
    <3>1. desk[a] \in Desk /\ desk[a].finding \in Keys
      BY <2>2 DEF IInv, CheckFinding
    <3>2. [desk[a] EXCEPT !.at = "checked"] \in Desk
          /\ [desk[a] EXCEPT !.at = "checked"].finding = desk[a].finding
      BY <3>1
    <3>3. \/ desk' = [desk EXCEPT ![a] = [desk[a] EXCEPT !.at = "checked"]]
          \/ desk' = [desk EXCEPT ![a] = Away]
      BY <2>2 DEF CheckFinding, IInv
    <3> QED BY <1>2, <3>1, <3>2, <3>3
  <2>3. CASE GiveUp(a)
    BY <1>2, <2>3 DEF GiveUp
  <2> QED BY <2>1, <2>2, <2>3
<1>4. /\ desk' \in [Analysts -> Desk]
      /\ \A b \in Analysts : desk'[b].at # "away" => desk'[b].finding \in Keys
  BY <1>3 DEF IInv
<1>5. ASSUME NEW p \in Ingesters PROVE IngesterInv(p)'
  BY <1>1 DEF IInv, IngesterInv, Inserted, Carried
<1> QED
  BY <1>1, <1>4, <1>5 DEF IInv, Sane, KeysOf, RowsOf

LEMMA UpdatePreserves ==
    ASSUME IInv, NEW a \in Analysts, NEW v \in Verdicts, UpdateVerdict(a, v)
    PROVE  IInv'
<1>1. /\ UNCHANGED <<lock, pending, ing, ingests>>
      /\ rows' = Judged(rows, desk[a].id, v)
      /\ desk' = [desk EXCEPT ![a] = Away]
      /\ judgements' = judgements + 1
  BY DEF UpdateVerdict
<1>2. Sane(rows')
  BY <1>1, JudgedIs DEF IInv
<1>3. Sane(pending')
  BY <1>1 DEF IInv, Sane, KeysOf, RowsOf
<1>4. ASSUME NEW p \in Ingesters PROVE IngesterInv(p)'
  BY <1>1 DEF IInv, IngesterInv, Inserted, Carried
<1>5. /\ desk' \in [Analysts -> [at : {"away", "looking", "checked"}, id : Nat,
                                 finding : Keys \union {"none"}]]
      /\ \A b \in Analysts : desk'[b].at # "away" => desk'[b].finding \in Keys
  BY <1>1 DEF IInv, Away
<1> QED
  BY <1>1, <1>2, <1>3, <1>4, <1>5 DEF IInv

LEMMA StutterPreserves ==
    ASSUME IInv, UNCHANGED vars
    PROVE  IInv'
<1>1. ASSUME NEW p \in Ingesters PROVE IngesterInv(p)'
  BY DEF vars, IInv, IngesterInv, Inserted, Carried
<1> QED
  BY <1>1 DEF vars, IInv, Sane, KeysOf, RowsOf

\* The rows stay sane, and an ingest has always inserted exactly the first
\* findings of its result, each under its position, with the verdict carried.
THEOREM Invariance == Spec => []IInv
<1>1. ASSUME IInv, [Next]_vars PROVE IInv'
  <2>1. ASSUME NEW p \in Ingesters, NEW result \in Results, ReadCarry(p, result)
        PROVE  IInv'
    BY <1>1, <2>1, ReadCarryPreserves
  <2>2. ASSUME NEW p \in Ingesters, Wipe(p) PROVE IInv'
    BY <1>1, <2>2, WipePreserves
  <2>3. ASSUME NEW p \in Ingesters, InsertFinding(p) PROVE IInv'
    BY <1>1, <2>3, InsertPreserves
  <2>4. ASSUME NEW p \in Ingesters, Commit(p) PROVE IInv'
    BY <1>1, <2>4, CommitPreserves
  <2>5. ASSUME NEW p \in Ingesters, Crash(p) PROVE IInv'
    BY <1>1, <2>5, CrashPreserves
  <2>6. ASSUME NEW a \in Analysts, Look(a) \/ CheckFinding(a) \/ GiveUp(a) PROVE IInv'
    BY <1>1, <2>6, DeskPreserves
  <2>7. ASSUME NEW a \in Analysts, NEW v \in Verdicts, UpdateVerdict(a, v) PROVE IInv'
    BY <1>1, <2>7, UpdatePreserves
  <2>8. CASE UNCHANGED vars
    BY <1>1, <2>8, StutterPreserves
  <2> QED
    BY <1>1, <2>1, <2>2, <2>3, <2>4, <2>5, <2>6, <2>7, <2>8 DEF Next
<1> QED
  BY InitInv, <1>1, PTL DEF Spec
-----------------------------------------------------------------------------
\* The state of the registry that the store's state stands for.
Held == [p \in Ingesters |-> [busy |-> ing[p].at # "idle", snapshot |-> ing[p].carry]]

\* A verdict on a row is a verdict on its key when the row is the key's last
\* one, and changes nothing a later ingest would carry when it is not.
LEMMA JudgedCarry ==
    ASSUME NEW R, Sane(R), NEW id, NEW v \in Verdicts
    PROVE  \/ Carry(Judged(R, id, v)) = Carry(R)
           \/ \E k \in KeysOf(R) : Carry(Judged(R, id, v)) = [Carry(R) EXCEPT ![k] = v]
<1> DEFINE J == Judged(R, id, v)
           new(r) == IF r.id = id THEN [r EXCEPT !.verdict = v] ELSE r
<1>1. Sane(J) /\ KeysOf(J) = KeysOf(R)
  BY JudgedIs
<1>2. \A r \in R : /\ new(r) \in J /\ new(r).id = r.id /\ new(r).key = r.key
                   /\ new(r).verdict = IF r.id = id THEN v ELSE r.verdict
  BY DEF Sane, Rows, Judged
<1>3. \A s \in J : \E r \in R : s = new(r)
  BY DEF Judged
<1> HIDE DEF J, new
<1>4. ASSUME NEW k \in KeysOf(R)
      PROVE  LastRow(J, k).verdict = IF LastRow(R, k).id = id THEN v ELSE LastRow(R, k).verdict
  <2> DEFINE m == LastRow(R, k)
  <2>1. m \in R /\ m.key = k /\ \A s \in R : s.key = k => s.id <= m.id
    BY LastRowIs
  <2> HIDE DEF m
  <2>2. new(m) \in J /\ new(m).key = k /\ new(m).id = m.id
    BY <1>2, <2>1
  <2>3. \A s \in J : s.key = new(m).key => s.id <= new(m).id
    BY <1>2, <1>3, <2>1, <2>2
  <2>4. LastRow(J, k) = new(m)
    BY <1>1, <2>2, <2>3, LastRowOnly
  <2> QED BY <1>2, <2>1, <2>4 DEF m
<1>5. CASE \E k \in KeysOf(R) : LastRow(R, k).id = id
  <2>1. PICK k \in KeysOf(R) : LastRow(R, k).id = id
    BY <1>5
  <2>2. \A j \in KeysOf(R) : LastRow(R, j).id = id => j = k
    BY <2>1, LastRowIs DEF Sane
  <2>3. Carry(J) = [Carry(R) EXCEPT ![k] = v]
    BY <1>1, <1>4, <2>1, <2>2 DEF Carry
  <2> QED BY <2>3 DEF J
<1>6. CASE \A k \in KeysOf(R) : LastRow(R, k).id # id
  <2>1. Carry(J) = Carry(R)
    BY <1>1, <1>4, <1>6 DEF Carry
  <2> QED BY <2>1 DEF J
<1> QED BY <1>5, <1>6

\* All findings of a result inserted: the rows an ingest commits are the keys
\* of its result, each with the verdict it carried.
LEMMA WholeResult ==
    ASSUME IInv, NEW p \in Ingesters, Commit(p)
    PROVE  /\ ing[p].result \in Results
           /\ KeysOf(pending) = {ing[p].result[n] : n \in DOMAIN ing[p].result}
           /\ Carry(pending) = [k \in KeysOf(pending) |-> Carried(p, k)]
<1>1. /\ ing[p] \in IngestState /\ Inserted(p) /\ ing[p].result \in Results
      /\ ing[p].next > Len(ing[p].result) /\ ing[p].next <= Len(ing[p].result) + 1
  BY DEF Commit, CommitReady, IInv, IngesterInv
<1>2. ing[p].result \in Seq(Keys) /\ ing[p].next \in Nat
  BY <1>1 DEF IngestState
<1>3. DOMAIN ing[p].result = 1..(ing[p].next - 1)
  BY <1>1, <1>2
<1>4. \A r \in pending : /\ r.id \in DOMAIN ing[p].result
                         /\ r.key = ing[p].result[r.id]
                         /\ r.verdict = Carried(p, r.key)
  BY <1>1, <1>3 DEF Inserted
<1>5. \A n \in DOMAIN ing[p].result : \E r \in pending : r.id = n
  BY <1>1, <1>3 DEF Inserted
<1>6. KeysOf(pending) = {ing[p].result[n] : n \in DOMAIN ing[p].result}
  BY <1>4, <1>5 DEF KeysOf
<1>7. \A k \in KeysOf(pending) : LastRow(pending, k).verdict = Carried(p, k)
  <2>1. Sane(pending)
    BY DEF IInv
  <2>2. \A k \in KeysOf(pending) : LastRow(pending, k) \in pending /\ LastRow(pending, k).key = k
    BY <2>1, LastRowIs
  <2> QED BY <1>4, <2>2
<1> QED BY <1>1, <1>6, <1>7 DEF Carry

\* A change to one ingester, as the registry sees it.
LEMMA HeldChange ==
    ASSUME NEW p \in Ingesters, NEW r, IInv, ing' = [ing EXCEPT ![p] = r]
    PROVE  Held' = [Held EXCEPT ![p] = [busy |-> r.at # "idle", snapshot |-> r.carry]]
BY DEF Held, IInv

\* An ingest that reads its carry begins a publication; a crash abandons it.
LEMMA BeginStep ==
    ASSUME IInv, NEW p \in Ingesters, NEW result \in Results, ReadCarry(p, result)
    PROVE  Registry!Begin(p)
<1> DEFINE begun == [at |-> "carried", result |-> result, carry |-> Carry(rows), next |-> 1]
<1>1. /\ ing[p].at = "idle" /\ UNCHANGED rows
      /\ ing' = [ing EXCEPT ![p] = begun]
  BY DEF ReadCarry
<1>2. Held' = [Held EXCEPT ![p] = [busy |-> begun.at # "idle", snapshot |-> begun.carry]]
  <2> HIDE DEF begun
  <2> QED BY <1>1, HeldChange
<1>3. Held' = [Held EXCEPT ![p] = [busy |-> TRUE, snapshot |-> Carry(rows)]]
  BY <1>2
<1>4. Held[p].busy = FALSE
  BY <1>1 DEF Held
<1>5. Carry(rows)' = Carry(rows)
  BY <1>1 DEF Carry, KeysOf
<1> QED
  BY <1>3, <1>4, <1>5 DEF Registry!Begin, Held, Carry

LEMMA AbandonStep ==
    ASSUME IInv, NEW p \in Ingesters, Crash(p)
    PROVE  Registry!Abandon(p)
<1>1. /\ ing[p].at # "idle" /\ UNCHANGED rows
      /\ ing' = [ing EXCEPT ![p] = AtRest]
  BY DEF Crash
<1>2. Held' = [Held EXCEPT ![p] = [busy |-> FALSE, snapshot |-> <<>>]]
  <2>1. Held' = [Held EXCEPT ![p] = [busy |-> AtRest.at # "idle", snapshot |-> AtRest.carry]]
    BY <1>1, HeldChange
  <2> QED BY <2>1 DEF AtRest
<1>3. Held[p].busy = TRUE
  BY <1>1 DEF Held
<1>4. Carry(rows)' = Carry(rows)
  BY <1>1 DEF Carry, KeysOf
<1> QED
  BY <1>2, <1>3, <1>4 DEF Registry!Abandon, Registry!Free, Held, Carry

\* The commit publishes the whole result at once.
LEMMA PublishStep ==
    ASSUME IInv, NEW p \in Ingesters, Commit(p), NEW S, S = KeysOf(pending)
    PROVE  Registry!Publish(p, S)
<1>1. /\ ing[p].at # "idle" /\ rows' = pending
      /\ ing' = [ing EXCEPT ![p] = AtRest]
  BY DEF Commit
<1>2. Held' = [Held EXCEPT ![p] = [busy |-> FALSE, snapshot |-> <<>>]]
  <2>1. Held' = [Held EXCEPT ![p] = [busy |-> AtRest.at # "idle", snapshot |-> AtRest.carry]]
    BY <1>1, HeldChange
  <2> QED BY <2>1 DEF AtRest
<1>3. Held[p].busy = TRUE /\ Held[p].snapshot = ing[p].carry
  BY <1>1 DEF Held
<1>4. Carry(rows)' = [k \in KeysOf(pending) |-> Carried(p, k)]
  BY <1>1, WholeResult DEF Carry, KeysOf
<1> QED
  BY <1>2, <1>3, <1>4 DEF Registry!Publish, Registry!Free, Held, Carry, Carried

\* A verdict is a verdict of the registry, or none of its concern.
LEMMA JudgeStep ==
    ASSUME IInv, NEW a \in Analysts, NEW v \in Verdicts, UpdateVerdict(a, v)
    PROVE  \/ \E k \in Keys : Registry!Judge(k, v)
           \/ UNCHANGED Registry!vars
<1>1. rows' = Judged(rows, desk[a].id, v) /\ UNCHANGED ing
  BY DEF UpdateVerdict
<1>2. Held' = Held
  BY <1>1 DEF Held
<1>3. KeysOf(rows) \subseteq Keys
  BY DEF IInv, Sane, Rows, KeysOf
<1>4. CASE Carry(rows') = Carry(rows)
  BY <1>2, <1>4 DEF Registry!vars, Held, Carry
<1>5. CASE \E k \in KeysOf(rows) : Carry(rows') = [Carry(rows) EXCEPT ![k] = v]
  <2>1. PICK k \in KeysOf(rows) : Carry(rows') = [Carry(rows) EXCEPT ![k] = v]
    BY <1>5
  <2>2. Registry!Judge(k, v)
    BY <1>2, <2>1 DEF Registry!Judge, Held, Carry
  <2> QED BY <1>3, <2>2
<1> QED
  BY <1>1, <1>4, <1>5, JudgedCarry DEF IInv

\* What stays between an ingest's snapshot and its commit, or on an analyst's
\* desk, the registry does not see.
LEMMA HiddenStep ==
    ASSUME IInv,
           \/ \E p \in Ingesters : Wipe(p) \/ InsertFinding(p)
           \/ \E a \in Analysts : Look(a) \/ CheckFinding(a) \/ GiveUp(a)
           \/ UNCHANGED vars
    PROVE  UNCHANGED Registry!vars
<1>1. rows' = rows
  BY DEF Wipe, InsertFinding, Look, CheckFinding, GiveUp, vars
<1>2. ASSUME NEW q \in Ingesters
      PROVE  (ing'[q].at # "idle") = (ing[q].at # "idle") /\ ing'[q].carry = ing[q].carry
  <2>1. ASSUME NEW p \in Ingesters, Wipe(p)
        PROVE  (ing'[q].at # "idle") = (ing[q].at # "idle") /\ ing'[q].carry = ing[q].carry
    BY <2>1 DEF Wipe, IInv, IngestState
  <2>2. ASSUME NEW p \in Ingesters, InsertFinding(p)
        PROVE  (ing'[q].at # "idle") = (ing[q].at # "idle") /\ ing'[q].carry = ing[q].carry
    BY <2>2 DEF InsertFinding, IInv, IngestState
  <2> QED
    BY <2>1, <2>2 DEF Look, CheckFinding, GiveUp, vars
<1>3. Held' = Held
  BY <1>2 DEF Held
<1>4. Carry(rows)' = Carry(rows)
  BY <1>1 DEF Carry, KeysOf
<1> QED BY <1>3, <1>4 DEF Registry!vars, Held, Carry

\* Every behaviour of the store is one of the registry: ingests publish whole
\* results in one step with the verdicts of their snapshot, whatever the
\* transactions, crashes and verdicts around them (ingest, triage).
THEOREM StoreIsRegistry == Spec => ImplementsRegistry
<1>1. Init => Registry!Init
  <2> SUFFICES ASSUME Init PROVE Registry!Init
    OBVIOUS
  <2>1. Carry(rows) = <<>>
    BY DEF Init, Carry, KeysOf
  <2>2. Held = [p \in Ingesters |-> [busy |-> FALSE, snapshot |-> <<>>]]
    BY DEF Held, Init, AtRest
  <2> QED BY <2>1, <2>2 DEF Registry!Init, Registry!Free, Held, Carry
<1>2. ASSUME IInv, [Next]_vars PROVE [Registry!Next]_(Registry!vars)
  <2>1. ASSUME NEW p \in Ingesters, NEW result \in Results, ReadCarry(p, result)
        PROVE  Registry!Next
    BY <1>2, <2>1, BeginStep DEF Registry!Next
  <2>2. ASSUME NEW p \in Ingesters, Crash(p) PROVE Registry!Next
    BY <1>2, <2>2, AbandonStep DEF Registry!Next
  <2>3. ASSUME NEW p \in Ingesters, Commit(p) PROVE Registry!Next
    <3>1. KeysOf(pending) \in {{result[n] : n \in DOMAIN result} : result \in Results}
      BY <1>2, <2>3, WholeResult
    <3>2. PICK S \in {{result[n] : n \in DOMAIN result} : result \in Results} : S = KeysOf(pending)
      BY <3>1
    <3>3. Registry!Publish(p, S)
      BY <1>2, <2>3, <3>2, PublishStep
    <3> QED BY <3>2, <3>3 DEF Registry!Next
  <2>4. ASSUME NEW a \in Analysts, NEW v \in Verdicts, UpdateVerdict(a, v)
        PROVE  Registry!Next \/ UNCHANGED Registry!vars
    BY <1>2, <2>4, JudgeStep DEF Registry!Next
  <2>5. CASE \/ \E p \in Ingesters : Wipe(p) \/ InsertFinding(p)
             \/ \E a \in Analysts : Look(a) \/ CheckFinding(a) \/ GiveUp(a)
             \/ UNCHANGED vars
    BY <1>2, <2>5, HiddenStep
  <2> QED
    BY <1>2, <2>1, <2>2, <2>3, <2>4, <2>5 DEF Next
<1> QED
  BY <1>1, <1>2, Invariance, PTL DEF Spec, ImplementsRegistry, Registry!Spec
-----------------------------------------------------------------------------
Counters ==
    /\ ingests \in 0..MaxIngests /\ judgements \in 0..MaxJudgements
    /\ judged \in [Keys -> Verdicts] /\ disturbed \subseteq Keys

\* An ingest or a request never leaves the stages and the tables it is meant
\* for; a transaction is open exactly while its ingest writes (ingest, connect).
THEOREM TypeCorrect == Spec => []TypeOK
<1>1. Init => Counters
  BY StoreAssumption DEF Init, Counters
<1>2. ASSUME IInv, Counters, [Next]_vars PROVE Counters'
  <2>1. ASSUME NEW p \in Ingesters, NEW result \in Results, ReadCarry(p, result)
        PROVE  Counters'
    BY <1>2, <2>1, StoreAssumption DEF ReadCarry, Counters
  <2>2. ASSUME NEW p \in Ingesters, Wipe(p) \/ InsertFinding(p) \/ Crash(p)
        PROVE  Counters'
    BY <1>2, <2>2 DEF Wipe, InsertFinding, Crash, Counters
  <2>3. ASSUME NEW p \in Ingesters, Commit(p) PROVE Counters'
    <3>1. KeysOf(rows) \subseteq Keys
      BY <1>2 DEF IInv, Sane, Rows, KeysOf
    <3>2. UNCHANGED <<ingests, judgements>> /\ disturbed' \subseteq disturbed \union KeysOf(rows)
      BY <2>3 DEF Commit
    <3>3. judged' \in [Keys -> Verdicts]
      BY <1>2, <2>3, StoreAssumption DEF Commit, Counters
    <3> QED BY <1>2, <3>1, <3>2, <3>3 DEF Counters
  <2>4. ASSUME NEW a \in Analysts, Look(a) \/ CheckFinding(a) \/ GiveUp(a)
        PROVE  Counters'
    BY <1>2, <2>4 DEF Look, CheckFinding, GiveUp, Counters
  <2>5. ASSUME NEW a \in Analysts, NEW v \in Verdicts, UpdateVerdict(a, v)
        PROVE  Counters'
    <3> DEFINE hit == {r.key : r \in {s \in rows : s.id = desk[a].id}}
    <3>1. desk[a].finding \in Keys
      BY <1>2, <2>5 DEF IInv, UpdateVerdict
    <3>2. hit \subseteq Keys
      BY <1>2 DEF IInv, Sane, Rows
    <3>3. disturbed' \subseteq disturbed \union hit \union {desk[a].finding}
      BY <2>5 DEF UpdateVerdict
    <3>4. disturbed' \subseteq Keys
      BY <1>2, <3>1, <3>2, <3>3 DEF Counters
    <3>5. judged' \in [Keys -> Verdicts]
      BY <1>2, <2>5, <3>1 DEF UpdateVerdict, Counters
    <3>6. ingests' \in 0..MaxIngests /\ judgements' \in 0..MaxJudgements
      BY <1>2, <2>5, StoreAssumption DEF UpdateVerdict, Counters
    <3> QED BY <3>4, <3>5, <3>6 DEF Counters
  <2>6. CASE UNCHANGED vars
    BY <1>2, <2>6 DEF vars, Counters
  <2> QED
    BY <1>2, <2>1, <2>2, <2>3, <2>4, <2>5, <2>6 DEF Next
<1>3. IInv /\ Counters => TypeOK
  <2> SUFFICES ASSUME IInv, Counters PROVE TypeOK
    OBVIOUS
  <2>1. ASSUME NEW p \in Ingesters
        PROVE  /\ ing[p].at \in {"idle", "carried", "writing"}
               /\ ing[p].result \in Results \union {<<>>}
               /\ ing[p].at = "writing" <=> lock = p
    BY DEF IInv, IngesterInv, AtRest, IngestState
  <2>2. \A a \in Analysts : desk[a].at \in {"away", "looking", "checked"}
    BY DEF IInv
  <2> QED BY <2>1, <2>2 DEF TypeOK, IInv, Counters, Sane
<1> QED
  BY <1>1, <1>2, <1>3, Invariance, PTL DEF Spec
-----------------------------------------------------------------------------
\* The rows of one whole result, each under its position.
RowsOfResult(R, result) ==
    /\ \A r \in R : r.id \in 1..Len(result) /\ r.key = result[r.id]
    /\ \A n \in 1..Len(result) : \E r \in R : r.id = n

Whole == rows = {} \/ \E result \in Results : RowsOfResult(rows, result)

LEMMA WholeCounts ==
    ASSUME NEW R, Sane(R), NEW result \in Seq(Keys), RowsOfResult(R, result)
    PROVE  Cardinality(R) = Len(result)
<1> DEFINE N == Len(result)
           row == [n \in 1..N |-> CHOOSE r \in R : r.id = n]
<1>1. N \in Nat
  OBVIOUS
<1> HIDE DEF N
<1>2. \A n \in 1..N : row[n] \in R /\ row[n].id = n
  BY DEF RowsOfResult, N
<1>3. \A r \in R : r.id \in 1..N /\ row[r.id] = r
  BY <1>2 DEF RowsOfResult, Sane, N
<1>4. row \in [1..N -> R]
  BY <1>2
<1> HIDE DEF row
<1>5. row \in Bijection(1..N, R)
  <2>1. DOMAIN row = 1..N /\ \A m, n \in 1..N : row[m] = row[n] => m = n
    BY <1>2, <1>4
  <2>2. \A r \in R : \E n \in 1..N : row[n] = r
    BY <1>3
  <2> QED BY <1>4, <2>1, <2>2 DEF Bijection, Injection, Surjection, IsInjective
<1>6. ExistsBijection(1..N, R)
  BY <1>5 DEF ExistsBijection
<1> QED
  BY <1>1, <1>6, FS_CountingElements DEF N

\* A verdict changes no id and no key: the rows stay those of the result.
LEMMA JudgedWhole ==
    ASSUME NEW R, Sane(R), NEW id, NEW v \in Verdicts, NEW result, RowsOfResult(R, result)
    PROVE  RowsOfResult(Judged(R, id, v), result)
<1> DEFINE new(r) == IF r.id = id THEN [r EXCEPT !.verdict = v] ELSE r
<1>1. \A r \in R : new(r).id = r.id /\ new(r).key = r.key
  BY DEF Sane, Rows
<1>2. Judged(R, id, v) = {new(r) : r \in R}
  BY DEF Judged
<1> HIDE DEF new
<1> QED BY <1>1, <1>2 DEF RowsOfResult

\* Readers of the console see no scan half rewritten, at any moment of any
\* number of ingests, crashes and verdicts (ingest: one transaction around the
\* wipe and the inserts).
THEOREM RowsAreWhole == Spec => []PublishedIsWhole
<1>1. Init => Whole
  BY DEF Init, Whole
<1>2. ASSUME IInv, Whole, [Next]_vars PROVE Whole'
  <2>1. CASE UNCHANGED rows
    BY <1>2, <2>1 DEF Whole, RowsOfResult
  <2>2. ASSUME NEW p \in Ingesters, Commit(p) PROVE Whole'
    <3> DEFINE result == ing[p].result
    <3>1. /\ result \in Results /\ result \in Seq(Keys) /\ Inserted(p)
          /\ ing[p].next - 1 = Len(result)
      <4>1. /\ ing[p] \in IngestState /\ Inserted(p) /\ result \in Results
            /\ ing[p].next > Len(result) /\ ing[p].next <= Len(result) + 1
        BY <1>2, <2>2 DEF Commit, CommitReady, IInv, IngesterInv
      <4>2. result \in Seq(Keys) /\ ing[p].next \in Nat
        BY <4>1 DEF IngestState
      <4> QED BY <4>1, <4>2
    <3>2. RowsOfResult(pending, result)
      BY <3>1 DEF RowsOfResult, Inserted
    <3>3. rows' = pending
      BY <2>2 DEF Commit
    <3>4. PICK w \in Results : w = result
      BY <3>1
    <3>5. RowsOfResult(rows', w)
      BY <3>2, <3>3, <3>4
    <3> QED BY <3>4, <3>5 DEF Whole
  <2>3. ASSUME NEW a \in Analysts, NEW v \in Verdicts, UpdateVerdict(a, v) PROVE Whole'
    <3>1. rows' = Judged(rows, desk[a].id, v)
      BY <2>3 DEF UpdateVerdict
    <3>2. CASE rows = {}
      BY <3>1, <3>2 DEF Whole, Judged
    <3>3. CASE \E result \in Results : RowsOfResult(rows, result)
      BY <1>2, <3>1, <3>3, JudgedWhole DEF Whole, IInv
    <3> QED BY <1>2, <3>2, <3>3 DEF Whole
  <2> QED
    BY <1>2, <2>1, <2>2, <2>3
    DEF Next, ReadCarry, Wipe, InsertFinding, Crash, Look, CheckFinding, GiveUp, vars
<1>3. IInv /\ Whole => PublishedIsWhole
  <2> SUFFICES ASSUME IInv, NEW result \in Results, RowsOfResult(rows, result)
               PROVE  /\ \A n \in 1..Len(result) : \E r \in rows : r.id = n /\ r.key = result[n]
                      /\ Cardinality(rows) = Len(result)
    BY DEF Whole, PublishedIsWhole
  <2>1. Cardinality(rows) = Len(result)
    BY WholeCounts, StoreAssumption DEF IInv
  <2> QED BY <2>1 DEF RowsOfResult
<1> QED
  BY <1>1, <1>2, <1>3, Invariance, PTL DEF Spec
-----------------------------------------------------------------------------
\* Every finding of a result has a dedup key of its own.
KeysDistinct == \A result \in Results : \A m, n \in DOMAIN result : result[m] = result[n] => m = n

OnePerKey(R) == \A r, s \in R : r.key = s.key => r = s

\* The verdicts of undisturbed keys, wherever the store holds them: in a row,
\* or in the carry of an ingest under way; a key no row has is open.
KeptBy(p) == \A k \in Keys \ disturbed : Carried(p, k) = judged[k]

Kept ==
    /\ OnePerKey(rows)
    /\ \A r \in rows : r.key \notin disturbed => r.verdict = judged[r.key]
    /\ \A k \in Keys \ (disturbed \union KeysOf(rows)) : judged[k] = "open"
    /\ \A p \in Ingesters : ing[p].at # "idle" => KeptBy(p)

LEMMA KeptReadCarry ==
    ASSUME IInv, Kept, NEW p \in Ingesters, NEW result \in Results, ReadCarry(p, result)
    PROVE  Kept'
<1>1. /\ UNCHANGED <<rows, judged, disturbed>>
      /\ ing' = [ing EXCEPT ![p] = [at |-> "carried", result |-> result,
                                    carry |-> Carry(rows), next |-> 1]]
  BY DEF ReadCarry
<1>2. ing'[p].carry = Carry(rows) /\ \A q \in Ingesters \ {p} : ing'[q] = ing[q]
  BY <1>1 DEF IInv
<1>3. KeptBy(p)'
  <2> SUFFICES ASSUME NEW k \in Keys \ disturbed PROVE Carried(p, k)' = judged[k]
    BY <1>1 DEF KeptBy
  <2>1. CASE k \in KeysOf(rows)
    <3>1. Carried(p, k)' = LastRow(rows, k).verdict
      BY <1>2, <2>1 DEF Carried, Carry
    <3>2. LastRow(rows, k) \in rows /\ LastRow(rows, k).key = k
      BY <2>1, LastRowIs DEF IInv
    <3> QED BY <3>1, <3>2 DEF Kept
  <2>2. CASE k \notin KeysOf(rows)
    BY <1>2, <2>2 DEF Carried, Carry, Kept
  <2> QED BY <2>1, <2>2
<1>4. ASSUME NEW q \in Ingesters \ {p}, ing'[q].at # "idle" PROVE KeptBy(q)'
  BY <1>1, <1>2, <1>4 DEF Kept, KeptBy, Carried
<1> QED
  BY <1>1, <1>3, <1>4 DEF Kept, OnePerKey, KeysOf

LEMMA KeptCommit ==
    ASSUME KeysDistinct, IInv, Counters, Kept, NEW p \in Ingesters, Commit(p)
    PROVE  Kept'
<1>1. /\ rows' = pending /\ ing' = [ing EXCEPT ![p] = AtRest]
      /\ judged' = [k \in Keys |-> IF k \in KeysOf(pending) THEN judged[k] ELSE "open"]
      /\ disturbed' = IF \A q \in Ingesters \ {p} : ing[q].at = "idle" THEN disturbed
                      ELSE disturbed \union (KeysOf(rows) \ KeysOf(pending))
  BY DEF Commit
<1>2. /\ ing[p].at # "idle" /\ ing[p] \in IngestState /\ Inserted(p)
      /\ ing[p].result \in Results /\ pending \subseteq Rows
      /\ ing[p].next <= Len(ing[p].result) + 1
  BY DEF Commit, IInv, IngesterInv, Sane
<1>3. OnePerKey(rows')
  <2>1. \A r \in pending : r.id \in DOMAIN ing[p].result /\ r.key = ing[p].result[r.id]
    BY <1>2 DEF Inserted, IngestState
  <2>2. \A r, s \in pending : r.key = s.key => r.id = s.id
    BY <1>2, <2>1 DEF KeysDistinct
  <2> QED BY <1>1, <2>2 DEF OnePerKey, IInv, Sane
<1>4. ASSUME NEW r \in rows', r.key \notin disturbed' PROVE r.verdict = judged'[r.key]
  <2>1. r \in pending /\ r.key \in Keys /\ r.key \in KeysOf(pending) /\ r.key \notin disturbed
    BY <1>1, <1>2, <1>4 DEF Rows, KeysOf
  <2>2. r.verdict = Carried(p, r.key)
    BY <1>2, <2>1 DEF Inserted
  <2> QED BY <1>1, <1>2, <2>1, <2>2 DEF Kept, KeptBy
<1>5. \A k \in Keys \ (disturbed' \union KeysOf(rows')) : judged'[k] = "open"
  BY <1>1
<1>6. ASSUME NEW q \in Ingesters, ing'[q].at # "idle" PROVE KeptBy(q)'
  <2>1. q # p /\ ing'[q] = ing[q] /\ ing[q].at # "idle"
    BY <1>1, <1>6 DEF IInv, AtRest
  <2>2. disturbed' = disturbed \union (KeysOf(rows) \ KeysOf(pending))
    BY <1>1, <2>1
  <2>3. ASSUME NEW k \in Keys \ disturbed' PROVE Carried(q, k)' = judged'[k]
    <3>1. Carried(q, k)' = judged[k]
      BY <2>1, <2>2, <2>3 DEF Kept, KeptBy, Carried
    <3>2. CASE k \in KeysOf(pending)
      BY <1>1, <3>1, <3>2
    <3>3. CASE k \notin KeysOf(pending)
      BY <1>1, <2>2, <2>3, <3>1, <3>3 DEF Kept
    <3> QED BY <3>2, <3>3
  <2> QED BY <2>3 DEF KeptBy
<1> QED
  BY <1>3, <1>4, <1>5, <1>6 DEF Kept

LEMMA KeptJudge ==
    ASSUME IInv, Counters, Kept, NEW a \in Analysts, NEW v \in Verdicts, UpdateVerdict(a, v)
    PROVE  Kept'
<1> DEFINE id == desk[a].id
           k0 == desk[a].finding
           hit == {r.key : r \in {s \in rows : s.id = id}}
           new(r) == IF r.id = id THEN [r EXCEPT !.verdict = v] ELSE r
<1>1. /\ rows' = Judged(rows, id, v) /\ judged' = [judged EXCEPT ![k0] = v]
      /\ disturbed' = IF Quiet /\ hit = {k0} THEN disturbed \ {k0}
                      ELSE disturbed \union hit \union {k0}
      /\ UNCHANGED ing
  BY DEF UpdateVerdict
<1>2. k0 \in Keys /\ judged \in [Keys -> Verdicts]
  BY DEF UpdateVerdict, IInv, Counters
<1>3. \A r \in rows : /\ new(r).id = r.id /\ new(r).key = r.key /\ r.key \in Keys
                      /\ new(r).verdict = IF r.id = id THEN v ELSE r.verdict
  BY DEF IInv, Sane, Rows
<1>4. rows' = {new(r) : r \in rows} /\ KeysOf(rows') = KeysOf(rows)
  <2>1. rows' = {new(r) : r \in rows}
    BY <1>1 DEF Judged
  <2>2. KeysOf(rows') = KeysOf(rows)
    BY <1>1, JudgedIs DEF IInv
  <2> QED BY <2>1, <2>2
<1>5. \A r \in rows : r.id = id => r.key \in hit
  OBVIOUS
<1>6. \A k \in hit : \E r \in rows : r.id = id /\ r.key = k
  OBVIOUS
<1>7. /\ judged'[k0] = v
      /\ \A k \in Keys \ {k0} : judged'[k] = judged[k]
  BY <1>1, <1>2
<1> HIDE DEF hit, new, id, k0
<1>8. OnePerKey(rows')
  BY <1>3, <1>4 DEF Kept, OnePerKey
<1>9. CASE Quiet /\ hit = {k0}
  <2>1. disturbed' = disturbed \ {k0}
    BY <1>1, <1>9
  <2>2. PICK m \in rows : m.id = id /\ m.key = k0
    BY <1>6, <1>9
  <2>3. ASSUME NEW r \in rows, r.key \notin disturbed' PROVE new(r).verdict = judged'[r.key]
    <3>1. CASE r.key = k0
      BY <1>3, <1>7, <2>2, <3>1 DEF Kept, OnePerKey
    <3>2. CASE r.key # k0
      BY <1>3, <1>5, <1>7, <1>9, <2>1, <2>3, <3>2 DEF Kept
    <3> QED BY <3>1, <3>2
  <2>4. \A r \in rows' : r.key \notin disturbed' => r.verdict = judged'[r.key]
    BY <1>3, <1>4, <2>3
  <2>5. \A k \in Keys \ (disturbed' \union KeysOf(rows')) : judged'[k] = "open"
    <3>1. k0 \in KeysOf(rows)
      BY <2>2 DEF KeysOf
    <3> QED BY <1>4, <1>7, <2>1, <3>1 DEF Kept
  <2>6. \A p \in Ingesters : ing'[p].at = "idle"
    BY <1>1, <1>9 DEF Quiet
  <2> QED BY <1>8, <2>4, <2>5, <2>6 DEF Kept
<1>10. CASE ~(Quiet /\ hit = {k0})
  <2>1. disturbed' = disturbed \union hit \union {k0}
    BY <1>1, <1>10
  <2>2. \A r \in rows : r.key \notin disturbed' => new(r).verdict = judged'[r.key]
    BY <1>3, <1>5, <1>7, <2>1 DEF Kept
  <2>3. \A r \in rows' : r.key \notin disturbed' => r.verdict = judged'[r.key]
    BY <1>3, <1>4, <2>2
  <2>4. \A k \in Keys \ (disturbed' \union KeysOf(rows')) : judged'[k] = "open"
    BY <1>4, <1>7, <2>1 DEF Kept
  <2>5. \A p \in Ingesters : ing'[p].at # "idle" => KeptBy(p)'
    BY <1>1, <1>7, <2>1 DEF Kept, KeptBy, Carried
  <2> QED BY <1>8, <2>3, <2>4, <2>5 DEF Kept
<1> QED BY <1>9, <1>10

LEMMA KeptOther ==
    ASSUME IInv, Kept,
           \/ \E p \in Ingesters : Wipe(p) \/ InsertFinding(p) \/ Crash(p)
           \/ \E a \in Analysts : Look(a) \/ CheckFinding(a) \/ GiveUp(a)
           \/ UNCHANGED vars
    PROVE  Kept'
<1>1. UNCHANGED <<rows, judged, disturbed>>
  BY DEF Wipe, InsertFinding, Crash, Look, CheckFinding, GiveUp, vars
<1>2. ASSUME NEW q \in Ingesters, ing'[q].at # "idle"
      PROVE  ing[q].at # "idle" /\ ing'[q].carry = ing[q].carry
  <2>1. ASSUME NEW p \in Ingesters, Wipe(p) \/ InsertFinding(p)
        PROVE  ing[q].at # "idle" /\ ing'[q].carry = ing[q].carry
    <3>1. ing[p].at # "idle"
      BY <2>1 DEF Wipe, InsertFinding
    <3>2. CASE q = p
      BY <2>1, <3>1, <3>2 DEF Wipe, InsertFinding, IInv, IngestState
    <3>3. CASE q # p
      BY <1>2, <2>1, <3>3 DEF Wipe, InsertFinding, IInv
    <3> QED BY <3>2, <3>3
  <2>2. ASSUME NEW p \in Ingesters, Crash(p)
        PROVE  ing[q].at # "idle" /\ ing'[q].carry = ing[q].carry
    BY <1>2, <2>2 DEF Crash, IInv, AtRest
  <2> QED
    BY <1>2, <2>1, <2>2 DEF Look, CheckFinding, GiveUp, vars
<1>3. ASSUME NEW q \in Ingesters, ing'[q].at # "idle" PROVE KeptBy(q)'
  BY <1>1, <1>2, <1>3 DEF Kept, KeptBy, Carried
<1> QED
  BY <1>1, <1>3 DEF Kept, OnePerKey, KeysOf

\* Triage survives re-ingestion for any number of analysts, ingesters, ingests
\* and crashes, provided the findings of a result have distinct dedup keys
\* (ingest: the carry by dedup_key; MCTriageStoreTwice shows it needs that).
THEOREM QuietVerdictsSurvive ==
    KeysDistinct => (Spec => []VerdictsSurviveQuietIngest)
<1> SUFFICES ASSUME KeysDistinct PROVE Spec => []VerdictsSurviveQuietIngest
  OBVIOUS
<1>1. Init => Kept
  BY DEF Init, Kept, OnePerKey, AtRest
<1>2. ASSUME IInv, Counters, Kept, [Next]_vars PROVE Kept'
  <2>1. ASSUME NEW p \in Ingesters, NEW result \in Results, ReadCarry(p, result)
        PROVE  Kept'
    BY <1>2, <2>1, KeptReadCarry
  <2>2. ASSUME NEW p \in Ingesters, Commit(p) PROVE Kept'
    BY <1>2, <2>2, KeptCommit
  <2>3. ASSUME NEW a \in Analysts, NEW v \in Verdicts, UpdateVerdict(a, v) PROVE Kept'
    BY <1>2, <2>3, KeptJudge
  <2>4. CASE \/ \E p \in Ingesters : Wipe(p) \/ InsertFinding(p) \/ Crash(p)
             \/ \E a \in Analysts : Look(a) \/ CheckFinding(a) \/ GiveUp(a)
             \/ UNCHANGED vars
    BY <1>2, <2>4, KeptOther
  <2> QED BY <1>2, <2>1, <2>2, <2>3, <2>4 DEF Next
<1>3. Kept => VerdictsSurviveQuietIngest
  BY DEF Kept, VerdictsSurviveQuietIngest
<1>4. TypeOK => Counters
  BY DEF TypeOK, Counters
<1> QED
  BY <1>1, <1>2, <1>3, <1>4, Invariance, TypeCorrect, PTL DEF Spec
=============================================================================
