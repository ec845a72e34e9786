-------------------------- MODULE ProbePool_proofs --------------------------
(***************************************************************************)
(* Proofs about the pool, for any number of threads, targets, parameters   *)
(* and checks.                                                             *)
(*                                                                         *)
(* The evidence of a finding is its own: a thread's buffer holds exchanges *)
(* of the check it is in, because a check begins by emptying it, and the   *)
(* slot of its injection shape describes its target once the program is    *)
(* past the shape step, because no check that follows the shape comes      *)
(* earlier.  The evidence tells: the exchange that closes a check is the   *)
(* last recorded, and the buffer forgets from the front.  And the result   *)
(* is that of one thread: what a target's probing found depends on nothing *)
(* but its own steps, and the caller reads it only when it is complete.    *)
(***************************************************************************)
EXTENDS ProbePool, Sublists_proofs, SequenceTheorems

Routes == {"path", "json", "classic"}
Exchanges == [target : Targets, step : Steps, tells : BOOLEAN, via : Routes]
Findings == [target : Targets, step : Steps, evid : Seq(Exchanges)]

\* x is of the check called step on target t, delivered in the shape of t.
Of(x, t, step) ==
    /\ x.target = t /\ x.step = step
    /\ Check[step.check].shaped => x.via = Route(t, Facts[t].method, step.param)

\* Where the program of t has its shape step.
ShapeAt(t) == IF Facts[t].method = "GET" \/ Facts[t].token THEN 2 ELSE 3

Typed ==
    /\ job \in [Workers -> Targets \union {NoTarget}]
    /\ pc \in [Workers -> Nat \ {0}] /\ at \in [Workers -> Nat]
    /\ ctx \in [Workers -> Targets \union {NoTarget}]
    /\ buf \in [Workers -> Seq(Exchanges)]
    /\ found \in [Targets -> Seq(Findings)]
    /\ taken \in Nat

\* A check under way is one of the program, and not the shape step.
Checking == \A w \in Workers : at[w] > 0 => AtStep(w) /\ Step(w).check # "shape"

\* The buffer is empty between checks, and the check's own within one.
BufferIsOwn == \A w \in Workers :
    /\ at[w] = 0 => buf[w] = <<>>
    /\ \A i \in DOMAIN buf[w] : Of(buf[w][i], job[w], Step(w))

ShapeIsOwn == \A w \in Workers :
    job[w] # NoTarget /\ pc[w] > ShapeAt(job[w]) => ctx[w] = job[w]

FoundIsOwn == \A t \in Targets : \A i \in DOMAIN found[t] :
    \A j \in DOMAIN found[t][i].evid :
        Of(found[t][i].evid[j], found[t][i].target, found[t][i].step)

PInv == Typed /\ Checking /\ BufferIsOwn /\ ShapeIsOwn /\ FoundIsOwn
-----------------------------------------------------------------------------
\* Every step of a program is a step; those up to the shape step are CSRF, DOM
\* and the shape itself.
LEMMA ProgramShape ==
    ASSUME NEW t \in Targets
    PROVE  /\ Program[t] \in Seq(Steps)
           /\ \A i \in 1 .. ShapeAt(t) - 1 : Program[t][i].check \in {"csrf", "dom"}
           /\ Program[t][ShapeAt(t)].check = "shape"
<1> DEFINE asked == IF Facts[t].method = "GET" \/ Facts[t].token THEN <<>>
                    ELSE <<[check |-> "csrf", param |-> "none"]>>
           fixed == <<[check |-> "dom", param |-> "none"], [check |-> "shape", param |-> "none"]>>
           rest == ParamProgram(t)
<1>1. Program[t] = (asked \o fixed) \o rest
  BY DEF Program
<1>2. rest \in Seq(Steps)
  BY ProgramAssumption
<1>3. /\ asked \in Seq(Steps) /\ ShapeAt(t) = Len(asked) + 2
      /\ Len(asked) = 0 \/ (Len(asked) = 1 /\ asked[1].check = "csrf")
  <2> DEFINE first == [check |-> "csrf", param |-> "none"]
  <2>1. first \in Steps /\ first.check = "csrf"
    BY DEF Steps, Check
  <2> HIDE DEF first
  <2>2. CASE Facts[t].method = "GET" \/ Facts[t].token
    BY <2>2 DEF ShapeAt
  <2>3. CASE ~(Facts[t].method = "GET" \/ Facts[t].token)
    <3>1. asked = <<first>>
      BY <2>3 DEF first
    <3> QED BY <2>1, <2>3, <3>1 DEF ShapeAt
  <2> QED BY <2>2, <2>3
<1>4. /\ fixed \in Seq(Steps) /\ Len(fixed) = 2
      /\ fixed[1].check = "dom" /\ fixed[2].check = "shape"
  <2> DEFINE first == [check |-> "dom", param |-> "none"]
             second == [check |-> "shape", param |-> "none"]
  <2>1. /\ first \in Steps /\ first.check = "dom"
        /\ second \in Steps /\ second.check = "shape"
    BY DEF Steps, Check
  <2>2. fixed = <<first, second>>
    OBVIOUS
  <2> HIDE DEF first, second, fixed
  <2> QED BY <2>1, <2>2
<1> HIDE DEF asked, fixed, rest
<1> DEFINE opening == asked \o fixed
<1>5. /\ opening \in Seq(Steps) /\ Len(opening) = Len(asked) + 2
      /\ \A i \in 1 .. Len(asked) + 2 :
            opening[i] = IF i <= Len(asked) THEN asked[i] ELSE fixed[i - Len(asked)]
  <2>1. asked \in Seq(Steps) /\ fixed \in Seq(Steps) /\ Len(fixed) = 2
    BY <1>3, <1>4
  <2> QED BY <2>1, ConcatProperties
<1> HIDE DEF opening
<1>6. /\ opening \o rest \in Seq(Steps)
      /\ \A i \in 1 .. Len(opening) + Len(rest) :
            (opening \o rest)[i] = IF i <= Len(opening) THEN opening[i] ELSE rest[i - Len(opening)]
  BY <1>2, <1>5, ConcatProperties
<1>7. Program[t] = opening \o rest
  BY <1>1 DEF opening
<1>8. \A i \in 1 .. ShapeAt(t) : Program[t][i] = opening[i]
  BY <1>2, <1>3, <1>5, <1>6, <1>7
<1>9. opening[Len(asked) + 1] = fixed[1] /\ opening[Len(asked) + 2] = fixed[2]
  BY <1>3, <1>5
<1>10. Program[t][ShapeAt(t)].check = "shape" /\ Program[t][ShapeAt(t) - 1].check = "dom"
  BY <1>3, <1>4, <1>8, <1>9
<1>11. ASSUME NEW i \in 1 .. ShapeAt(t) - 1 PROVE Program[t][i].check \in {"csrf", "dom"}
  <2>1. CASE i = ShapeAt(t) - 1
    BY <1>10, <2>1
  <2>2. CASE i # ShapeAt(t) - 1
    <3>1. i = 1 /\ Len(asked) = 1
      BY <1>3, <2>2
    <3> QED BY <1>3, <1>5, <1>8, <3>1
  <2> QED BY <2>1, <2>2
<1> QED BY <1>6, <1>7, <1>10, <1>11

\* What is left of a buffer after an exchange is that exchange and some before.
LEMMA RecordedKeeps ==
    ASSUME NEW b \in Seq(Exchanges), NEW x \in Exchanges
    PROVE  /\ Recorded(b, x) \in Seq(Exchanges)
           /\ \A i \in DOMAIN Recorded(b, x) :
                 Recorded(b, x)[i] = x \/ \E j \in DOMAIN b : Recorded(b, x)[i] = b[j]
<1> DEFINE all == Append(b, x)
           from == IF Len(all) > KeptExchanges THEN Len(all) - KeptExchanges + 1 ELSE 1
<1>1. /\ all \in Seq(Exchanges) /\ Len(all) = Len(b) + 1
      /\ \A i \in 1 .. Len(all) : all[i] = x \/ (i \in DOMAIN b /\ all[i] = b[i])
  OBVIOUS
<1>2. from \in 1 .. Len(all)
  <2>1. Len(b) \in Nat
    OBVIOUS
  <2>2. CASE Len(all) > KeptExchanges
    BY <1>1, <2>1, <2>2, PoolAssumption
  <2>3. CASE ~(Len(all) > KeptExchanges)
    BY <1>1, <2>1, <2>3
  <2> QED BY <2>2, <2>3
<1>3. Recorded(b, x) = SubSeq(all, from, Len(all))
  BY DEF Recorded
<1> HIDE DEF all, from
<1>4. \A k \in from .. Len(all) : all[k] \in Exchanges
  BY <1>1, <1>2
<1>5. Len(all) \in Int /\ from \in Int
  BY <1>1, <1>2
<1>6. /\ Recorded(b, x) \in Seq(Exchanges)
      /\ Len(Recorded(b, x)) = Len(all) - from + 1
      /\ \A i \in 1 .. Len(all) - from + 1 : Recorded(b, x)[i] = all[from + i - 1]
  BY <1>2, <1>3, <1>4, <1>5, SubSeqProperties
<1>7. \A i \in DOMAIN Recorded(b, x) : from + i - 1 \in 1 .. Len(all)
  BY <1>2, <1>5, <1>6
<1>8. \A i \in DOMAIN Recorded(b, x) : Recorded(b, x)[i] = all[from + i - 1]
  BY <1>6
<1> QED BY <1>1, <1>6, <1>7, <1>8

\* The checks that follow the injection shape come after the shape step.
LEMMA AfterShape ==
    ASSUME PInv, NEW w \in Workers, AtStep(w)
    PROVE  /\ job[w] \in Targets /\ Step(w) \in Steps
           /\ Step(w).check # "shape" /\ Check[Step(w).check].shaped =>
                ctx[w] = job[w]
<1>1. /\ job[w] \in Targets /\ pc[w] \in 1 .. Len(Program[job[w]])
      /\ ShapeAt(job[w]) \in {2, 3}
  <2>1. job[w] \in Targets
    BY DEF PInv, Typed, AtStep
  <2>2. Program[job[w]] \in Seq(Steps)
    BY <2>1, ProgramShape
  <2> QED BY <2>1, <2>2 DEF PInv, Typed, AtStep, ShapeAt
<1>2. Step(w) \in Steps
  BY <1>1, ProgramShape DEF Step
<1>3. ~Check["csrf"].shaped /\ ~Check["dom"].shaped
  BY DEF Check, VerifyCsrf, VerifyDomXss, Script
<1>4. ASSUME Step(w).check # "shape", Check[Step(w).check].shaped
      PROVE  ctx[w] = job[w]
  <2>1. pc[w] # ShapeAt(job[w])
    BY <1>1, <1>4, ProgramShape DEF Step
  <2>2. ~(pc[w] < ShapeAt(job[w]))
    <3>1. ASSUME pc[w] \in 1 .. ShapeAt(job[w]) - 1 PROVE FALSE
      <4>1. Step(w).check \in {"csrf", "dom"}
        BY <1>1, <3>1, ProgramShape DEF Step
      <4> QED BY <1>3, <1>4, <4>1
    <3> QED BY <1>1, <3>1
  <2>3. pc[w] > ShapeAt(job[w])
    BY <1>1, <2>1, <2>2
  <2> QED BY <1>1, <2>3, PoolAssumption DEF PInv, ShapeIsOwn
<1> QED BY <1>1, <1>2, <1>4

\* The buffer after a request holds exchanges of the check under way only.
LEMMA BufferStaysOwn ==
    ASSUME PInv, NEW w \in Workers, AtStep(w), at[w] > 0, NEW ans
    PROVE  /\ BufferAfter(w, ans) \in Seq(Exchanges)
           /\ \A i \in DOMAIN BufferAfter(w, ans) :
                 Of(BufferAfter(w, ans)[i], job[w], Step(w))
<1>1. Step(w).check # "shape"
  BY DEF PInv, Checking
<1>2. /\ buf[w] \in Seq(Exchanges)
      /\ \A i \in DOMAIN buf[w] : Of(buf[w][i], job[w], Step(w))
  BY DEF PInv, Typed, BufferIsOwn
<1>3. Exchange(w, ans) \in Exchanges
  BY AfterShape DEF Exchange, Exchanges, Routes, Route
<1>4. Of(Exchange(w, ans), job[w], Step(w))
  BY <1>1, AfterShape DEF Exchange, Of, Script_, Slot
<1>5. CASE Script_(w).recorded /\ ans # "error"
  <2>1. BufferAfter(w, ans) = Recorded(buf[w], Exchange(w, ans))
    BY <1>5 DEF BufferAfter, Slot
  <2> DEFINE b == buf[w]
             x == Exchange(w, ans)
             kept == BufferAfter(w, ans)
  <2>2. b \in Seq(Exchanges) /\ x \in Exchanges /\ kept = Recorded(b, x)
    BY <1>2, <1>3, <2>1
  <2>3. /\ \A i \in DOMAIN b : Of(b[i], job[w], Step(w))
        /\ Of(x, job[w], Step(w))
    BY <1>2, <1>4
  <2> HIDE DEF b, x, kept
  <2>4. /\ kept \in Seq(Exchanges)
        /\ \A i \in DOMAIN kept : kept[i] = x \/ \E j \in DOMAIN b : kept[i] = b[j]
    BY <2>2, RecordedKeeps
  <2>5. \A i \in DOMAIN kept : Of(kept[i], job[w], Step(w))
    BY <2>3, <2>4, Zenon
  <2> QED BY <2>4, <2>5 DEF kept
<1>6. CASE ~(Script_(w).recorded /\ ans # "error")
  <2>1. BufferAfter(w, ans) = buf[w]
    BY <1>6, Zenon DEF BufferAfter, Slot
  <2> QED BY <1>2, <2>1
<1> QED BY <1>5, <1>6

\* A check that ends with proof of its own leaves everything in its place.
LEMMA CloseKeeps ==
    ASSUME PInv, NEW w \in Workers, AtStep(w), at[w] > 0, NEW verdict,
           NEW evid \in Seq(Exchanges),
           \A i \in DOMAIN evid : Of(evid[i], job[w], Step(w)),
           Close(w, verdict, evid), UNCHANGED <<taken, job, ctx>>
    PROVE  PInv'
<1> DEFINE f == [target |-> job[w], step |-> Step(w), evid |-> evid]
<1>1. /\ job[w] \in Targets /\ Step(w) \in Steps /\ Step(w).check # "shape"
  BY AfterShape DEF PInv, Checking
<1>2. f \in Findings
  BY <1>1 DEF Findings
<1>3. Typed'
  <2>1. found' \in [Targets -> Seq(Findings)]
    BY <1>1, <1>2 DEF Close, PInv, Typed
  <2> QED BY <2>1 DEF Close, PInv, Typed, Slot
<1>4. /\ \A v \in Workers : v # w =>
            at'[v] = at[v] /\ pc'[v] = pc[v] /\ buf'[v] = buf[v]
      /\ at'[w] = 0 /\ buf'[w] = <<>> /\ pc'[w] = pc[w] + 1
  BY DEF Close, PInv, Typed, Slot
<1>5. Checking'
  BY <1>4 DEF PInv, Checking, AtStep, Step
<1>6. BufferIsOwn'
  <2>1. SUFFICES ASSUME NEW v \in Workers
                 PROVE  /\ at'[v] = 0 => buf'[v] = <<>>
                        /\ \A i \in DOMAIN buf'[v] : Of(buf'[v][i], job[v], Step(v)')
    BY DEF BufferIsOwn
  <2>2. CASE v = w
    BY <1>4, <2>2
  <2>3. CASE v # w
    BY <1>4, <2>3 DEF PInv, BufferIsOwn, Step
  <2> QED BY <2>2, <2>3
<1>7. ShapeIsOwn'
  <2>1. SUFFICES ASSUME NEW v \in Workers, job[v] # NoTarget, pc'[v] > ShapeAt(job[v])
                 PROVE  ctx[v] = job[v]
    BY DEF ShapeIsOwn
  <2>2. CASE v = w
    <3>1. pc[w] # ShapeAt(job[w])
      BY <1>1, ProgramShape DEF Step
    <3>2. pc[w] > ShapeAt(job[w])
      BY <1>4, <2>1, <2>2, <3>1 DEF PInv, Typed, ShapeAt
    <3> QED BY <2>1, <2>2, <3>2 DEF PInv, ShapeIsOwn
  <2>3. CASE v # w
    <3>1. pc'[v] = pc[v]
      BY <1>4, <2>3
    <3> QED BY <2>1, <3>1 DEF PInv, ShapeIsOwn
  <2> QED BY <2>2, <2>3
<1>8. FoundIsOwn'
  <2>1. CASE verdict # "yes"
    BY <2>1 DEF Close, PInv, FoundIsOwn
  <2>2. CASE verdict = "yes"
    <3>1. found' = [found EXCEPT ![job[w]] = Append(@, f)]
      BY <2>2 DEF Close
    <3>2. \A j \in DOMAIN f.evid : Of(f.evid[j], f.target, f.step)
      OBVIOUS
    <3> HIDE DEF f
    <3>3. SUFFICES ASSUME NEW t \in Targets, NEW i \in DOMAIN found'[t]
                   PROVE  \A j \in DOMAIN found'[t][i].evid :
                            Of(found'[t][i].evid[j], found'[t][i].target, found'[t][i].step)
      BY DEF FoundIsOwn
    <3>4. found'[t][i] = f \/ (i \in DOMAIN found[t] /\ found'[t][i] = found[t][i])
      <4>1. CASE t = job[w]
        <5>1. found[t] \in Seq(Findings)
          BY DEF PInv, Typed
        <5>2. found'[t] = Append(found[t], f)
          BY <3>1, <4>1, <1>1 DEF PInv, Typed
        <5> QED BY <1>2, <3>3, <5>1, <5>2
      <4>2. CASE t # job[w]
        BY <3>1, <3>3, <4>2 DEF PInv, Typed
      <4> QED BY <4>1, <4>2
    <3> QED BY <3>2, <3>4 DEF PInv, FoundIsOwn
  <2> QED BY <2>1, <2>2
<1> QED BY <1>3, <1>5, <1>6, <1>7, <1>8 DEF PInv

\* A step that leaves the other threads alone and this one with an empty buffer.
LEMMA EmptyIsOwn ==
    ASSUME PInv, NEW w \in Workers, buf'[w] = <<>>,
           \A v \in Workers : v # w =>
               /\ at'[v] = at[v] /\ buf'[v] = buf[v]
               /\ job'[v] = job[v] /\ pc'[v] = pc[v]
    PROVE  BufferIsOwn'
<1>1. SUFFICES ASSUME NEW v \in Workers
               PROVE  /\ at'[v] = 0 => buf'[v] = <<>>
                      /\ \A i \in DOMAIN buf'[v] : Of(buf'[v][i], job'[v], Step(v)')
  BY DEF BufferIsOwn
<1>2. CASE v = w
  BY <1>2
<1>3. CASE v # w
  BY <1>3 DEF PInv, BufferIsOwn, Step
<1> QED BY <1>2, <1>3

LEMMA TakeKeeps ==
    ASSUME PInv, NEW w \in Workers, Take(w)
    PROVE  PInv'
<1>1. at[w] = 0
  BY DEF Take, PInv, Checking, AtStep, Typed
<1>2. CASE UNCHANGED <<job, pc>>
  BY <1>2 DEF Take, PInv, Typed, Checking, AtStep, Step, BufferIsOwn, ShapeIsOwn, FoundIsOwn
<1>3. CASE ~UNCHANGED <<job, pc>>
  <2> DEFINE t == TargetSeq[taken + 1]
  <2>1. t \in Targets
    BY DEF Take, Targets, ToSet, PInv, Typed
  <2> HIDE DEF t
  <2>2. job' = [job EXCEPT ![w] = t] /\ pc' = [pc EXCEPT ![w] = 1]
    BY <1>3 DEF Take, t
  <2>3. \A v \in Workers : v # w => job'[v] = job[v] /\ pc'[v] = pc[v]
    BY <2>2 DEF PInv, Typed
  <2>4. job'[w] = t /\ pc'[w] = 1
    BY <2>2 DEF PInv, Typed
  <2>5. UNCHANGED <<at, buf, ctx, found>>
    BY DEF Take
  <2>6. Typed'
    BY <2>1, <2>2, <2>5 DEF Take, PInv, Typed
  <2>7. Checking'
    <3>1. SUFFICES ASSUME NEW v \in Workers, at[v] > 0
                   PROVE  AtStep(v)' /\ Step(v)'.check # "shape"
      BY <2>5 DEF Checking
    <3>2. v # w
      BY <1>1, <3>1
    <3> QED BY <2>3, <3>1, <3>2 DEF PInv, Checking, AtStep, Step
  <2>8. BufferIsOwn'
    BY <1>1, <2>3, <2>5, EmptyIsOwn DEF PInv, BufferIsOwn
  <2>9. ShapeIsOwn'
    BY <2>3, <2>4, <2>5 DEF PInv, ShapeIsOwn, ShapeAt
  <2>10. FoundIsOwn'
    BY <2>5 DEF PInv, FoundIsOwn
  <2> QED BY <2>6, <2>7, <2>8, <2>9, <2>10 DEF PInv
<1> QED BY <1>2, <1>3

LEMMA SetShapeKeeps ==
    ASSUME PInv, NEW w \in Workers, SetShape(w)
    PROVE  PInv'
<1>1. at[w] = 0 /\ buf[w] = <<>>
  BY DEF SetShape, PInv, Checking, BufferIsOwn, Typed
<1>2. \A v \in Workers : v # w => pc'[v] = pc[v] /\ ctx'[v] = ctx[v]
  BY DEF SetShape, PInv, Typed, Slot
<1>3. ctx'[w] = job[w]
  BY DEF SetShape, PInv, Typed, Slot
<1>4. UNCHANGED <<job, at, buf, found, taken>>
  BY DEF SetShape
<1>5. Typed'
  BY <1>4 DEF SetShape, PInv, Typed, Slot
<1>6. Checking'
  BY <1>1, <1>2, <1>4 DEF PInv, Checking, AtStep, Step, Typed
<1>7. BufferIsOwn'
  BY <1>1, <1>2, <1>4, EmptyIsOwn
<1>8. ShapeIsOwn'
  BY <1>2, <1>3, <1>4 DEF PInv, ShapeIsOwn, ShapeAt
<1>9. FoundIsOwn'
  BY <1>4 DEF PInv, FoundIsOwn
<1> QED BY <1>5, <1>6, <1>7, <1>8, <1>9 DEF PInv

LEMMA BeginKeeps ==
    ASSUME PInv, NEW w \in Workers, Begin(w)
    PROVE  PInv'
<1>1. /\ \A v \in Workers : v # w => at'[v] = at[v] /\ buf'[v] = buf[v]
      /\ at'[w] = 1 /\ buf'[w] = <<>>
  BY DEF Begin, PInv, Typed, Slot
<1>2. UNCHANGED <<job, pc, ctx, found, taken>>
  BY DEF Begin
<1>3. Typed'
  BY <1>2 DEF Begin, PInv, Typed, Slot
<1>4. Checking'
  BY <1>1, <1>2 DEF Begin, PInv, Checking, AtStep, Step, Typed
<1>5. BufferIsOwn'
  BY <1>1, <1>2 DEF PInv, BufferIsOwn, Step, Typed
<1>6. ShapeIsOwn' /\ FoundIsOwn'
  BY <1>2 DEF PInv, ShapeIsOwn, FoundIsOwn
<1> QED BY <1>3, <1>4, <1>5, <1>6 DEF PInv

LEMMA SendKeeps ==
    ASSUME PInv, NEW w \in Workers, NEW ans, Send(w, ans)
    PROVE  PInv'
<1> DEFINE known == Told(Script_(w), told[w], Script_(w).sends[at[w]], ans)
           verdict == Verdict(Script_(w), known, at[w], ans)
<1>1. AtStep(w) /\ at[w] > 0 /\ UNCHANGED <<taken, job, ctx>>
  BY DEF Send
<1>2. /\ BufferAfter(w, ans) \in Seq(Exchanges)
      /\ \A i \in DOMAIN BufferAfter(w, ans) : Of(BufferAfter(w, ans)[i], job[w], Step(w))
  BY <1>1, BufferStaysOwn
<1>3. CASE verdict # "open"
  <2>1. Close(w, verdict, BufferAfter(w, ans))
    BY <1>3 DEF Send
  <2> HIDE DEF verdict
  <2> QED BY <1>1, <1>2, <2>1, CloseKeeps
<1>4. CASE verdict = "open"
  <2>1. /\ at' = [at EXCEPT ![w] = @ + 1]
        /\ buf' = [buf EXCEPT ![w] = BufferAfter(w, ans)]
        /\ UNCHANGED <<pc, found>>
    BY <1>4 DEF Send, Slot
  <2> HIDE DEF verdict
  <2>2. /\ \A v \in Workers : v # w => at'[v] = at[v] /\ buf'[v] = buf[v]
        /\ at'[w] = at[w] + 1 /\ buf'[w] = BufferAfter(w, ans)
    BY <2>1 DEF PInv, Typed
  <2>3. Typed'
    BY <1>1, <1>2, <2>1 DEF PInv, Typed
  <2>4. Checking'
    BY <1>1, <2>1, <2>2 DEF PInv, Checking, AtStep, Step, Typed
  <2>5. BufferIsOwn'
    <3>1. SUFFICES ASSUME NEW v \in Workers
                   PROVE  /\ at'[v] = 0 => buf'[v] = <<>>
                          /\ \A i \in DOMAIN buf'[v] : Of(buf'[v][i], job[v], Step(v))
      BY <1>1, <2>1 DEF BufferIsOwn, Step
    <3>2. CASE v = w
      BY <1>1, <1>2, <2>2, <3>2 DEF PInv, Typed
    <3>3. CASE v # w
      BY <2>2, <3>3 DEF PInv, BufferIsOwn
    <3> QED BY <3>2, <3>3
  <2>6. ShapeIsOwn' /\ FoundIsOwn'
    BY <1>1, <2>1 DEF PInv, ShapeIsOwn, FoundIsOwn
  <2> QED BY <2>3, <2>4, <2>5, <2>6 DEF PInv
<1> QED BY <1>3, <1>4

LEMMA ReturnKeeps ==
    ASSUME PInv, NEW w \in Workers, Return(w)
    PROVE  PInv'
<1>1. at[w] = 0 /\ buf[w] = <<>>
  <2>1. ~AtStep(w)
    <3>1. Program[job[w]] \in Seq(Steps)
      BY ProgramShape DEF Return, PInv, Typed
    <3> QED BY <3>1 DEF Return, AtStep, PInv, Typed
  <2> QED BY <2>1 DEF PInv, Checking, BufferIsOwn, Typed
<1>2. /\ \A v \in Workers : v # w => job'[v] = job[v]
      /\ job'[w] = NoTarget
  BY DEF Return, PInv, Typed
<1>3. UNCHANGED <<taken, pc, at, buf, ctx, found>>
  BY DEF Return
<1>4. Typed'
  BY <1>3 DEF Return, PInv, Typed
<1>5. Checking'
  BY <1>1, <1>2, <1>3 DEF PInv, Checking, AtStep, Step, Typed
<1>6. BufferIsOwn'
  BY <1>1, <1>2, <1>3, EmptyIsOwn
<1>7. ShapeIsOwn' /\ FoundIsOwn'
  BY <1>2, <1>3 DEF PInv, ShapeIsOwn, FoundIsOwn
<1> QED BY <1>4, <1>5, <1>6, <1>7 DEF PInv

LEMMA PInvStep == PInv /\ [PNext]_pvars => PInv'
<1> SUFFICES ASSUME PInv, [PNext]_pvars PROVE PInv'
  OBVIOUS
<1>1. ASSUME NEW w \in Workers, Work(w) PROVE PInv'
  <2>1. CASE Take(w)
    BY <2>1, TakeKeeps
  <2>2. CASE SetShape(w)
    BY <2>2, SetShapeKeeps
  <2>3. CASE Begin(w)
    BY <2>3, BeginKeeps
  <2>4. CASE \E ans \in Answers : Send(w, ans)
    BY <2>4, SendKeeps
  <2>5. CASE Raise(w)
    <3>1. <<>> \in Seq(Exchanges) /\ DOMAIN <<>> = {}
      OBVIOUS
    <3> QED BY <2>5, <3>1, CloseKeeps DEF Raise
  <2>6. CASE Return(w)
    BY <2>6, ReturnKeeps
  <2> QED BY <1>1, <2>1, <2>2, <2>3, <2>4, <2>5, <2>6 DEF Work
<1>2. ASSUME UNCHANGED <<taken, job, pc, at, buf, ctx, found>> PROVE PInv'
  BY <1>2 DEF PInv, Typed, Checking, AtStep, Step, BufferIsOwn, ShapeIsOwn, FoundIsOwn
<1>3. CASE Gather
  BY <1>2, <1>3 DEF Gather
<1>4. CASE Collapse
  BY <1>2, <1>4 DEF Collapse
<1>5. CASE UNCHANGED pvars
  BY <1>2, <1>5 DEF pvars
<1> QED BY <1>1, <1>3, <1>4, <1>5 DEF PNext

\* A pool that has not started holds nothing.
LEMMA InitKeeps == PInit => PInv
<1> SUFFICES ASSUME PInit PROVE PInv
  OBVIOUS
<1>1. Typed
  BY DEF PInit, Typed
<1>2. Checking
  BY DEF PInit, Checking
<1>3. BufferIsOwn
  BY DEF PInit, BufferIsOwn
<1>4. ShapeIsOwn /\ FoundIsOwn
  BY DEF PInit, ShapeIsOwn, FoundIsOwn
<1> QED BY <1>1, <1>2, <1>3, <1>4 DEF PInv

\* For any number of threads, targets and parameters, in any interleaving: the
\* proof of a finding holds only exchanges of its own check on its own target,
\* delivered in that target's shape (_EVID and _INJ, engagement.py:1867).
THEOREM ProofStaysOwn == PSpec => []ProofIsOwn
<1>1. PInit => PInv
  BY InitKeeps
<1>2. PInv => ProofIsOwn
  BY DEF PInv, FoundIsOwn, ProofIsOwn, All, Of, ToSet
<1> QED BY <1>1, <1>2, PInvStep, PTL DEF PSpec
-----------------------------------------------------------------------------
(***************************************************************************)
(* What proves a finding is in its evidence.  A check that goes on has     *)
(* nothing that would have ended it; what may prove it at its end, it has  *)
(* just been told.                                                         *)
(***************************************************************************)
StillOpen(w) ==
    LET c == Script_(w)
    IN  /\ \A e \in c.enough : ~(e \subseteq told[w])
        /\ at[w] <= Len(c.sends)
        /\ \A e \in c.late : e \subseteq told[w] =>
              /\ at[w] = Len(c.sends)
              /\ buf[w] # <<>> /\ buf[w][Len(buf[w])].tells

\* The exchange that told is kept, the last one unless the check c tries on.
Shows(c, evid) ==
    /\ \E i \in DOMAIN evid : evid[i].tells
    /\ c.late = {} => evid[Len(evid)].tells

ToldInv ==
    /\ told = [w \in Workers |-> told[w]]
    /\ \A w \in Workers : at[w] > 0 /\ Script_(w).recorded => StillOpen(w)
    /\ \A t \in Targets : \A i \in DOMAIN found[t] :
          Check[found[t][i].step.check].recorded =>
              Shows(Check[found[t][i].step.check], found[t][i].evid)

\* Every check sends something.
LEMMA CheckSends ==
    ASSUME NEW k \in DOMAIN Check
    PROVE  Len(Check[k].sends) \in Nat /\ Len(Check[k].sends) >= 1
<1>1. CASE k = "csrf"
  <2>1. Check[k].sends = IF FuzzForms THEN <<"cookies", "forged">> ELSE <<"cookies">>
    BY <1>1 DEF Check, Script, VerifyCsrf
  <2> QED BY <2>1
<1>2. CASE k = "dom"
  <2>1. Check[k].sends = <<"page">>
    BY <1>2 DEF Check, Script, VerifyDomXss
  <2> QED BY <2>1
<1>3. CASE k = "cmdi"
  <2>1. Check[k].sends = <<"pipe", "subshell">>
    BY <1>3 DEF Check, Script, VerifyCmdi
  <2> QED BY <2>1
<1>4. CASE k = "xss"
  <2>1. Check[k].sends = <<"tag", "handler", "uri">>
    BY <1>4 DEF Check, Script, VerifyReflectedXss
  <2> QED BY <2>1
<1>5. CASE k = "sqli"
  <2>1. Check[k].sends = <<"quote", "true", "false", "base", "fast", "slow", "mid">>
    BY <1>5 DEF Check, Script, VerifySqli
  <2> QED BY <2>1
<1>6. CASE k = "lfi"
  <2>1. Check[k].sends = <<"traversal", "wrapper">>
    BY <1>6 DEF Check, Script, VerifyLfi
  <2> QED BY <2>1
<1>7. CASE k = "redirect"
  <2>1. Check[k].sends = <<"naive", "bypass">>
    BY <1>7 DEF Check, Script, VerifyOpenRedirect
  <2> QED BY <2>1
<1>8. CASE k = "stored"
  <2>1. Check[k].sends = <<"post", "view">>
    BY <1>8 DEF Check, Script, VerifyStoredXss
  <2> QED BY <2>1
<1>9. k \in {"csrf", "dom", "cmdi", "xss", "sqli", "lfi", "redirect", "stored"}
  BY DEF Check
<1> QED BY <1>9, <1>1, <1>2, <1>3, <1>4, <1>5, <1>6, <1>7, <1>8

\* No check is proved by nothing; one that is recorded takes no lost answer for
\* proof; only the XSS check keeps suspicions to its end.
LEMMA CheckShapes ==
    ASSUME NEW k \in DOMAIN Check
    PROVE  /\ \A e \in Check[k].enough \union Check[k].late : e # {}
           /\ Check[k].recorded => Check[k].lenient = {}
           /\ Check[k].otherwise \in {"no", "none"}
           /\ Check[k].late # {} =>
                 /\ Check[k].sends = <<"tag", "handler", "uri">>
                 /\ Check[k].late = {{"handler"}, {"uri"}}
<1>1. CASE k = "csrf"
  <2>1. Check[k] = VerifyCsrf(FuzzForms)
    BY <1>1 DEF Check
  <2>2. /\ VerifyCsrf(FuzzForms).enough = IF FuzzForms THEN {{"forged"}} ELSE {{"cookies"}}
        /\ VerifyCsrf(FuzzForms).late = {}
        /\ VerifyCsrf(FuzzForms).recorded = FALSE
        /\ VerifyCsrf(FuzzForms).otherwise = "no"
    BY DEF VerifyCsrf, Script
  <2> QED BY <2>1, <2>2
<1>2. CASE k = "dom"
  <2>1. Check[k] = VerifyDomXss
    BY <1>2 DEF Check
  <2> QED BY <2>1 DEF Script, VerifyDomXss
<1>3. CASE k = "cmdi"
  <2>1. Check[k] = VerifyCmdi
    BY <1>3 DEF Check
  <2> QED BY <2>1 DEF Script, VerifyCmdi
<1>4. CASE k = "xss"
  <2>1. Check[k] = VerifyReflectedXss
    BY <1>4 DEF Check
  <2> QED BY <2>1 DEF Script, VerifyReflectedXss
<1>5. CASE k = "sqli"
  <2>1. Check[k] = VerifySqli
    BY <1>5 DEF Check
  <2> QED BY <2>1 DEF Script, VerifySqli
<1>6. CASE k = "lfi"
  <2>1. Check[k] = VerifyLfi
    BY <1>6 DEF Check
  <2> QED BY <2>1 DEF Script, VerifyLfi
<1>7. CASE k = "redirect"
  <2>1. Check[k] = VerifyOpenRedirect
    BY <1>7 DEF Check
  <2> QED BY <2>1 DEF Script, VerifyOpenRedirect
<1>8. CASE k = "stored"
  <2>1. Check[k] = VerifyStoredXss
    BY <1>8 DEF Check
  <2> QED BY <2>1 DEF Script, VerifyStoredXss
<1>9. k \in {"csrf", "dom", "cmdi", "xss", "sqli", "lfi", "redirect", "stored"}
  BY DEF Check
<1> QED BY <1>9, <1>1, <1>2, <1>3, <1>4, <1>5, <1>6, <1>7, <1>8

\* The latest exchange is always kept, and with room for two the one before.
LEMMA RecordedLast ==
    ASSUME NEW b \in Seq(Exchanges), NEW x \in Exchanges
    PROVE  /\ \E i \in DOMAIN Recorded(b, x) : Recorded(b, x)[i] = x
           /\ Recorded(b, x) # <<>>
           /\ Recorded(b, x)[Len(Recorded(b, x))] = x
           /\ KeptExchanges >= 2 /\ b # <<>> =>
                 \E i \in DOMAIN Recorded(b, x) : Recorded(b, x)[i] = b[Len(b)]
<1> DEFINE all == Append(b, x)
           from == IF Len(all) > KeptExchanges THEN Len(all) - KeptExchanges + 1 ELSE 1
<1>1. /\ all \in Seq(Exchanges) /\ Len(all) = Len(b) + 1 /\ Len(b) \in Nat
      /\ all[Len(all)] = x
      /\ b # <<>> => Len(b) >= 1 /\ all[Len(b)] = b[Len(b)]
      /\ \A i \in 1 .. Len(all) : all[i] \in Exchanges
  OBVIOUS
<1>2. /\ from \in 1 .. Len(all)
      /\ KeptExchanges >= 2 /\ Len(b) >= 1 => from <= Len(b)
  <2>1. CASE Len(all) > KeptExchanges
    BY <1>1, <2>1, PoolAssumption
  <2>2. CASE ~(Len(all) > KeptExchanges)
    BY <1>1, <2>2
  <2> QED BY <2>1, <2>2
<1>3. Recorded(b, x) = SubSeq(all, from, Len(all))
  BY DEF Recorded
<1> HIDE DEF all, from
<1>4. /\ Recorded(b, x) \in Seq(Exchanges)
      /\ Len(Recorded(b, x)) = Len(all) - from + 1
      /\ \A i \in 1 .. Len(all) - from + 1 : Recorded(b, x)[i] = all[from + i - 1]
  <2>1. \A k \in from .. Len(all) : all[k] \in Exchanges
    BY <1>1, <1>2
  <2> QED BY <1>1, <1>2, <1>3, <2>1, SubSeqProperties
<1>5. Len(all) - from + 1 \in 1 .. Len(all) - from + 1 /\ DOMAIN Recorded(b, x) = 1 .. Len(all) - from + 1
  BY <1>1, <1>2, <1>4
<1>6. Recorded(b, x)[Len(all) - from + 1] = x
  BY <1>1, <1>2, <1>4, <1>5
<1>7. ASSUME KeptExchanges >= 2, b # <<>>
      PROVE  \E i \in DOMAIN Recorded(b, x) : Recorded(b, x)[i] = b[Len(b)]
  <2>1. Len(b) - from + 1 \in 1 .. Len(all) - from + 1
    BY <1>1, <1>2, <1>7
  <2>2. Recorded(b, x)[Len(b) - from + 1] = all[Len(b)]
    BY <1>1, <1>2, <1>4, <2>1
  <2> QED BY <1>1, <1>5, <1>7, <2>1, <2>2
<1> QED BY <1>4, <1>5, <1>6, <1>7

\* After a request a recorded check goes on, proved by nothing yet, or its
\* buffer holds what proves it.
LEMMA RequestTells ==
    ASSUME KeptExchanges >= 2, PInv, ToldInv, NEW w \in Workers, AtStep(w), at[w] > 0,
           Script_(w).recorded, NEW ans,
           NEW known, known = Told(Script_(w), told[w], Script_(w).sends[at[w]], ans),
           NEW verdict, verdict = Verdict(Script_(w), known, at[w], ans),
           NEW kept, kept = BufferAfter(w, ans)
    PROVE  /\ verdict = "yes" => Shows(Script_(w), kept)
           /\ verdict = "open" =>
                 /\ \A e \in Script_(w).enough : ~(e \subseteq known)
                 /\ at[w] + 1 <= Len(Script_(w).sends)
                 /\ \A e \in Script_(w).late : e \subseteq known =>
                       /\ at[w] + 1 = Len(Script_(w).sends)
                       /\ kept # <<>> /\ kept[Len(kept)].tells
<1> DEFINE c == Script_(w)
           p == c.sends[at[w]]
<1>1. /\ Step(w).check \in DOMAIN Check /\ c = Check[Step(w).check]
      /\ at[w] \in Nat /\ at[w] > 0
  BY AfterShape DEF PInv, Checking, Typed, Steps, Script_
<1> HIDE DEF c
<1>2. /\ \A e \in c.enough \union c.late : e # {}
      /\ c.lenient = {}
      /\ c.otherwise \in {"no", "none"}
      /\ Len(c.sends) \in Nat /\ Len(c.sends) >= 1
      /\ c.late # {} => c.sends = <<"tag", "handler", "uri">> /\ c.late = {{"handler"}, {"uri"}}
  BY <1>1, CheckShapes, CheckSends DEF c
<1>3. known = IF ans = "tell" THEN told[w] \union {p} ELSE told[w]
  BY <1>2 DEF Told, c
<1>4. /\ \A e \in c.enough : ~(e \subseteq told[w])
      /\ at[w] <= Len(c.sends)
      /\ \A e \in c.late : e \subseteq told[w] =>
            at[w] = Len(c.sends) /\ buf[w] # <<>> /\ buf[w][Len(buf[w])].tells
  BY DEF ToldInv, StillOpen, c
<1>5. /\ buf[w] \in Seq(Exchanges) /\ Exchange(w, ans) \in Exchanges
      /\ Exchange(w, ans).tells <=> ans = "tell"
      /\ kept = IF ans # "error" THEN Recorded(buf[w], Exchange(w, ans)) ELSE buf[w]
  BY AfterShape DEF PInv, Typed, Exchange, Exchanges, Routes, Route, BufferAfter, Slot
<1>6. ans = "tell" => /\ \E i \in DOMAIN kept : kept[i].tells
                      /\ kept # <<>> /\ kept[Len(kept)].tells
  BY <1>5, RecordedLast
<1>7. buf[w] # <<>> /\ buf[w][Len(buf[w])].tells => \E i \in DOMAIN kept : kept[i].tells
  <2> SUFFICES ASSUME buf[w] # <<>>, buf[w][Len(buf[w])].tells
               PROVE  \E i \in DOMAIN kept : kept[i].tells
    OBVIOUS
  <2>1. CASE ans = "error"
    BY <1>5, <2>1
  <2>2. CASE ans # "error"
    BY <1>5, <2>2, RecordedLast
  <2> QED BY <2>1, <2>2
<1>8. ASSUME verdict = "yes" PROVE Shows(c, kept)
  <2>1. PICK e \in c.enough \union c.late : e \subseteq known
    BY <1>2, <1>8 DEF Verdict, c
  <2>2. CASE ans = "tell"
    BY <1>6, <2>2 DEF Shows
  <2>3. CASE ans # "tell"
    <3>1. e \in c.late
      BY <1>3, <1>4, <2>1, <2>3
    <3>2. \E i \in DOMAIN kept : kept[i].tells
      BY <1>3, <1>4, <1>7, <2>1, <2>3, <3>1
    <3> QED BY <3>1, <3>2 DEF Shows
  <2> QED BY <2>2, <2>3
<1>9. ASSUME verdict = "open"
      PROVE  /\ \A e \in c.enough : ~(e \subseteq known)
             /\ at[w] + 1 <= Len(c.sends)
             /\ \A e \in c.late : e \subseteq known =>
                   /\ at[w] + 1 = Len(c.sends)
                   /\ kept # <<>> /\ kept[Len(kept)].tells
  <2>1. /\ \A e \in c.enough : ~(e \subseteq known)
        /\ at[w] # Len(c.sends)
    BY <1>2, <1>9 DEF Verdict, c
  <2>2. ASSUME NEW e \in c.late, e \subseteq known
        PROVE  at[w] + 1 = Len(c.sends) /\ kept # <<>> /\ kept[Len(kept)].tells
    <3>1. c.sends = <<"tag", "handler", "uri">> /\ e \in {{"handler"}, {"uri"}}
      BY <1>2
    <3>2. ans = "tell" /\ p \in e
      BY <1>3, <1>4, <2>1, <2>2, <3>1
    <3>3. at[w] + 1 = Len(c.sends)
      <4>1. at[w] \in 1 .. 2
        BY <1>1, <1>4, <2>1, <3>1
      <4>2. p = IF at[w] = 1 THEN "tag" ELSE "handler"
        BY <3>1, <4>1
      <4> QED BY <3>1, <3>2, <4>1, <4>2
    <3> QED BY <1>6, <3>2, <3>3
  <2> QED BY <1>1, <1>2, <1>4, <2>1, <2>2
<1> QED BY <1>8, <1>9 DEF c

\* A step between two checks changes nothing for the checks under way.
LEMMA IdleTells ==
    ASSUME PInv, ToldInv, NEW w \in Workers, at[w] = 0, UNCHANGED <<at, told, buf, found>>,
           \A v \in Workers : v # w => job'[v] = job[v] /\ pc'[v] = pc[v]
    PROVE  ToldInv'
<1>1. ASSUME NEW v \in Workers, at'[v] > 0, Script_(v)'.recorded PROVE StillOpen(v)'
  <2>1. v # w /\ at[v] > 0
    BY <1>1
  <2>2. Script_(v)' = Script_(v)
    BY <2>1 DEF Script_, Step
  <2> QED BY <1>1, <2>1, <2>2 DEF ToldInv, StillOpen
<1> QED BY <1>1 DEF ToldInv

\* A check that ends leaves the other threads' checks open, and adds a finding
\* only with its proof.
LEMMA CloseTells ==
    ASSUME PInv, ToldInv, NEW w \in Workers, AtStep(w), at[w] > 0, NEW verdict, NEW evid,
           Script_(w).recorded /\ verdict = "yes" => Shows(Script_(w), evid),
           Close(w, verdict, evid), job' = job
    PROVE  ToldInv'
<1> DEFINE f == [target |-> job[w], step |-> Step(w), evid |-> evid]
<1>1. job[w] \in Targets
  BY DEF PInv, Typed, AtStep
<1>2. ASSUME NEW v \in Workers, at'[v] > 0, Script_(v)'.recorded PROVE StillOpen(v)'
  <2>1. v # w
    BY <1>2 DEF Close, PInv, Typed
  <2>2. at'[v] = at[v] /\ pc'[v] = pc[v] /\ buf'[v] = buf[v] /\ told'[v] = told[v] /\ job'[v] = job[v]
    BY <2>1 DEF Close, PInv, Typed, Slot, ToldInv
  <2> QED BY <1>2, <2>2 DEF ToldInv, StillOpen, Script_, Step
<1>3. ASSUME NEW t \in Targets, NEW i \in DOMAIN found'[t],
             Check[found'[t][i].step.check].recorded
      PROVE  Shows(Check[found'[t][i].step.check], found'[t][i].evid)
  <2>1. CASE verdict # "yes"
    BY <1>3, <2>1 DEF Close, ToldInv
  <2>2. CASE verdict = "yes"
    <3>1. found' = [found EXCEPT ![job[w]] = Append(@, f)]
      BY <2>2 DEF Close
    <3>2. Check[f.step.check].recorded => Shows(Check[f.step.check], f.evid)
      BY <2>2 DEF Script_
    <3> HIDE DEF f
    <3>3. CASE t # job[w]
      BY <1>3, <3>1, <3>3 DEF PInv, Typed, ToldInv
    <3>4. CASE t = job[w]
      <4>1. found[t] \in Seq(Findings) /\ found'[t] = Append(found[t], f)
        BY <1>1, <3>1, <3>4 DEF PInv, Typed
      <4>2. found'[t][i] = f \/ (i \in DOMAIN found[t] /\ found'[t][i] = found[t][i])
        BY <1>3, <4>1
      <4>3. CASE found'[t][i] = f
        BY <1>3, <3>2, <4>3
      <4>4. CASE i \in DOMAIN found[t] /\ found'[t][i] = found[t][i]
        BY <1>3, <4>4 DEF ToldInv
      <4> QED BY <4>2, <4>3, <4>4
    <3> QED BY <3>3, <3>4
  <2> QED BY <2>1, <2>2
<1>4. told' = [v \in Workers |-> told'[v]]
  BY DEF Close, ToldInv
<1> QED BY <1>2, <1>3, <1>4 DEF ToldInv

\* Every step of a thread or of the caller keeps findings proved.
LEMMA ToldStep ==
    ASSUME KeptExchanges >= 2, PInv, ToldInv, [PNext]_pvars
    PROVE  ToldInv'
<1>1. ASSUME NEW w \in Workers, Work(w) PROVE ToldInv'
  <2>1. CASE Take(w)
    <3>1. at[w] = 0
      BY <2>1 DEF Take, PInv, Checking, AtStep, Typed
    <3>2. \A v \in Workers : v # w => job'[v] = job[v] /\ pc'[v] = pc[v]
      BY <2>1 DEF Take, PInv, Typed
    <3>3. UNCHANGED <<at, told, buf, found>>
      BY <2>1 DEF Take
    <3> QED BY <3>1, <3>2, <3>3, IdleTells
  <2>2. CASE SetShape(w)
    <3>1. at[w] = 0
      BY <2>2 DEF SetShape, PInv, Checking, Typed
    <3>2. \A v \in Workers : v # w => pc'[v] = pc[v]
      BY <2>2 DEF SetShape, PInv, Typed
    <3>3. UNCHANGED <<job, at, told, buf, found>>
      BY <2>2 DEF SetShape
    <3> QED BY <3>1, <3>2, <3>3, IdleTells
  <2>3. CASE Begin(w)
    <3>1. /\ \A v \in Workers : v # w => at'[v] = at[v] /\ buf'[v] = buf[v] /\ told'[v] = told[v]
          /\ at'[w] = 1 /\ told'[w] = {}
          /\ told' = [v \in Workers |-> told'[v]]
      BY <2>3 DEF Begin, PInv, Typed, Slot, ToldInv
    <3>2. UNCHANGED <<job, pc, found>>
      BY <2>3 DEF Begin
    <3>3. Step(w).check \in DOMAIN Check
      BY <2>3, AfterShape DEF Begin, Steps
    <3>4. StillOpen(w)'
      BY <3>1, <3>2, <3>3, CheckShapes, CheckSends DEF StillOpen, Script_, Step
    <3> QED BY <3>1, <3>2, <3>4 DEF ToldInv, StillOpen, Script_, Step
  <2>4. ASSUME NEW ans \in Answers, Send(w, ans) PROVE ToldInv'
    <3> DEFINE known == Told(Script_(w), told[w], Script_(w).sends[at[w]], ans)
               verdict == Verdict(Script_(w), known, at[w], ans)
               kept == BufferAfter(w, ans)
    <3>1. /\ AtStep(w) /\ at[w] > 0 /\ job' = job
          /\ IF verdict = "open"
             THEN /\ at' = [at EXCEPT ![w] = @ + 1]
                  /\ told' = [told EXCEPT ![w] = known]
                  /\ buf' = [buf EXCEPT ![w] = kept]
                  /\ UNCHANGED <<pc, found>>
             ELSE Close(w, verdict, kept)
      BY <2>4 DEF Send, Slot
    <3>5. /\ known = Told(Script_(w), told[w], Script_(w).sends[at[w]], ans)
          /\ verdict = Verdict(Script_(w), known, at[w], ans)
          /\ kept = BufferAfter(w, ans)
      OBVIOUS
    <3> HIDE DEF known, verdict, kept
    <3>2. Script_(w).recorded =>
            /\ verdict = "yes" => Shows(Script_(w), kept)
            /\ verdict = "open" =>
                 /\ \A e \in Script_(w).enough : ~(e \subseteq known)
                 /\ at[w] + 1 <= Len(Script_(w).sends)
                 /\ \A e \in Script_(w).late : e \subseteq known =>
                       /\ at[w] + 1 = Len(Script_(w).sends)
                       /\ kept # <<>> /\ kept[Len(kept)].tells
      BY <3>1, <3>5, RequestTells
    <3>3. CASE verdict # "open"
      <4>1. Close(w, verdict, kept) /\ AtStep(w) /\ at[w] > 0 /\ job' = job
        BY <3>1, <3>3
      <4>2. Script_(w).recorded /\ verdict = "yes" => Shows(Script_(w), kept)
        BY <3>2
      <4> QED BY <4>1, <4>2, CloseTells
    <3>4. CASE verdict = "open"
      <4>1. /\ \A v \in Workers : v # w => at'[v] = at[v] /\ buf'[v] = buf[v] /\ told'[v] = told[v]
            /\ at'[w] = at[w] + 1 /\ told'[w] = known /\ buf'[w] = kept
            /\ UNCHANGED <<pc, job, found>>
            /\ told' = [v \in Workers |-> told'[v]]
        BY <3>1, <3>4 DEF PInv, Typed, ToldInv
      <4>2. Script_(w).recorded => StillOpen(w)'
        BY <3>2, <3>4, <4>1 DEF StillOpen, Script_, Step
      <4> QED BY <4>1, <4>2 DEF ToldInv, StillOpen, Script_, Step
    <3> QED BY <3>3, <3>4
  <2>5. CASE Raise(w)
    BY <2>5, CloseTells DEF Raise
  <2>6. CASE Return(w)
    <3>1. at[w] = 0
      <4>1. Program[job[w]] \in Seq(Steps)
        BY <2>6, ProgramShape DEF Return, PInv, Typed
      <4>2. ~AtStep(w)
        BY <2>6, <4>1 DEF Return, AtStep, PInv, Typed
      <4> QED BY <4>2 DEF PInv, Checking, Typed
    <3>2. \A v \in Workers : v # w => job'[v] = job[v]
      BY <2>6 DEF Return, PInv, Typed
    <3>3. UNCHANGED <<pc, at, told, buf, found>>
      BY <2>6 DEF Return
    <3> QED BY <3>1, <3>2, <3>3, IdleTells
  <2> QED BY <1>1, <2>1, <2>2, <2>3, <2>4, <2>5, <2>6 DEF Work
<1>2. ASSUME UNCHANGED <<job, pc, at, told, buf, found>> PROVE ToldInv'
  BY <1>2 DEF ToldInv, StillOpen, Script_, Step
<1>3. CASE Gather
  BY <1>2, <1>3 DEF Gather
<1>4. CASE Collapse
  BY <1>2, <1>4 DEF Collapse
<1>5. CASE UNCHANGED pvars
  BY <1>2, <1>5 DEF pvars
<1> QED BY <1>1, <1>3, <1>4, <1>5 DEF PNext

\* If at least two exchanges are kept (the code keeps 40, engagement.py:992), a
\* finding of a recorded check ships the exchange that proves it, as the last one
\* unless the check is the one that tries on.
THEOREM ProofTells ==
    ASSUME KeptExchanges >= 2
    PROVE  PSpec => []ToldByItsProof
<1>1. PInit => PInv
  BY InitKeeps
<1>2. PInit => ToldInv
  BY DEF PInit, ToldInv
<1>3. PInv /\ ToldInv /\ [PNext]_pvars => ToldInv'
  BY ToldStep
<1>4. ToldInv => ToldByItsProof
  BY DEF ToldInv, ToldByItsProof, Shows, All, ToSet
<1> QED BY <1>1, <1>2, <1>3, <1>4, PInvStep, PTL DEF PSpec
-----------------------------------------------------------------------------
(***************************************************************************)
(* The pool refines ProbeList.  No two threads probe one target, a target  *)
(* that waits has found nothing, and what a target has found came from     *)
(* steps its thread has behind it, in their order.                         *)
(***************************************************************************)
Waiting(t) == \E k \in taken + 1 .. Len(TargetSeq) : t = TargetSeq[k]

Assigned ==
    /\ \A w \in Workers : ~Waiting(job[w])
    /\ \A v, w \in Workers : job[v] = job[w] /\ job[w] # NoTarget => v = w
    /\ \A t \in Targets : Waiting(t) => found[t] = <<>>

\* What thread w has found on its target, it found at steps behind it.
Behind(w) ==
    \A i \in DOMAIN found[job[w]] :
        \E m \in DOMAIN Program[job[w]] :
            m < pc[w] /\ Program[job[w]][m] = found[job[w]][i].step

Ordered ==
    /\ \A t \in Targets : List!OfOneProbing(t, found[t])
    /\ \A w \in Workers : job[w] # NoTarget => Behind(w)

\* The list holds no CSRF hit until all of them are in.
Collected ==
    /\ gathered \in 0 .. Len(TargetSeq)
    /\ out \in Seq(Findings) /\ csrfs \in Seq(Findings)
    /\ \A i \in DOMAIN csrfs : HeldBack(csrfs[i])
    /\ gathered < Len(TargetSeq) \/ csrfs # <<>> =>
         \A i \in DOMAIN out : TakenAtOnce(out[i])

\* The end of a check puts its step behind, with or without a finding.
LEMMA CloseOrders ==
    ASSUME PInv, Assigned, Ordered, NEW w \in Workers, AtStep(w),
           NEW verdict, NEW evid, Close(w, verdict, evid), UNCHANGED <<taken, job>>
    PROVE  Assigned' /\ Ordered'
<1> DEFINE t == job[w]
           f == [target |-> t, step |-> Step(w), evid |-> evid]
<1>1. t \in Targets /\ t # NoTarget /\ ~Waiting(t)
  BY DEF AtStep, PInv, Typed, Assigned
<1>2. /\ pc[w] \in DOMAIN Program[t] /\ pc[w] \in Nat
      /\ Program[t][pc[w]] = Step(w)
      /\ DOMAIN Program[t] \subseteq Nat
  <2>1. Program[t] \in Seq(Steps)
    BY <1>1, ProgramShape
  <2> QED BY <2>1 DEF AtStep, PInv, Typed, Step
<1>3. /\ pc'[w] = pc[w] + 1
      /\ \A v \in Workers : v # w => pc'[v] = pc[v]
  BY DEF Close, PInv, Typed
<1>4. \A v \in Workers : v # w => job[v] # t
  BY <1>1 DEF Assigned
<1>5. CASE verdict # "yes"
  <2>1. found' = found
    BY <1>5 DEF Close
  <2>2. Assigned'
    BY <2>1 DEF Assigned, Waiting
  <2>3. ASSUME NEW v \in Workers, job[v] # NoTarget PROVE Behind(v)'
    <3>1. Behind(v)
      BY <2>3 DEF Ordered
    <3>2. CASE v = w
      BY <1>2, <1>3, <2>1, <3>1, <3>2 DEF Behind
    <3>3. CASE v # w
      BY <1>3, <2>1, <3>1, <3>3 DEF Behind
    <3> QED BY <3>2, <3>3
  <2> QED BY <2>1, <2>2, <2>3 DEF Ordered
<1>6. CASE verdict = "yes"
  <2> DEFINE new == Append(found[t], f)
             n == Len(found[t])
  <2>1. found[t] \in Seq(Findings) /\ n \in Nat
    BY <1>1 DEF PInv, Typed
  <2>2. /\ found'[t] = new
        /\ \A u \in Targets : u # t => found'[u] = found[u]
    BY <1>1, <1>6 DEF Close, PInv, Typed
  <2>3. /\ DOMAIN new = 1 .. n + 1
        /\ new[n + 1] = f
        /\ \A i \in 1 .. n : new[i] = found[t][i]
        /\ DOMAIN found[t] = 1 .. n
    BY <2>1
  <2>4. f.target = t /\ f.step = Step(w)
    OBVIOUS
  <2> HIDE DEF new, n, f
  <2>5. List!OfOneProbing(t, new)
    <3>1. List!OfOneProbing(t, found[t]) /\ Behind(w)
      BY <1>1 DEF Ordered
    <3>2. \A i \in DOMAIN new : new[i].target = t
      <4> SUFFICES ASSUME NEW i \in DOMAIN new PROVE new[i].target = t
        OBVIOUS
      <4>1. i \in 1 .. n \/ i = n + 1
        BY <2>1, <2>3
      <4> QED BY <2>3, <2>4, <3>1, <4>1 DEF List!OfOneProbing
    <3>3. ASSUME NEW i \in DOMAIN new, NEW j \in DOMAIN new, i < j
          PROVE  \E m, k \in DOMAIN Program[t] :
                    m < k /\ Program[t][m] = new[i].step /\ Program[t][k] = new[j].step
      <4>1. i \in 1 .. n /\ (j \in 1 .. n \/ j = n + 1)
        BY <2>1, <2>3, <3>3
      <4>2. CASE j \in 1 .. n
        BY <2>3, <3>1, <3>3, <4>1, <4>2 DEF List!OfOneProbing
      <4>3. CASE j = n + 1
        <5>1. PICK m \in DOMAIN Program[t] : m < pc[w] /\ Program[t][m] = found[t][i].step
          BY <2>3, <3>1, <4>1 DEF Behind
        <5> QED BY <1>2, <2>3, <2>4, <4>1, <4>3, <5>1
      <4> QED BY <4>1, <4>2, <4>3
    <3> QED BY <3>2, <3>3 DEF List!OfOneProbing
  <2>6. Assigned'
    BY <1>1, <2>2 DEF Assigned, Waiting
  <2>7. ASSUME NEW v \in Workers, job[v] # NoTarget PROVE Behind(v)'
    <3>1. Behind(v)
      BY <2>7 DEF Ordered
    <3>2. CASE v = w
      <4>1. ASSUME NEW i \in DOMAIN new
            PROVE  \E m \in DOMAIN Program[t] :
                     m < pc'[w] /\ Program[t][m] = new[i].step
        <5>1. i \in 1 .. n \/ i = n + 1
          BY <2>1, <2>3
        <5>2. CASE i \in 1 .. n
          <6>1. PICK m \in DOMAIN Program[t] : m < pc[w] /\ Program[t][m] = found[t][i].step
            BY <2>3, <3>1, <3>2, <5>2 DEF Behind
          <6> QED BY <1>2, <1>3, <2>3, <5>2, <6>1
        <5>3. CASE i = n + 1
          BY <1>2, <1>3, <2>3, <2>4, <5>3
        <5> QED BY <5>1, <5>2, <5>3
      <4> QED BY <2>2, <3>2, <4>1 DEF Behind
    <3>3. CASE v # w
      <4>1. job[v] \in Targets
        BY <2>7 DEF PInv, Typed
      <4>2. found'[job[v]] = found[job[v]] /\ pc'[v] = pc[v]
        BY <1>3, <1>4, <2>2, <3>3, <4>1
      <4> QED BY <3>1, <4>2 DEF Behind
    <3> QED BY <3>2, <3>3
  <2>8. \A u \in Targets : List!OfOneProbing(u, found'[u])
    BY <2>2, <2>5 DEF Ordered
  <2> QED BY <2>6, <2>7, <2>8 DEF Ordered
<1> QED BY <1>5, <1>6

\* A thread that takes a target is the only one to have it.
LEMMA TakeOrders ==
    ASSUME PInv, Assigned, Ordered, NEW w \in Workers, Take(w)
    PROVE  Assigned' /\ Ordered'
<1>1. /\ taken \in Nat /\ Len(TargetSeq) \in Nat /\ taken < Len(TargetSeq)
      /\ taken' = taken + 1
  BY PoolAssumption DEF Take, PInv, Typed
<1>2. PICK t \in Targets : t = TargetSeq[taken + 1]
  BY <1>1, PoolAssumption
<1>3. Waiting(t)
  BY <1>1, <1>2 DEF Waiting
<1>4. \A k \in taken' + 1 .. Len(TargetSeq) : TargetSeq[k] # t
  BY <1>1, <1>2, PoolAssumption DEF IsInjective
<1>5. ASSUME NEW k \in taken' + 1 .. Len(TargetSeq)
      PROVE  k \in taken + 1 .. Len(TargetSeq)
  BY <1>1, <1>5
<1>6. found' = found /\ job[w] = NoTarget
  BY DEF Take
<1>7. found[t] = <<>> /\ \A v \in Workers : job[v] # t
  BY <1>3 DEF Assigned
<1>8. \A u \in Targets : Waiting(u)' => Waiting(u)
  BY <1>5 DEF Waiting
<1>9. CASE UNCHANGED <<job, pc>>
  <2>1. \A v \in Workers : ~Waiting(job[v])'
    BY <1>5, <1>9 DEF Assigned, Waiting
  <2>2. Assigned'
    BY <1>6, <1>8, <1>9, <2>1 DEF Assigned
  <2>3. Ordered'
    BY <1>6, <1>9 DEF Ordered, Behind
  <2> QED BY <2>2, <2>3
<1>10. CASE job' = [job EXCEPT ![w] = t] /\ pc' = [pc EXCEPT ![w] = 1]
  <2>1. /\ job'[w] = t
        /\ \A v \in Workers : v # w => job'[v] = job[v] /\ pc'[v] = pc[v]
    BY <1>10 DEF PInv, Typed
  <2>2. Assigned'
    <3>1. ASSUME NEW v \in Workers, NEW k \in taken' + 1 .. Len(TargetSeq)
          PROVE  job'[v] # TargetSeq[k]
      BY <1>4, <1>5, <2>1, <3>1 DEF Assigned, Waiting
    <3>2. ASSUME NEW u \in Workers, NEW v \in Workers, job'[u] = job'[v], job'[v] # NoTarget
          PROVE  u = v
      <4>1. u = w => v = w
        BY <1>7, <2>1, <3>2
      <4>2. v = w => u = w
        BY <1>7, <2>1, <3>2
      <4>3. u # w /\ v # w => u = v
        BY <2>1, <3>2 DEF Assigned
      <4> QED BY <4>1, <4>2, <4>3
    <3>3. \A v \in Workers : ~Waiting(job[v])'
      BY <3>1 DEF Waiting
    <3>4. \A u, v \in Workers : job'[u] = job'[v] /\ job'[v] # NoTarget => u = v
      BY <3>2
    <3>5. \A u \in Targets : Waiting(u)' => found'[u] = <<>>
      BY <1>6, <1>8 DEF Assigned
    <3> QED BY <3>3, <3>4, <3>5 DEF Assigned
  <2>3. ASSUME NEW v \in Workers, job'[v] # NoTarget PROVE Behind(v)'
    <3>1. CASE v = w
      BY <1>6, <1>7, <2>1, <3>1 DEF Behind
    <3>2. CASE v # w
      BY <1>6, <2>1, <2>3, <3>2 DEF Behind, Ordered
    <3> QED BY <3>1, <3>2
  <2> QED BY <1>6, <2>2, <2>3 DEF Ordered
<1> QED BY <1>2, <1>9, <1>10 DEF Take

LEMMA OrderStep ==
    ASSUME PInv, Assigned, Ordered, [PNext]_pvars
    PROVE  Assigned' /\ Ordered'
<1>1. ASSUME UNCHANGED <<taken, job, pc, found>> PROVE Assigned' /\ Ordered'
  BY <1>1 DEF Assigned, Waiting, Ordered, Behind
<1>2. ASSUME NEW w \in Workers, Work(w) PROVE Assigned' /\ Ordered'
  <2>1. CASE Take(w)
    BY <2>1, TakeOrders
  <2>2. CASE SetShape(w)
    <3>1. UNCHANGED <<taken, job, found>>
      BY <2>2 DEF SetShape
    <3>2. /\ pc'[w] = pc[w] + 1 /\ pc[w] \in Nat
          /\ \A v \in Workers : v # w => pc'[v] = pc[v]
      BY <2>2 DEF SetShape, PInv, Typed
    <3>3. Assigned'
      BY <3>1 DEF Assigned, Waiting
    <3>4. ASSUME NEW v \in Workers, job[v] # NoTarget PROVE Behind(v)'
      <4>1. Behind(v)
        BY <3>4 DEF Ordered
      <4>2. CASE v = w
        <5>1. Program[job[w]] \in Seq(Steps)
          BY <3>4, <4>2, ProgramShape DEF PInv, Typed
        <5>2. DOMAIN Program[job[w]] \subseteq Nat
          BY <5>1
        <5> QED BY <3>1, <3>2, <4>1, <4>2, <5>2 DEF Behind
      <4>3. CASE v # w
        BY <3>1, <3>2, <4>1, <4>3 DEF Behind
      <4> QED BY <4>2, <4>3
    <3> QED BY <3>1, <3>3, <3>4 DEF Ordered
  <2>3. CASE Begin(w)
    BY <1>1, <2>3 DEF Begin
  <2>4. ASSUME NEW ans \in Answers, Send(w, ans) PROVE Assigned' /\ Ordered'
    <3> DEFINE verdict == Verdict(Script_(w), Told(Script_(w), told[w],
                                    Script_(w).sends[at[w]], ans), at[w], ans)
    <3>1. AtStep(w) /\ UNCHANGED <<taken, job>>
      BY <2>4 DEF Send
    <3>2. UNCHANGED <<pc, found>> \/ Close(w, verdict, BufferAfter(w, ans))
      BY <2>4 DEF Send
    <3> HIDE DEF verdict
    <3> QED BY <1>1, <3>1, <3>2, CloseOrders
  <2>5. CASE Raise(w)
    BY <2>5, CloseOrders DEF Raise
  <2>6. CASE Return(w)
    <3>1. /\ job'[w] = NoTarget
          /\ \A v \in Workers : v # w => job'[v] = job[v]
      BY <2>6 DEF Return, PInv, Typed
    <3>2. UNCHANGED <<taken, pc, found>>
      BY <2>6 DEF Return
    <3>3. ~Waiting(NoTarget)
      BY PoolAssumption DEF PInv, Typed, Waiting
    <3>4. Assigned'
      BY <3>1, <3>2, <3>3 DEF Assigned, Waiting
    <3>5. Ordered'
      BY <3>1, <3>2 DEF Ordered, Behind
    <3> QED BY <3>4, <3>5
  <2> QED BY <1>2, <2>1, <2>2, <2>3, <2>4, <2>5, <2>6 DEF Work
<1>3. CASE Gather
  BY <1>1, <1>3 DEF Gather
<1>4. CASE Collapse
  BY <1>1, <1>4 DEF Collapse
<1>5. CASE UNCHANGED pvars
  BY <1>1, <1>5 DEF pvars
<1> QED BY <1>2, <1>3, <1>4, <1>5 DEF PNext

\* What a thread found, split in what is taken at once and what is held back,
\* each in its order.
LEMMA SplitIs ==
    ASSUME NEW fs \in Seq(Findings)
    PROVE  /\ Where(fs, TakenAtOnce) \in Seq(Findings)
           /\ Where(fs, HeldBack) \in Seq(Findings)
           /\ \A i \in DOMAIN Where(fs, TakenAtOnce) : TakenAtOnce(Where(fs, TakenAtOnce)[i])
           /\ \A i \in DOMAIN Where(fs, HeldBack) : HeldBack(Where(fs, HeldBack)[i])
           /\ \A t \in Targets : List!OfOneProbing(t, fs) =>
                List!OfOneProbing(t, Where(fs, TakenAtOnce))
<1> DEFINE S == {i \in DOMAIN fs : TakenAtOnce(fs[i])}
           R == {i \in DOMAIN fs : HeldBack(fs[i])}
<1>1. Where(fs, TakenAtOnce) = Sublist(fs, S) /\ Where(fs, HeldBack) = Sublist(fs, R)
  BY DEF Where
<1>2. S \in SUBSET DOMAIN fs /\ R \in SUBSET DOMAIN fs
  OBVIOUS
<1>3. /\ \A i \in S : TakenAtOnce(fs[i])
      /\ \A i \in R : HeldBack(fs[i])
  OBVIOUS
<1> HIDE DEF S, R
<1>4. /\ Sublist(fs, S) \in Seq(Findings)
      /\ DOMAIN Sublist(fs, S) = 1 .. Cardinality(S)
      /\ \A n \in 1 .. Cardinality(S) : Nth(S, n) \in S /\ Sublist(fs, S)[n] = fs[Nth(S, n)]
      /\ \A m, n \in 1 .. Cardinality(S) : m < n => Nth(S, m) < Nth(S, n)
  BY <1>2, SublistIs
<1>5. /\ Sublist(fs, R) \in Seq(Findings)
      /\ DOMAIN Sublist(fs, R) = 1 .. Cardinality(R)
      /\ \A n \in 1 .. Cardinality(R) : Nth(R, n) \in R /\ Sublist(fs, R)[n] = fs[Nth(R, n)]
  BY <1>2, SublistIs
<1>6. ASSUME NEW t \in Targets, List!OfOneProbing(t, fs)
      PROVE  List!OfOneProbing(t, Sublist(fs, S))
  <2>1. \A i \in DOMAIN Sublist(fs, S) : Sublist(fs, S)[i].target = t
    BY <1>2, <1>4, <1>6 DEF List!OfOneProbing
  <2>2. ASSUME NEW i \in DOMAIN Sublist(fs, S), NEW j \in DOMAIN Sublist(fs, S), i < j
        PROVE  \E m, n \in DOMAIN Program[t] :
                 /\ m < n /\ Program[t][m] = Sublist(fs, S)[i].step
                 /\ Program[t][n] = Sublist(fs, S)[j].step
    <3>1. /\ Nth(S, i) \in DOMAIN fs /\ Nth(S, j) \in DOMAIN fs /\ Nth(S, i) < Nth(S, j)
          /\ Sublist(fs, S)[i] = fs[Nth(S, i)] /\ Sublist(fs, S)[j] = fs[Nth(S, j)]
      BY <1>2, <1>4, <2>2
    <3> QED BY <1>6, <3>1 DEF List!OfOneProbing
  <2> QED BY <2>1, <2>2 DEF List!OfOneProbing
<1> QED BY <1>1, <1>3, <1>4, <1>5, <1>6

\* A list that grows at its end.
LEMMA Grown ==
    ASSUME NEW X, NEW s \in Seq(X), NEW e \in Seq(X)
    PROVE  /\ s \o e \in Seq(X) /\ Len(s \o e) = Len(s) + Len(e)
           /\ SubSeq(s \o e, 1, Len(s)) = s
           /\ SubSeq(s \o e, Len(s) + 1, Len(s \o e)) = e
           /\ \A i \in DOMAIN (s \o e) :
                \/ i \in DOMAIN s /\ (s \o e)[i] = s[i]
                \/ /\ i \in Len(s) + 1 .. Len(s \o e)
                   /\ i - Len(s) \in DOMAIN e /\ (s \o e)[i] = e[i - Len(s)]
           /\ \A i \in Len(s) + 1 .. Len(s \o e) :
                i - Len(s) \in DOMAIN e /\ (s \o e)[i] = e[i - Len(s)]
<1> DEFINE all == s \o e
<1>1. /\ all \in Seq(X) /\ Len(all) = Len(s) + Len(e)
      /\ \A i \in 1 .. Len(s) + Len(e) :
           all[i] = IF i <= Len(s) THEN s[i] ELSE e[i - Len(s)]
  BY ConcatProperties
<1>2. /\ Len(s) \in Nat /\ Len(e) \in Nat
      /\ DOMAIN s = 1 .. Len(s) /\ DOMAIN e = 1 .. Len(e)
  OBVIOUS
<1> HIDE DEF all
<1>3. DOMAIN all = 1 .. Len(all) /\ \A i \in 1 .. Len(all) : all[i] \in X
  BY <1>1
<1>4. SubSeq(all, 1, Len(s)) = s
  <2>1. \A i \in 1 .. Len(s) : all[i] \in X
    BY <1>1, <1>2, <1>3
  <2>2. /\ SubSeq(all, 1, Len(s)) \in Seq(X)
        /\ Len(SubSeq(all, 1, Len(s))) = Len(s)
        /\ \A i \in 1 .. Len(s) : SubSeq(all, 1, Len(s))[i] = all[i]
    BY <1>2, <2>1, SubSeqProperties
  <2>3. \A i \in 1 .. Len(s) : all[i] = s[i]
    BY <1>1, <1>2
  <2> QED BY <2>2, <2>3, SeqEqual
<1>5. SubSeq(all, Len(s) + 1, Len(all)) = e
  <2> DEFINE m == Len(s) + 1
             n == Len(all)
             t == SubSeq(all, m, n)
  <2>1. m \in Int /\ n \in Int /\ n - m + 1 = Len(e)
    BY <1>1, <1>2
  <2>2. \A i \in m .. n : all[i] \in X
    BY <1>1, <1>2, <1>3
  <2>3. /\ t \in Seq(X) /\ Len(t) = (IF m <= n THEN n - m + 1 ELSE 0)
        /\ \A i \in 1 .. n - m + 1 : t[i] = all[m + i - 1]
    <3> HIDE DEF m, n
    <3> QED BY <2>1, <2>2, SubSeqProperties
  <2>4. Len(t) = Len(e)
    BY <1>1, <1>2, <2>1, <2>3
  <2>5. ASSUME NEW i \in 1 .. Len(e) PROVE all[m + i - 1] = e[i]
    <3>1. /\ m + i - 1 = Len(s) + i /\ Len(s) + i \in 1 .. Len(s) + Len(e)
          /\ ~(Len(s) + i <= Len(s)) /\ Len(s) + i - Len(s) = i
      BY <1>2
    <3> QED BY <1>1, <3>1
  <2>6. \A i \in 1 .. Len(t) : t[i] = e[i]
    <3> HIDE DEF t, m, n
    <3> QED BY <2>1, <2>3, <2>4, <2>5
  <2> HIDE DEF t
  <2>7. t = e
    BY <2>3, <2>4, <2>6, SeqEqual
  <2> QED BY <2>7 DEF t
<1>6. ASSUME NEW i \in Len(s) + 1 .. Len(all)
      PROVE  i - Len(s) \in DOMAIN e /\ all[i] = e[i - Len(s)]
  BY <1>1, <1>2
<1>7. \A i \in 1 .. Len(s) : all[i] = s[i]
  BY <1>1, <1>2
<1>8. \A i \in DOMAIN all : i \in 1 .. Len(s) \/ i \in Len(s) + 1 .. Len(all)
  BY <1>1, <1>2, <1>3
<1> QED BY <1>1, <1>2, <1>4, <1>5, <1>6, <1>7, <1>8 DEF all

\* The next result in order is that of one probing of the next target.
LEMMA GatherRefines ==
    ASSUME PInv, Ordered, Collected, Gather
    PROVE  List!ProbeNext /\ Collected'
<1> DEFINE t == TargetSeq[gathered + 1]
           new == Where(found[t], TakenAtOnce)
           held == Where(found[t], HeldBack)
<1>1. /\ gathered \in Nat /\ Len(TargetSeq) \in Nat /\ gathered < Len(TargetSeq)
      /\ gathered' = gathered + 1
      /\ out \in Seq(Findings) /\ csrfs \in Seq(Findings)
  BY PoolAssumption DEF Gather, Collected
<1>2. t \in Targets
  BY <1>1, PoolAssumption
<1>3. out' = out \o new /\ csrfs' = csrfs \o held
  BY DEF Gather
<1>4. found[t] \in Seq(Findings) /\ List!OfOneProbing(t, found[t])
  BY <1>2 DEF PInv, Typed, Ordered
<1> HIDE DEF t
<1>5. /\ new \in Seq(Findings) /\ held \in Seq(Findings)
      /\ \A i \in DOMAIN new : TakenAtOnce(new[i])
      /\ \A i \in DOMAIN held : HeldBack(held[i])
      /\ List!OfOneProbing(t, new)
  BY <1>2, <1>4, SplitIs
<1> HIDE DEF new, held
<1>6. /\ out' \in Seq(Findings) /\ Len(out') = Len(out) + Len(new)
      /\ SubSeq(out', 1, Len(out)) = out
      /\ SubSeq(out', Len(out) + 1, Len(out')) = new
      /\ \A i \in DOMAIN out' :
           \/ i \in DOMAIN out /\ out'[i] = out[i]
           \/ /\ i \in Len(out) + 1 .. Len(out')
              /\ i - Len(out) \in DOMAIN new /\ out'[i] = new[i - Len(out)]
      /\ \A i \in Len(out) + 1 .. Len(out') :
           i - Len(out) \in DOMAIN new /\ out'[i] = new[i - Len(out)]
  BY <1>1, <1>3, <1>5, Grown
<1>7. /\ csrfs' \in Seq(Findings)
      /\ \A i \in DOMAIN csrfs' :
           \/ i \in DOMAIN csrfs /\ csrfs'[i] = csrfs[i]
           \/ i - Len(csrfs) \in DOMAIN held /\ csrfs'[i] = held[i - Len(csrfs)]
  <2>1. csrfs' = csrfs \o held
    BY <1>3
  <2>2. \A i \in DOMAIN (csrfs \o held) :
           \/ i \in DOMAIN csrfs /\ (csrfs \o held)[i] = csrfs[i]
           \/ i - Len(csrfs) \in DOMAIN held /\ (csrfs \o held)[i] = held[i - Len(csrfs)]
    BY <1>1, <1>5, Grown
  <2>3. csrfs \o held \in Seq(Findings)
    BY <1>1, <1>5
  <2> QED BY <2>1, <2>2, <2>3
<1>8. List!ProbeNext
  <2>1. Len(out') >= Len(out)
    <3>1. Len(out) \in Nat /\ Len(new) \in Nat
      BY <1>1, <1>5
    <3> QED BY <1>6, <3>1
  <2>2. \A i \in Len(out) + 1 .. Len(out') : out'[i].step.check # "csrf"
    BY <1>5, <1>6 DEF TakenAtOnce, HeldBack
  <2>3. List!OfOneProbing(TargetSeq[gathered + 1], SubSeq(out', Len(out) + 1, Len(out')))
    BY <1>5, <1>6 DEF t
  <2> QED BY <1>1, <1>6, <2>1, <2>2, <2>3 DEF List!ProbeNext
<1>9. Collected'
  <2>1. gathered' \in 0 .. Len(TargetSeq)
    BY <1>1
  <2>2. \A i \in DOMAIN csrfs' : HeldBack(csrfs'[i])
    BY <1>5, <1>7 DEF Collected
  <2>3. \A i \in DOMAIN out' : TakenAtOnce(out'[i])
    BY <1>1, <1>5, <1>6 DEF Collected
  <2> QED BY <1>6, <1>7, <2>1, <2>2, <2>3 DEF Collected
<1> QED BY <1>8, <1>9

\* What was held back is said once all targets have reported.
LEMMA CollapseRefines ==
    ASSUME Collected, Collapse
    PROVE  List!Conclude /\ Collected'
<1>1. /\ gathered = Len(TargetSeq) /\ csrfs # <<>> /\ gathered' = gathered
      /\ out' = out \o CsrfFindings /\ csrfs' = <<>>
      /\ out \in Seq(Findings) /\ csrfs \in Seq(Findings)
  BY DEF Collapse, Collected
<1>2. 1 \in DOMAIN csrfs
  BY <1>1
<1>3. /\ CsrfFindings \in Seq(Findings) /\ Len(CsrfFindings) > 0
      /\ \A i \in DOMAIN CsrfFindings : HeldBack(CsrfFindings[i])
  <2>1. CASE Len(csrfs) >= GroupAt
    <3>1. CsrfFindings = <<csrfs[1]>>
      BY <2>1 DEF CsrfFindings
    <3>2. csrfs[1] \in Findings /\ HeldBack(csrfs[1])
      BY <1>1, <1>2 DEF Collected
    <3> QED BY <3>1, <3>2
  <2>2. CASE ~(Len(csrfs) >= GroupAt)
    <3>1. CsrfFindings = csrfs
      BY <2>2 DEF CsrfFindings
    <3> QED BY <1>1, <3>1 DEF Collected
  <2> QED BY <2>1, <2>2
<1>4. /\ out' \in Seq(Findings) /\ Len(out') = Len(out) + Len(CsrfFindings)
      /\ SubSeq(out', 1, Len(out)) = out
      /\ \A i \in Len(out) + 1 .. Len(out') :
           /\ i - Len(out) \in DOMAIN CsrfFindings
           /\ out'[i] = CsrfFindings[i - Len(out)]
  BY <1>1, <1>3, Grown
<1>5. List!Conclude
  <2>1. Len(out') > Len(out)
    <3>1. Len(out) \in Nat /\ Len(CsrfFindings) \in Nat
      BY <1>1, <1>3
    <3> QED BY <1>3, <1>4, <3>1
  <2>2. \A i \in Len(out) + 1 .. Len(out') : out'[i].step.check = "csrf"
    BY <1>3, <1>4 DEF HeldBack
  <2>3. \A i \in DOMAIN out : out[i].step.check # "csrf"
    BY <1>1 DEF Collected, TakenAtOnce, HeldBack
  <2> QED BY <1>1, <1>4, <2>1, <2>2, <2>3 DEF List!Conclude
<1>6. Collected'
  <2>1. ~(gathered' < Len(TargetSeq)) /\ gathered' \in 0 .. Len(TargetSeq)
    BY <1>1, PoolAssumption DEF Collected
  <2>2. csrfs' \in Seq(Findings) /\ DOMAIN csrfs' = {}
    BY <1>1
  <2> QED BY <1>1, <1>4, <2>1, <2>2 DEF Collected
<1> QED BY <1>5, <1>6

LEMMA WorkCollectsNothing ==
    ASSUME NEW w \in Workers, Work(w)
    PROVE  UNCHANGED <<gathered, out, csrfs>>
BY DEF Work, Take, SetShape, Begin, Send, Raise, Return

\* For any number of threads and targets, in any interleaving, whatever is lost
\* or raises: the caller gets the list one thread would build by probing the
\* targets one by one, in their order (probe_targets, engagement.py:1867).
THEOREM PoolIsList == PSpec => OneByOne
<1>1. PInit => PInv
  BY InitKeeps
<1>2. PInit => Assigned /\ Ordered /\ Collected
  <2> SUFFICES ASSUME PInit PROVE Assigned /\ Ordered /\ Collected
    OBVIOUS
  <2>1. ~Waiting(NoTarget)
    BY PoolAssumption DEF PInit, Waiting
  <2>2. \A w \in Workers : job[w] = NoTarget
    BY DEF PInit
  <2>3. Assigned
    BY <2>1, <2>2 DEF PInit, Assigned
  <2>4. Ordered
    BY <2>2 DEF PInit, Ordered, List!OfOneProbing
  <2>5. Collected
    BY PoolAssumption DEF PInit, Collected
  <2> QED BY <2>3, <2>4, <2>5
<1>3. PInv /\ Assigned /\ Ordered /\ [PNext]_pvars => Assigned' /\ Ordered'
  BY OrderStep
<1>4. PInv /\ Ordered /\ Collected /\ [PNext]_pvars =>
        /\ Collected'
        /\ [List!ProbeNext \/ List!Conclude]_<<gathered, out>>
  <2>1. ASSUME UNCHANGED <<gathered, out, csrfs>>, Collected PROVE Collected'
    BY <2>1 DEF Collected
  <2>2. SUFFICES ASSUME PInv, Ordered, Collected, [PNext]_pvars
                 PROVE  /\ Collected'
                        /\ [List!ProbeNext \/ List!Conclude]_<<gathered, out>>
    OBVIOUS
  <2>3. CASE \E w \in Workers : Work(w)
    BY <2>1, <2>2, <2>3, WorkCollectsNothing
  <2>4. CASE Gather
    BY <2>2, <2>4, GatherRefines
  <2>5. CASE Collapse
    BY <2>2, <2>5, CollapseRefines
  <2>6. CASE UNCHANGED pvars
    BY <2>1, <2>2, <2>6 DEF pvars
  <2> QED BY <2>2, <2>3, <2>4, <2>5, <2>6 DEF PNext
<1>5. PInit => List!LInit
  BY DEF PInit, List!LInit
<1> QED BY <1>1, <1>2, <1>3, <1>4, <1>5, PInvStep, PTL DEF PSpec, OneByOne, List!LSpec
=============================================================================
