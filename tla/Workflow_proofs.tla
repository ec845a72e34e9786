--------------------------- MODULE Workflow_proofs ---------------------------
(***************************************************************************)
(* The convergence loop for every site, tool list and round cap.           *)
(***************************************************************************)
EXTENDS Workflow, FiniteSetTheorems, TLAPS

ScopedKeys == {Key[u] : u \in InScope \union {Target}}

\* What a round knows while it runs: no news means that everything run in it
\* so far saw all there is, news means that the frontier has grown.
RoundInv ==
    phase = "discover" =>
        /\ next <= Len(Discoverers) + 1
        /\ fresh => urls # base
        /\ ~fresh => \A n \in 1..(next - 1) :
                         Permitted(Discoverers[n]) => seen[Discoverers[n]] = urls

IInv ==
    /\ TypeOK
    /\ base \subseteq urls
    /\ urls \subseteq ScopedKeys
    /\ ToolsStayInScope
    /\ RoundInv
    /\ SilenceMeansConverged
    /\ CapMeansPending
    /\ caps > 0 => Settled
    /\ RoundsWithinCap
    /\ phase = "seed" => base = {} /\ round = 0
    /\ phase = "round" => round = 0 \/ round < MaxRounds

\* Whatever a tool reports, what is admitted is made of in-scope keys.
LEMMA AdmittedScoped ==
    ASSUME WorkflowAssumption, NEW batch \in SUBSET Raws
    PROVE  /\ Admitted(batch) \subseteq ScopedKeys
           /\ Admitted(batch) \subseteq Keys
           /\ Key[Target] \in ScopedKeys
           /\ Key[Target] \in Keys
BY DEF WorkflowAssumption, Admitted, ScopedKeys, Keys

\* The number of URLs a batch loses to the scope gate is a natural number.
LEMMA DroppedIsNat ==
    ASSUME WorkflowAssumption, NEW batch \in SUBSET Raws
    PROVE  Cardinality(batch \ InScope) \in Nat
<1>1. IsFiniteSet(batch \ InScope)
  BY FS_Subset DEF WorkflowAssumption
<1> QED BY <1>1, FS_CardinalityType

\* Every tool of the discovery and detection lists is a tool.
LEMMA ListsOfTools ==
    ASSUME WorkflowAssumption
    PROVE  /\ DOMAIN Discoverers = 1..Len(Discoverers)
           /\ Len(Discoverers) \in Nat /\ Len(Detectors) \in Nat
           /\ \A n \in 1..Len(Discoverers) : Discoverers[n] \in Tools
           /\ \A n \in 1..Len(Detectors) : Detectors[n] \in Tools
BY DEF WorkflowAssumption

\* Every step of the loop preserves the inductive invariant.
LEMMA StepPreserves ==
    ASSUME WorkflowAssumption, IInv, [Next]_vars
    PROVE  IInv'
<1> USE ListsOfTools DEF IInv, RoundInv, TypeOK, ToolsStayInScope, SilenceMeansConverged,
          CapMeansPending, RoundsWithinCap, Settled
<1>m. MaxRounds \in Nat
  BY DEF WorkflowAssumption
<1>s. ScopedKeys = {Key[u] : u \in InScope \union {Target}}
  BY DEF ScopedKeys
<1>1. ASSUME NEW seeds \in SUBSET Raws, Seed(seeds) PROVE IInv'
  BY <1>1, <1>s, AdmittedScoped, DroppedIsNat DEF Seed
<1>2. CASE BeginRound
  <2>1. /\ phase' = "discover" /\ next' = 1 /\ round' = round + 1
        /\ fresh' = FALSE /\ base' = urls /\ UNCHANGED <<urls, dropped, caps, seen, found>>
        /\ phase = "round"
    BY <1>2 DEF BeginRound
  <2>2. TypeOK'
    <3>1. round \in Nat /\ next' \in Nat \ {0} /\ phase' = "discover" /\ fresh' \in BOOLEAN
      <4>1. round \in Nat
        OBVIOUS
      <4>2. next' \in Nat \ {0} /\ phase' = "discover"
        BY <2>1
      <4>3. fresh' \in BOOLEAN
        BY ONLY <2>1
      <4> QED BY <4>1, <4>2, <4>3
    <3>2. urls \subseteq Keys /\ found \subseteq Keys /\ seen \in [Tools -> SUBSET Keys]
      OBVIOUS
    <3>3. round' \in Nat
      BY <2>1, <3>1
    <3> QED BY <2>1, <3>1, <3>2, <3>3
  <2>3. RoundInv'
    <3>1. 1..(next' - 1) = {}
      BY <2>1
    <3> QED BY <2>1, <3>1
  <2>4. RoundsWithinCap'
    BY <2>1, <1>m
  <2> QED BY <2>1, <2>2, <2>3, <2>4, <1>s
<1>3. ASSUME NEW batch \in SUBSET Raws, Discover(batch) PROVE IInv'
  <2> DEFINE tool == Discoverers[next]
  <2>1. tool \in Tools /\ next \in 1..Len(Discoverers)
    BY <1>3 DEF Discover
  <2>2. /\ urls' = urls \union Admitted(batch)
        /\ fresh' = (fresh \/ ~(Admitted(batch) \subseteq urls))
        /\ dropped' = dropped + Cardinality(batch \ InScope)
    BY <1>3 DEF Discover, AddUrls, Fresh
  <2>3. /\ phase' = phase /\ phase = "discover" /\ next' = next + 1
        /\ base' = base /\ round' = round /\ caps' = caps
        /\ found' = found \union Admitted(batch)
        /\ seen' = [seen EXCEPT ![tool] = IF Permitted(tool) THEN urls ELSE @]
    BY <1>3 DEF Discover, Seen
  <2>4. TypeOK'
    <3>1. seen' \in [Tools -> SUBSET Keys]
      BY <2>1, <2>3
    <3>2. dropped' \in Nat
      <4>1. Cardinality(batch \ InScope) \in Nat
        BY DroppedIsNat
      <4>2. dropped \in Nat
        OBVIOUS
      <4> HIDE DEF IInv, RoundInv, TypeOK, ToolsStayInScope, SilenceMeansConverged
      <4> QED BY <2>2, <4>1, <4>2
    <3>3. urls' \subseteq Keys /\ found' \subseteq Keys
      BY <2>2, <2>3, AdmittedScoped
    <3>4. next' \in Nat \ {0} /\ fresh' \in BOOLEAN
      BY <2>2, <2>3
    <3> QED BY <2>3, <3>1, <3>2, <3>3, <3>4
  <2>5. ToolsStayInScope'
    BY <2>1, <2>3, <1>s
  <2>6. fresh' => urls' # base'
    BY <2>2, <2>3
  <2>7. ASSUME ~fresh', NEW n \in 1..(next' - 1), Permitted(Discoverers[n])
        PROVE  seen'[Discoverers[n]] = urls'
    <3>1. ~fresh /\ urls' = urls
      BY <2>2, <2>7
    <3>2. CASE n = next
      BY <2>1, <2>3, <2>7, <3>1, <3>2
    <3>3. CASE n # next
      <4>1. n \in 1..(next - 1)
        BY <2>1, <2>3, <3>3
      <4>2. seen[Discoverers[n]] = urls /\ Discoverers[n] \in Tools
        BY <2>1, <2>3, <2>7, <3>1, <4>1
      <4> QED BY <2>1, <2>3, <3>1, <4>2
    <3> QED BY <3>2, <3>3
  <2> QED
    BY <2>1, <2>2, <2>3, <2>4, <2>5, <2>6, <2>7, <1>s, AdmittedScoped
<1>4. CASE Abort
  BY <1>4, <1>s DEF Abort
<1>5. CASE Decide
  BY <1>5, <1>m, <1>s DEF Decide, AtCap, PendingAtCap
<1>6. ASSUME NEW batch \in SUBSET Raws, Detect(batch) PROVE IInv'
  <2> DEFINE tool == Detectors[next]
  <2>1. tool \in Tools
    BY <1>6 DEF Detect
  <2>2. /\ UNCHANGED <<phase, urls, round, fresh, dropped, caps, base>>
        /\ phase = "detect" /\ next' = next + 1
        /\ found' = found \union Admitted(batch)
        /\ seen' = [seen EXCEPT ![tool] = IF Permitted(tool) THEN urls ELSE @]
    BY <1>6 DEF Detect, Seen
  <2>3. seen' \in [Tools -> SUBSET Keys]
    BY <2>1, <2>2
  <2>4. SilenceMeansConverged'
    BY <2>1, <2>2
  <2>5. ToolsStayInScope'
    BY <2>1, <2>2, <1>s
  <2> QED BY <2>2, <2>3, <2>4, <2>5, <1>s, AdmittedScoped
<1>7. CASE Finish
  BY <1>7, <1>s DEF Finish
<1>8. CASE UNCHANGED vars
  BY <1>8, <1>s DEF vars
<1> QED
  BY <1>1, <1>2, <1>3, <1>4, <1>5, <1>6, <1>7, <1>8 DEF Next

\* The inductive invariant holds throughout every run.
THEOREM Invariance == ASSUME WorkflowAssumption PROVE Spec => []IInv
<1>1. Init => IInv
  <2> SUFFICES ASSUME Init PROVE IInv
    OBVIOUS
  <2>1. TypeOK /\ ToolsStayInScope
    <3>1. seen \in [Tools -> SUBSET Keys] /\ \A t \in Tools : seen[t] = {}
      BY DEF Init
    <3>2. TypeOK
      <4>1. urls \subseteq Keys /\ base \subseteq Keys /\ found \subseteq Keys
        BY DEF Init
      <4>2. next \in Nat \ {0} /\ round \in Nat /\ dropped \in Nat /\ caps \in Nat
        BY DEF Init
      <4>3. fresh \in BOOLEAN /\ phase = "seed"
        BY DEF Init
      <4> QED BY <3>1, <4>1, <4>2, <4>3 DEF TypeOK
    <3>3. ToolsStayInScope
      BY <3>1 DEF ToolsStayInScope
    <3> QED BY <3>2, <3>3
  <2>2. RoundInv /\ SilenceMeansConverged /\ CapMeansPending /\ RoundsWithinCap
    BY DEF Init, RoundInv, SilenceMeansConverged, Settled, CapMeansPending, RoundsWithinCap
  <2> QED BY <2>1, <2>2 DEF Init, IInv
<1>2. IInv /\ [Next]_vars => IInv'
  BY StepPreserves
<1> QED BY <1>1, <1>2, PTL DEF Spec

\* Whatever tools report, in whichever order and round, no tool is handed a
\* URL outside the scope other than the operator's own target (scope.py).
THEOREM ScopeHolds == ASSUME WorkflowAssumption PROVE Spec => []ToolsStayInScope
BY Invariance, PTL DEF IInv

\* The run stops short of convergence only by recording a cap, and records a
\* cap only when it does (frontier.should_continue).
THEOREM CoverageIsHonest ==
    ASSUME WorkflowAssumption
    PROVE  Spec => []CapsAreHonest
<1>1. IInv => CapsAreHonest
  BY DEF IInv, CapsAreHonest
<1> QED BY <1>1, Invariance, PTL

\* The frontier, and what the tools are given, are made of keys of URLs.
THEOREM TypeCorrect == ASSUME WorkflowAssumption PROVE Spec => []TypeOK
<1>1. IInv => TypeOK
  BY DEF IInv
<1> QED BY <1>1, Invariance, PTL

\* The loop stays within max_rounds, or within its first round.
THEOREM RoundsAreBounded == ASSUME WorkflowAssumption PROVE Spec => []RoundsWithinCap
<1>1. IInv => RoundsWithinCap
  BY DEF IInv
<1> QED BY <1>1, Invariance, PTL
=============================================================================
